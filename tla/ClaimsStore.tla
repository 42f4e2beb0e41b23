----------------------------- MODULE ClaimsStore -----------------------------
(***************************************************************************)
(* The claims database of a repository and what writes it: the local       *)
(* extraction with its semantic tier, the extraction from Sourcegraph, the *)
(* semantic generator on an existing database, and the SCIP importer.      *)
(*                                                                         *)
(* An extraction fills a temporary database and renames it over the        *)
(* published one; the files it reads change meanwhile.  The name of a row  *)
(* stands for its key: rows of symbols are never deleted.  Neither the     *)
(* importer nor the generator has a caller that opens a published          *)
(* database; they are modelled as their tests use them.                    *)
(***************************************************************************)
EXTENDS ClaimExtractors, Bags, Functions

CONSTANTS
  None,        \* nothing: no file, no database, an empty hash
  Contents,    \* [Files -> sets of contents]
  Modes,       \* SUBSET {"local", "remote", "incremental"}
  Answers,     \* what the model may answer about a path: sets of items
  External,    \* symbols of other repositories in an index, with their docs
  MaxEdits,    \* bound: changes of the source tree
  MaxJobs,     \* bound: extractions
  MaxWrites    \* bound: calls of the generator and the importer

ASSUME ClaimsAssumption ==
  /\ DOMAIN Contents = Files
  /\ \A f \in Files :
       /\ Contents[f] # {} /\ {None, Absent} \cap Contents[f] = {}
       /\ \A u \in Contents[f] : IsFiniteSet(u.decls)
  /\ "(external)" \notin Files
  /\ Answers # {}
  /\ Modes \subseteq {"local", "remote", "incremental"}
  /\ {MaxEdits, MaxJobs, MaxWrites} \subseteq Nat

\* What parsers and the model may say: declarations lie within their file, an
\* item is of one of four kinds, and all of it is finite.
ASSUME ContentsAssumption ==
  /\ IsFiniteSet(Files) /\ {None, "llm-semantic"} \cap Files = {}
  /\ Blank \notin Sensitive
  /\ \A f \in Files : \A u \in Contents[f] :
       /\ u.lines \in Nat /\ \A d \in u.decls : d.line \in 1 .. u.lines
       /\ IsFiniteSet(u.imports) /\ IsFiniteSet(u.comments) /\ IsFiniteSet(u.exports)
       /\ \A i \in u.imports : IsFiniteSet(i.paths)
  /\ \A answer \in Answers :
       IsFiniteSet(answer) /\ \A i \in answer : i.pred \in SemanticOnly

\* In a Go package that compiles no name is declared twice; no name is the path
\* of its package, and no path that of another file.
ASSUME NamesAssumption ==
  /\ \A f \in GoFiles : Package[f] \notin Files \ GoFiles
  /\ \A f, g \in GoFiles : Package[f] = Package[g] =>
       \A u \in Contents[f], v \in Contents[g] : (f = g => u = v) =>
         \A d \in u.decls, e \in v.decls :
           /\ SubjectOf(f, d) = SubjectOf(g, e) => f = g /\ d = e
           /\ SubjectOf(f, d) # Package[f]

VARIABLES
  tree,       \* the source tree: the working copy, or the remote HEAD
  clock,      \* the time: one tick for each change
  mtime,      \* when a file was last written or deleted
  past,       \* history: the trees so far
  published,  \* the database at the output path
  job,        \* the extraction under way
  jobs,       \* extractions so far
  call,       \* GenerateForPackage on the published database, under way
  index,      \* the SCIP index being imported
  writes      \* calls and indexes so far

vars == <<tree, clock, mtime, past, published, job, jobs, call, index,
          writes>>

-----------------------------------------------------------------------------
(* The database.                                                           *)

\* The last five are history: when the extraction began and ended, what it
\* was and whether a step of it failed, and what came after it.
NewDB == [syms |-> [k \in {} |-> None], rows |-> EmptyBag,
          sources |-> [f \in {} |-> None], since |-> 0, done |-> 0,
          kind |-> "local", imported |-> FALSE, enriched |-> FALSE]

\* A row of claims: the name a claim refers to is never stored.
Row(c, at) ==
  [path |-> c.path, name |-> c.name, pred |-> c.pred, text |-> c.text,
   file |-> c.file, line |-> c.line, conf |-> c.conf,
   extractor |-> c.extractor, at |-> at]

InsertClaims(rows, cs, at) ==
  LET new == {Row(c, at) : c \in cs}
  IN  rows (+) [r \in new |-> Cardinality({c \in cs : Row(c, at) = r})]

\* The last upsert of a key settles the row of symbols: every column is
\* overwritten.  A declaration follows the statement that exports it.
Key(c) == <<c.path, c.name>>
UpsertSymbols(syms, cs) ==
  [k \in DOMAIN syms \cup {Key(c) : c \in cs} |->
     LET mine == {c \in cs : Key(c) = k}
         last == {c \in mine : /\ \A d \in mine : c.line >= d.line
                               /\ c.pred = "defines"}
         c    == CHOOSE c \in (IF last = {} THEN mine ELSE last) : TRUE
     IN  IF mine = {} THEN syms[k]
         ELSE [kind |-> IF c.kind = Blank THEN "var" ELSE c.kind,
               vis |-> c.vis, scip |-> c.scip]]

Insert(db, cs, at) ==
  [db EXCEPT !.syms = UpsertSymbols(@, cs), !.rows = InsertClaims(@, cs, at)]

Where(rows, keep(_)) == Restrict(rows, {r \in DOMAIN rows : keep(r)})

NeverDeletes(rows, ext, f) == rows
DeletesByFile(rows, ext, f) == Where(rows, LAMBDA r : r.file # f)
DeleteByExtractorAndFile(rows, ext, f) ==
  Where(rows, LAMBDA r : ~(r.extractor = ext /\ r.file = f))
DeleteByExtractorAndImportPath(rows, ext, p) ==
  Where(rows, LAMBDA r : ~(/\ r.extractor = ext /\ r.pred \in SemanticOnly
                           /\ r.path = p))
ConfidenceThreshold == 70
DeleteLowConfidence(rows) ==
  Where(rows, LAMBDA r : ~(/\ r.pred \in SemanticOnly
                           /\ r.conf < ConfidenceThreshold))
DeleteSensitive(rows) == Where(rows, LAMBDA r : r.text \notin Sensitive)

UpsertSource(db, f, hash, version) ==
  [db EXCEPT !.sources = [g \in DOMAIN @ \cup {f} |->
     IF g = f THEN [hash |-> hash, version |-> version] ELSE @[g]]]

\* IsCacheHit for the version every extractor of files has.
IsCacheHit(db, f, hash) ==
  f \in DOMAIN db.sources /\ db.sources[f] = [hash |-> hash, version |-> "0.1.0"]

ImportPaths(db) == {k[1] : k \in DOMAIN db.syms}
Structural(rows) == Where(rows, LAMBDA r : r.pred \notin SemanticOnly)

\* GetStructuralClaimsByImportPath, as a map from names to symbols.
SymbolMap(db, p) ==
  LET names == {r.name : r \in {r \in DOMAIN Structural(db.rows) : r.path = p}}
  IN  [n \in names |-> db.syms[<<p, n>>]]

-----------------------------------------------------------------------------
(* The semantic generator.                                                 *)

ConfidenceOf(pred) == CASE pred = "purpose" -> 70
                        [] pred = "stability" -> 50
                        [] OTHER -> 60

\* parseLLMResponse: items about symbols that were not asked for are dropped.
ParseResponse(p, symbols, answer) ==
  {[Claim("llm-semantic", p, i.name, symbols[i.name].kind,
          symbols[i.name].vis, "llm-semantic", 0, NoScip)
      EXCEPT !.pred = i.pred, !.text = i.text, !.conf = ConfidenceOf(i.pred)]
     : i \in {i \in answer : i.name \in DOMAIN symbols}}

\* Verifier.Verify: a claim is accepted, downgraded or rejected; silence
\* accepts it.
Verify(cs, verdict) ==
  {[c EXCEPT !.conf = IF verdict[c] = "downgrade" THEN (@ * 6) \div 10 ELSE @]
     : c \in {c \in cs : verdict[c] # "reject"}}

AddsToOld(db, p, stored, at) == Insert(db, stored, at)
\* GenerateForPackage after the answers: the old claims of the path go, then
\* the new ones come one by one, and an error stops it halfway.
Replace(db, p, stored, at) ==
  Insert([db EXCEPT !.rows = DeleteByExtractorAndImportPath(@, "llm-semantic",
                                                            p)],
         stored, at)

-----------------------------------------------------------------------------
(* The SCIP importer.                                                      *)

\* DecomposeSymbol: only the last descriptor names the symbol, so a method
\* loses its owner.
Decompose(symbol) ==
  LET last == symbol[Len(symbol)]
  IN  [path |-> symbol[1].name, name |-> last.name,
       kind |-> CASE last.suffix = "type" -> "type"
                  [] last.suffix = "method" -> "func"
                  [] OTHER -> "var"]

\* MapSCIPKind, when the index tells the kind of a symbol.
MapSCIPKind(d) == CASE d.kind \in {"type", "interface"} -> "type"
                    [] d.kind \in {"func", "method"} -> "func"
                    [] OTHER -> d.kind

\* importDocument: the claims of one document of an index of a tree.
DocumentClaims(t, f) ==
  UNION {
    LET scip == FormatGoSymbol(Package[f], d.owner, d.name, ObjectKind(d))
        base == Claim("scip", Decompose(scip).path, Decompose(scip).name,
                      MapSCIPKind(d), GoVisibility(d), f, 0, scip)
    IN  {base, Says(base, "has_kind", MapSCIPKind(d))}
        \cup If(d.doc # Blank, [Says(base, "has_doc", d.doc) EXCEPT !.conf = 85])
        \cup {Says(base, "implements", c.object)
                : c \in {c \in ImplementsClaims(t) :
                           c.file = f /\ c.name = d.name}}
      : d \in t[f].decls}

ClaimsTheHash(db, f, t, at) ==
  Insert([UpsertSource(db, f, t[f], "0.1.0")
            EXCEPT !.rows = DeleteByExtractorAndFile(@, "scip", f)],
         DocumentClaims(t, f), at)
ImportDocumentInto(db, f, t, at) ==
  LET marked == UpsertSource(db, f, None, "0.1.0")
  IN  Insert([marked EXCEPT !.rows = DeleteByExtractorAndFile(@, "scip", f)],
             DocumentClaims(t, f), at)

\* importExternalSymbol: nothing is deleted first.
ExternalClaims(e) ==
  LET to == Decompose(e.symbol)
  IN  If(e.doc # Blank,
         [Says(Claim("scip", to.path, to.name, to.kind, "public", "(external)",
                     0, e.symbol), "has_doc", e.doc) EXCEPT !.conf = 85])

-----------------------------------------------------------------------------
(* The initial state, and the source tree.                                 *)

NoJob   == [stage |-> "none"]
NoDB    == None
NoCall  == [stage |-> "none"]
NoIndex == [stage |-> "none"]

Init ==
  /\ tree = [f \in Files |-> CHOOSE u \in Contents[f] : TRUE]
  /\ clock = 1 /\ mtime = [f \in Files |-> 1] /\ past = {tree}
  /\ published = NoDB
  /\ job = NoJob /\ jobs = 0
  /\ call = NoCall /\ index = NoIndex /\ writes = 0

\* A file is written, created or deleted.
Edit(f, u) ==
  /\ clock <= MaxEdits
  /\ u # tree[f]
  /\ clock' = clock + 1
  /\ tree' = [tree EXCEPT ![f] = u]
  /\ mtime' = [mtime EXCEPT ![f] = clock']
  /\ past' = past \cup {tree'}
  /\ UNCHANGED <<published, job, jobs, call, index, writes>>

-----------------------------------------------------------------------------
(* Local extraction: runExtract.                                           *)

Others == Files \ GoFiles

KeepRest == UNCHANGED <<tree, clock, mtime, past, jobs, call, index,
                        writes>>
Only(j)  == job' = j /\ UNCHANGED published /\ KeepRest

Begin ==
  /\ "local" \in Modes
  /\ job.stage = "none" /\ jobs < MaxJobs
  /\ jobs' = jobs + 1
  /\ \E tier2, tribal \in BOOLEAN :
       job' = [stage |-> "load", db |-> [NewDB EXCEPT !.since = clock,
                                                      !.enriched = tier2],
               tier2 |-> tier2, tribal |-> tribal, todo |-> Others,
               read |-> None, file |-> None]
  /\ UNCHANGED <<tree, clock, mtime, past, published, call, index, writes>>

\* packages.Load, or its failure: a warning.
LoadGo ==
  /\ job.stage = "load"
  /\ Only([job EXCEPT !.stage = "store", !.read = tree])
LoadGoFails ==
  /\ job.stage = "load"
  /\ Only([job EXCEPT !.stage = "walk", !.db.kind = "degraded"])

StoresUnfiltered(db, cs) == Insert(db, cs, clock)
\* storeClaims: one transaction.
StoreClaims(db, cs) == Insert(db, FilterSensitive(cs), clock)

StoreGo ==
  /\ job.stage = "store"
  /\ Only([job EXCEPT !.stage = "walk", !.read = None,
                      !.db = StoreClaims(@, GoDeep(job.read))])

\* A file that is gone, cannot be read or parsed, or says nothing.
SkipOther(f) ==
  /\ job.stage = "walk" /\ job.file = None /\ f \in job.todo
  /\ Only([job EXCEPT !.todo = @ \ {f},
           !.db.kind = IF tree[f] = Absent THEN @ ELSE "degraded"])

ReadOther(f) ==
  /\ job.stage = "walk" /\ job.file = None /\ f \in job.todo
  /\ tree[f] # Absent /\ TreeSitter(f, tree[f]) # {}
  /\ Only([job EXCEPT !.todo = @ \ {f}, !.file = f, !.read = tree[f]])

StoreOther ==
  /\ job.stage = "walk" /\ job.file # None /\ job.read # None
  /\ Only([job EXCEPT
       !.read = None,
       !.db = StoreClaims(@, Located(TreeSitter(job.file, job.read)))])
StoreOtherFails ==
  /\ job.stage = "walk" /\ job.file # None /\ job.read # None
  /\ Only([job EXCEPT !.read = None, !.file = None, !.db.kind = "degraded"])

\* The file is read once more for the hash that source_files records.
HashOther ==
  /\ job.stage = "walk" /\ job.file # None /\ job.read = None
  /\ Only([job EXCEPT
       !.file = None,
       !.db = IF tree[job.file] = Absent THEN @
              ELSE UpsertSource(@, job.file, tree[job.file], "0.1.0")])

Walked ==
  /\ job.stage = "walk" /\ job.todo = {} /\ job.file = None
  /\ Only(IF job.tier2
          THEN [job EXCEPT !.stage = "generate", !.todo = ImportPaths(job.db)]
          ELSE [job EXCEPT !.stage = "seed"])

\* GenerateBatchFromDB: an error of one path is counted, and the next comes.
Generate(p) ==
  /\ job.stage = "generate" /\ p \in job.todo
  /\ LET symbols == SymbolMap(job.db, p)
     IN  \/ \E answer \in Answers :
              LET cs == ParseResponse(p, symbols, answer)
              IN  /\ DOMAIN symbols # {}
                  /\ \E stored \in SUBSET cs :
                       Only([job EXCEPT !.todo = @ \ {p},
                                        !.db = Replace(@, p, stored, clock)])
         \/ Only([job EXCEPT !.todo = @ \ {p}])

\* The confidence gate, then the filter on what the tier wrote.
Gate ==
  /\ job.stage = "generate" /\ job.todo = {}
  /\ Only([job EXCEPT !.stage = "seed",
                      !.db.rows = DeleteSensitive(DeleteLowConfidence(@))])

\* seedSourceFilesForTribal: every candidate gets a row for the ranker, under
\* a version no extractor has.
Seed ==
  /\ job.stage = "seed"
  /\ LET seeded == Present(tree) \ GeneratedNames
     IN  Only([job EXCEPT
           !.stage = "publish",
           !.db.sources =
             IF ~job.tribal THEN @
             ELSE [f \in seeded \cup DOMAIN @ |->
                     IF f \in seeded THEN [hash |-> tree[f], version |-> "tribal-seed"]
                     ELSE @[f]]])

\* os.Rename: what had the old database open works on a file without a name.
Publish ==
  /\ job.stage = "publish"
  /\ published' = [job.db EXCEPT !.done = clock]
  /\ job' = NoJob /\ call' = NoCall /\ index' = NoIndex
  /\ UNCHANGED <<tree, clock, mtime, past, jobs, writes>>

\* An error return removes the temporary file; a crash leaves it unused.
Fail ==
  /\ job.stage \notin {"none", "remote"}
  /\ Only(NoJob)

-----------------------------------------------------------------------------
(* Extraction from Sourcegraph: runExtractSourcegraph.                     *)

Changed(from) == {f \in Files : tree[f] # from[f]}

\* In full, every listed file counts as added; between two revisions, only
\* what changed.  Both fill a new database.
RemoteJob(kind, todo) ==
  [stage |-> "remote", todo |-> todo,
   db |-> [NewDB EXCEPT !.since = clock, !.kind = kind]]

BeginRemote ==
  /\ job.stage = "none" /\ jobs < MaxJobs
  /\ jobs' = jobs + 1
  /\ \/ "remote" \in Modes /\ job' = RemoteJob("remote", Present(tree))
     \/ "incremental" \in Modes
        /\ \E from \in past \ {tree} :
             job' = RemoteJob("incremental", Changed(from))
  /\ UNCHANGED <<tree, clock, mtime, past, published, call, index, writes>>

\* One file of the pipeline: its claims and its entry in one transaction.
RemoteFile(f) ==
  /\ job.stage = "remote" /\ f \in job.todo /\ tree[f] # Absent
  /\ Only([job EXCEPT
       !.todo = @ \ {f},
       !.db = UpsertSource(Insert(@, ExtractFileBytes(f, tree[f]), clock),
                           f, tree[f], "0.1.0")])

\* A deleted file has no row in a new database; an error is collected.
RemoteFileFails(f) ==
  /\ job.stage = "remote" /\ f \in job.todo
  /\ Only([job EXCEPT !.todo = @ \ {f}])

RemoteDone ==
  /\ job.stage = "remote" /\ job.todo = {}
  /\ published' = [job.db EXCEPT !.done = clock]
  /\ job' = NoJob /\ call' = NoCall /\ index' = NoIndex
  /\ UNCHANGED <<tree, clock, mtime, past, jobs, writes>>

-----------------------------------------------------------------------------
(* Writers of an existing database.                                        *)

Existing(db) == /\ published # NoDB /\ published' = db
                /\ UNCHANGED <<tree, clock, mtime, past, job, jobs>>

\* GenerateForPackage: the symbols are read before the model is asked.
Ask(p) ==
  /\ published # NoDB /\ call.stage = "none" /\ writes < MaxWrites
  /\ p \in ImportPaths(published) /\ DOMAIN SymbolMap(published, p) # {}
  /\ call' = [stage |-> "asked", path |-> p, symbols |-> SymbolMap(published, p)]
  /\ writes' = writes + 1
  /\ UNCHANGED <<tree, clock, mtime, past, published, job, jobs, index>>

\* The answer, the reviewer's verdicts, and as much of the store as succeeds.
Answered ==
  /\ call.stage = "asked"
  /\ \E answer \in Answers :
       LET cs == ParseResponse(call.path, call.symbols, answer)
       IN  \E verdict \in [cs -> {"accept", "downgrade", "reject"}] :
             \E stored \in SUBSET Verify(cs, verdict) :
               Existing([Replace(published, call.path, stored, clock)
                           EXCEPT !.enriched = TRUE])
  /\ call' = NoCall
  /\ UNCHANGED <<index, writes>>

\* No answer, or none that parses: nothing was deleted yet.
CallFails ==
  /\ call.stage = "asked"
  /\ call' = NoCall
  /\ UNCHANGED <<tree, clock, mtime, past, published, job, jobs, index, writes>>

\* An index of the tree is handed to ImportReader.
OpenIndex ==
  /\ published # NoDB /\ index.stage = "none" /\ writes < MaxWrites
  /\ index' = [stage |-> "open", tree |-> tree,
               todo |-> GoFiles \cap Present(tree), external |-> External]
  /\ writes' = writes + 1
  /\ UNCHANGED <<tree, clock, mtime, past, published, job, jobs, call>>

ImportDocument(f) ==
  /\ index.stage = "open" /\ f \in index.todo
  /\ Existing([ImportDocumentInto(published, f, index.tree, clock)
                 EXCEPT !.imported = TRUE])
  /\ index' = [index EXCEPT !.todo = @ \ {f}]
  /\ UNCHANGED <<call, writes>>

ImportExternal(e) ==
  /\ index.stage = "open" /\ index.todo = {} /\ e \in index.external
  /\ Existing([Insert(published, ExternalClaims(e), clock)
                 EXCEPT !.imported = TRUE])
  /\ index' = [index EXCEPT !.external = @ \ {e}]
  /\ UNCHANGED <<call, writes>>

\* The end of the index, or of the process.
CloseIndex ==
  /\ index.stage = "open"
  /\ index' = NoIndex
  /\ UNCHANGED <<tree, clock, mtime, past, published, job, jobs, call, writes>>

-----------------------------------------------------------------------------
(* The next-state relation.                                                *)

Local ==
  \/ Begin \/ LoadGo \/ LoadGoFails \/ StoreGo
  \/ \E f \in Others : SkipOther(f) \/ ReadOther(f)
  \/ StoreOther \/ StoreOtherFails \/ HashOther \/ Walked
  \/ job.stage = "generate" /\ \E p \in ImportPaths(job.db) : Generate(p)
  \/ Gate \/ Seed \/ Publish \/ Fail

Remote ==
  \/ BeginRemote \/ RemoteDone
  \/ \E f \in Files : RemoteFile(f) \/ RemoteFileFails(f)

Writers ==
  \/ published # NoDB /\ \E p \in ImportPaths(published) : Ask(p)
  \/ Answered \/ CallFails \/ OpenIndex \/ CloseIndex
  \/ \E f \in GoFiles : ImportDocument(f)
  \/ \E e \in External : ImportExternal(e)

Next ==
  \/ \E f \in Files : \E u \in Contents[f] \cup {Absent} : Edit(f, u)
  \/ Local \/ Remote \/ Writers

Spec == Init /\ [][Next]_vars

-----------------------------------------------------------------------------
(* Properties.                                                             *)

Databases == {published, IF job.stage = "none" THEN NoDB ELSE job.db} \ {NoDB}

\* The state has the shape the code gives it: every row of claims refers to a
\* row of symbols.
TypeOK ==
  /\ clock \in 1 .. MaxEdits + 1
  /\ \A f \in Files : mtime[f] <= clock /\ tree[f] \in Contents[f] \cup {Absent}
  /\ \A db \in Databases :
       /\ IsABag(db.rows) /\ DOMAIN db.sources \subseteq Files
       /\ \A r \in DOMAIN db.rows : r.at <= clock
       /\ {<<r.path, r.name>> : r \in DOMAIN db.rows} \subseteq DOMAIN db.syms

\* What a local extraction is about to publish holds no text that mentions a
\* secret and, from the model, nothing below the confidence threshold, in
\* whatever order its parts wrote it.
Screened ==
  (job.stage = "publish") =>
     \A r \in DOMAIN job.db.rows :
       /\ r.text \notin Sensitive
       /\ r.pred \in SemanticOnly => r.conf >= ConfidenceThreshold

\* The semantic claims of a path all stem from one answer: an answer that is
\* stored halfway never mixes with the one before it.
OneAnswer ==
  \A db \in Databases : \A p \in ImportPaths(db) :
    \E answer \in Answers :
      {r.text : r \in {r \in DOMAIN db.rows :
                         r.path = p /\ r.pred \in SemanticOnly}}
        \subseteq {i.text : i \in answer}

\* A file that the next extraction may take for unchanged has all the claims
\* of one content the file had, not part of them and not those of two.
FastRows(db, f) == {r \in DOMAIN db.rows : r.file = f /\ r.extractor = FastName(f)}
Complete(db, f, u) ==
  \E at \in 1 .. clock :
    {Row(c, at) : c \in IF db.kind \in {"remote", "incremental"}
                        THEN ExtractFileBytes(f, u)
                        ELSE FilterSensitive(Located(TreeSitter(f, u)))}
      = FastRows(db, f)
HitHasClaims ==
  \A db \in Databases : \A f \in DOMAIN db.sources :
    (\E h \in Contents[f] : IsCacheHit(db, f, h)) =>
       \E t \in past : t[f] # Absent /\ Complete(db, f, t[f])

\* Importing an index again replaces what it said about a document: a claim is
\* there as often as one content of the document makes it, not once for each
\* index.
ImportedOnce ==
  published # NoDB =>
    \A r \in DOMAIN published.rows :
      (r.extractor = "scip" /\ r.file \in Files) =>
         \E u \in Contents[r.file] :
           published.rows[r] <= Cardinality({d \in u.decls : d.name = r.name})

\* Whoever stores again takes out what it stored before.
Replaced == OneAnswer /\ ImportedOnce

\* No writer of an existing database loses a structural claim, except the
\* importer: those it made of the same document before.
StructuralKept ==
  [][(published # NoDB /\ published' # NoDB /\ jobs' = jobs /\ job' = job) =>
       \A r \in DOMAIN Structural(published.rows) :
         \/ BagIn(r, published'.rows)
         \/ r.extractor = "scip" /\ index.stage = "open" /\ r.file \in index.todo]_vars

\* An extraction between two revisions keeps the claims of the files that did
\* not change.
IncrementalKeeps ==
  [][(RemoteDone /\ published # NoDB /\ job.db.kind = "incremental") =>
       \A r \in DOMAIN published.rows :
         (r.file \in Files /\ mtime[r.file] <= published.since)
           => \E s \in DOMAIN published'.rows : s.file = r.file]_vars
=============================================================================
