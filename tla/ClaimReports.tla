---------------------------- MODULE ClaimReports ----------------------------
(***************************************************************************)
(* What is read from the claims database: verify-claims, which compares    *)
(* its rows with the source tree, and the renderer, which makes the page   *)
(* of a package.                                                           *)
(***************************************************************************)
EXTENDS ClaimsStore

CONSTANTS
  ReadmeNames,    \* the symbols README files mention
  TestFunctions   \* names that begin with Test, Benchmark or Example

SampleSize == 50

-----------------------------------------------------------------------------
(* verify-claims.                                                          *)

AccusesSameTime(r) ==
  IF r.file \notin Files \/ tree[r.file] = Absent THEN "HIGH"
  ELSE IF mtime[r.file] >= r.at THEN "LOW" ELSE "none"
\* verifyOneClaim: the severity of what is wrong with a row, or "none".
VerifyOne(r) ==
  IF r.file \notin Files \/ tree[r.file] = Absent THEN "HIGH"
  ELSE LET u == tree[r.file]
       IN  CASE r.pred = "defines" /\ r.line > u.lines -> "MEDIUM"
             [] r.pred = "has_signature" /\ u.lines = 0 -> "HIGH"
             [] mtime[r.file] > r.at -> "LOW"
             [] OTHER -> "none"

\* runBasicVerify.
Drifted(db) == {r \in DOMAIN db.rows : VerifyOne(r) # "none"}

\* runStaleness: the file is gone or newer than the row.
Stale(db) ==
  {r \in DOMAIN db.rows : r.file \notin Files \/ tree[r.file] = Absent
                            \/ mtime[r.file] > r.at}

\* Equal rows count each.
RowCount(rows) == SumFunction(rows)

DividesBySampleSize(db, sample) ==
  RowCount(Where(sample, LAMBDA r : VerifyOne(r) # "none")) * 100
    > 2 * SampleSize
\* runCanary on a sample of the rows: more than two percent of it drifted.
CanaryFails(db, sample) ==
  LET size  == RowCount(sample)
      stale == RowCount(Where(sample, LAMBDA r : VerifyOne(r) # "none"))
  IN  size > 0 /\ stale * 100 > 2 * size

Samples(db) ==
  IF RowCount(db.rows) <= SampleSize THEN {db.rows}
  ELSE {b \in SubBag(db.rows) : RowCount(b) = SampleSize}

\* runCheckExisting: a name the database does not know, one whose defining
\* file is gone, and one that several paths have.
Matches(db, n) == {k \in DOMAIN db.syms : k[2] = n}
ReadmeUnknown(db, n) == Matches(db, n) = {}
ReadmeGone(db, n) ==
  \E r \in DOMAIN db.rows :
    /\ r.name = n /\ r.pred = "defines"
    /\ r.file \notin Files \/ tree[r.file] = Absent
ReadmeAmbiguous(db, n) == Cardinality({k[1] : k \in Matches(db, n)}) > 1

-----------------------------------------------------------------------------
(* The page of a package: LoadPackageData.                                 *)

SymbolsOf(db, p) == {k[2] : k \in {k \in DOMAIN db.syms : k[1] = p}}
RowsOf(db, p)    == {r \in DOMAIN db.rows : r.path = p}

\* extractInterfaces: has_kind must say interface.
IsInterface(db, p, n) ==
  \E r \in RowsOf(db, p) :
    r.name = n /\ r.pred = "has_kind" /\ r.text = "interface"

Rendered(db, p, kind) ==
  {n \in SymbolsOf(db, p) : /\ db.syms[<<p, n>>].kind = kind
                            /\ db.syms[<<p, n>>].vis = "public"}

\* extractFunctionCategories and extractTypeCategories.
ExportedFunctions(db, p) == Rendered(db, p, "func") \ TestFunctions
Types(db, p) ==
  {n \in Rendered(db, p, "type") : ~IsInterface(db, p, n)}

AnyText(db, p) ==
  {<<r.name, r.text>> : r \in {r \in RowsOf(db, p) : r.text # Blank}}
\* extractSatisfactions: nothing but an index gives these claims a text.
Satisfactions(db, p) ==
  {<<r.name, r.text>> : r \in {r \in RowsOf(db, p) :
     /\ r.pred = "implements" /\ r.text # Blank
     /\ db.syms[<<p, r.name>>].vis = "public"}}

\* extractForwardDeps and extractReverseDeps: read from texts no extractor
\* writes.
ForwardDeps(db, p) ==
  {r.text : r \in {r \in RowsOf(db, p) : r.pred = "imports" /\ r.text # Blank}}
ReverseDeps(db, p) ==
  {r.text : r \in {r \in RowsOf(db, p) : r.pred = "exports" /\ r.text # Blank}}

\* extractFileMetadata: every file a row names is a source file or a test.
NamedFiles(db, p) == {r.file : r \in RowsOf(db, p)}
IsTestFile(db, p, f) ==
  \/ f \in TestFiles
  \/ \E r \in RowsOf(db, p) :
       r.file = f /\ r.pred = "is_test" /\ r.text = "true"
SourceFiles(db, p) ==
  {f \in NamedFiles(db, p) : ~IsTestFile(db, p, f)}

\* latestSemanticTimestamp.
Enriched(db, p) == \E r \in RowsOf(db, p) : r.pred \in SemanticOnly

-----------------------------------------------------------------------------
(* Properties.                                                             *)

\* A local extraction during which, and since when, nothing was written and
\* no step failed.
Fresh(db) == db.kind = "local" /\ ~db.imported /\ clock = db.since

\* verify-claims accuses no structural claim of a tree that did not change,
\* and accuses every file of the database written after the extraction.
VerifyJudges ==
  published # NoDB =>
    /\ Fresh(published) =>
         \A r \in Drifted(published) : r.pred \in SemanticOnly
    /\ ~published.imported =>
         \A f \in Files :
           (mtime[f] > published.done
              /\ \E r \in DOMAIN published.rows : r.file = f)
             => \E r \in Drifted(published) : r.file = f

\* The canary never passes a database that the full verification fails, as
\* long as it samples every row and there are fewer than fifty.
CanaryAgrees ==
  (published # NoDB /\ RowCount(published.rows) < SampleSize) =>
    \A sample \in Samples(published) :
      CanaryFails(published, sample) <=> Drifted(published) # {}

\* Right after an extraction, check-existing contradicts a README about no symbol
\* a source file declares, and does about a name that the source has nowhere.
DeclaredNames ==
  UNION {{SubjectOf(f, d) : d \in tree[f].decls} : f \in Present(tree)}
OtherNames ==
  Packages(tree) \cup
  UNION {LET u == tree[f]
         IN {f} \cup {ExtractImportPath(f, i) : i \in u.imports} \cup u.comments \cup u.exports
           : f \in Others \cap Present(tree)}
ReadmeJudged ==
  (published # NoDB /\ Fresh(published)) =>
    \A n \in ReadmeNames :
      /\ n \in DeclaredNames => ~ReadmeUnknown(published, n) /\ ~ReadmeGone(published, n)
      /\ n \notin DeclaredNames \cup OtherNames => ReadmeUnknown(published, n)

\* The page of a package lists the exported functions and types of its
\* source, and counts its source files, when the extraction went well.
Exported(p, kinds) ==
  {x.decl.name : x \in {x \in Declared(tree, p) : /\ x.decl.kind \in kinds
                                                 /\ x.decl.public}}
Implementations(p) ==
  {<<c.name, c.object>> : c \in {c \in ImplementsClaims(tree) : c.path = p}}
RenderExact ==
  (published # NoDB /\ Fresh(published)) =>
    \A p \in Packages(tree) :
      /\ ExportedFunctions(published, p) = Exported(p, {"func"}) \ TestFunctions
      /\ Types(published, p) = Exported(p, {"type", "interface"})
      /\ ~Enriched(published, p) =>
           {x.file : x \in Declared(tree, p)} \ TestFiles
             \subseteq SourceFiles(published, p)
      /\ ~Enriched(published, p) =>
           SourceFiles(published, p) \subseteq PackageFiles(tree, p)
      /\ ForwardDeps(published, p) = {} /\ ReverseDeps(published, p) = {}

\* An index never makes the page claim an interface that a type does not
\* satisfy, as long as the source is as it was.
SatisfiesTruly ==
  (published # NoDB /\ clock = published.since) =>
    \A p \in Packages(tree) :
      Satisfactions(published, p) \subseteq Implementations(p)

\* What the reports say of a database is so: verification and its canary, the check
\* of the READMEs, and the page of a package.
ReportsTrue ==
  VerifyJudges /\ CanaryAgrees /\ ReadmeJudged /\ RenderExact /\ SatisfiesTruly
=============================================================================
