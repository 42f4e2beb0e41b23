-------------------------- MODULE ClaimsStoreProofs --------------------------
(***************************************************************************)
(* Theorems about the claims database: what a local extraction publishes   *)
(* was screened, an entry of source_files has all the claims of one        *)
(* content, a second answer or index replaces the first, the writers of a  *)
(* published database lose no structural claim, and what the reports say   *)
(* of a database is so.                                                    *)
(***************************************************************************)
EXTENDS ClaimReports, FiniteSetTheorems, WellFoundedInduction, TLAPS

(* What the extractors claim *)

\* A record of a claim.
IsClaim(c) ==
  c \in [extractor : {c.extractor}, path : {c.path}, name : {c.name}, kind : {c.kind},
         vis : {c.vis}, file : {c.file}, line : {c.line}, scip : {c.scip},
         pred : {c.pred}, text : {c.text}, object : {c.object}, conf : {c.conf}]

\* A structural claim of an extractor about a file.
Made(c, ext, f) ==
  /\ c.extractor = ext /\ c.file = f
  /\ c.pred \notin SemanticOnly /\ c.conf \in Nat

LEMMA ClaimMade ==
  ASSUME NEW ext, NEW p, NEW name, NEW kind, NEW vis, NEW f, NEW line, NEW scip
  PROVE  /\ IsClaim(Claim(ext, p, name, kind, vis, f, line, scip))
         /\ Made(Claim(ext, p, name, kind, vis, f, line, scip), ext, f)
BY DEF Claim, IsClaim, Made, SemanticOnly

LEMMA SaysFields ==
  ASSUME NEW c, IsClaim(c), NEW pred, NEW text
  PROVE  LET d == Says(c, pred, text)
         IN /\ IsClaim(d) /\ d.extractor = c.extractor /\ d.file = c.file
            /\ d.path = c.path /\ d.name = c.name /\ d.conf = c.conf
            /\ d.pred = pred /\ d.text = text
            /\ Names(c, pred, text).extractor = c.extractor
            /\ Names(c, pred, text).file = c.file
            /\ Names(c, pred, text).conf = c.conf
            /\ Names(c, pred, text).pred = pred
            /\ [d EXCEPT !.conf = 85].extractor = c.extractor
            /\ [d EXCEPT !.conf = 85].file = c.file
            /\ [d EXCEPT !.conf = 85].pred = pred
            /\ [d EXCEPT !.conf = 85].conf = 85
<1> DEFINE d == Says(c, pred, text)
<1>1. /\ IsClaim(d) /\ d.extractor = c.extractor /\ d.file = c.file
      /\ d.path = c.path /\ d.name = c.name /\ d.conf = c.conf
      /\ d.pred = pred /\ d.text = text
  BY DEF Says, IsClaim
<1>2. /\ Names(c, pred, text).extractor = c.extractor
      /\ Names(c, pred, text).file = c.file
      /\ Names(c, pred, text).conf = c.conf
      /\ Names(c, pred, text).pred = pred
  BY DEF Names, IsClaim
<1> HIDE DEF d
<1>3. /\ [d EXCEPT !.conf = 85].extractor = d.extractor
      /\ [d EXCEPT !.conf = 85].file = d.file
      /\ [d EXCEPT !.conf = 85].pred = d.pred
      /\ [d EXCEPT !.conf = 85].conf = 85
  BY <1>1 DEF IsClaim
<1> QED BY <1>1, <1>2, <1>3 DEF d

LEMMA ObjectMade ==
  ASSUME NEW p, NEW f, NEW u, NEW d, NEW c \in ObjectClaims(p, f, u, d)
  PROVE  Made(c, "go-deep", f)
<1> DEFINE kind == ObjectKind(d)
           base == Claim("go-deep", p, d.name, kind, GoVisibility(d), f, d.line,
                         FormatGoSymbol(p, Blank, d.name, kind))
           package == Claim("go-deep", p, p, "module", "public", f, d.line, NoScip)
<1>1. \/ c = base \/ c = Names(package, "encloses", d.name)
      \/ \E pred \in {"has_kind", "has_signature", "exports", "is_test", "is_generated"} :
           \E text : c = Says(base, pred, text)
      \/ c = [Says(base, "has_doc", d.doc) EXCEPT !.conf = 85]
  BY DEF ObjectClaims, If
<1>2. IsClaim(base) /\ Made(base, "go-deep", f) /\ IsClaim(package) /\ Made(package, "go-deep", f)
  BY ClaimMade
<1> HIDE DEF kind, base, package
<1>3. \A pred \in {"has_kind", "has_signature", "exports", "is_test", "is_generated",
                 "has_doc", "encloses"} : pred \notin SemanticOnly
  BY DEF SemanticOnly
<1>4. ASSUME NEW pred, pred \notin SemanticOnly, NEW text
      PROVE  Made(Says(base, pred, text), "go-deep", f)
  BY <1>2, <1>4, SaysFields DEF Made
<1>5. /\ Made(Names(package, "encloses", d.name), "go-deep", f)
      /\ Made([Says(base, "has_doc", d.doc) EXCEPT !.conf = 85], "go-deep", f)
  BY <1>2, <1>3, SaysFields DEF Made
<1> QED BY <1>1, <1>2, <1>3, <1>4, <1>5

LEMMA MethodMade ==
  ASSUME NEW p, NEW f, NEW d, NEW c \in MethodClaims(p, f, d)
  PROVE  Made(c, "go-deep", f)
<1> DEFINE base == Claim("go-deep", p, Qualified(d.owner, d.name), "method",
                         GoVisibility(d), f, d.line,
                         FormatGoSymbol(p, d.owner, d.name, "method"))
<1>1. \/ c = base
      \/ \E pred \in {"has_kind", "has_signature", "exports"} :
           \E text : c = Says(base, pred, text)
      \/ c = [Says(base, "has_doc", d.doc) EXCEPT !.conf = 85]
  BY DEF MethodClaims, If
<1>2. IsClaim(base) /\ Made(base, "go-deep", f)
  BY ClaimMade
<1> HIDE DEF base
<1>3. \A pred \in {"has_kind", "has_signature", "exports", "has_doc"} : pred \notin SemanticOnly
  BY DEF SemanticOnly
<1>4. ASSUME NEW pred, pred \notin SemanticOnly, NEW text
      PROVE  Made(Says(base, pred, text), "go-deep", f)
  BY <1>2, <1>4, SaysFields DEF Made
<1>5. Made([Says(base, "has_doc", d.doc) EXCEPT !.conf = 85], "go-deep", f)
  BY <1>2, <1>3, SaysFields DEF Made
<1> QED BY <1>1, <1>2, <1>3, <1>4, <1>5

\* Every claim of the Go extractor is about a Go file.
LEMMA GoDeepMade ==
  ASSUME NEW t, NEW c \in GoDeep(t)
  PROVE  \E f \in GoFiles : Made(c, "go-deep", f)
<1>1. ASSUME NEW p \in Packages(t), c \in PackageClaims(t, p)
      PROVE  \E f \in GoFiles : Made(c, "go-deep", f)
  <2> DEFINE fs == PackageFiles(t, p)
             module == Claim("go-deep", p, p, "module", "public", FirstFile(fs), 0, NoScip)
  <2>1. fs \subseteq GoFiles /\ FirstFile(fs) \in GoFiles
    BY <1>1 DEF Packages, PackageFiles, FirstFile
  <2>2. \/ \E f \in fs : \E d \in t[f].decls :
             c \in MethodClaims(p, f, d) \/ c \in ObjectClaims(p, f, t[f], d)
        \/ \E i : c = Names(module, "imports", i)
    <3>1. \/ c \in UNION {UNION {IF d.kind = "method" THEN MethodClaims(p, f, d)
                                ELSE ObjectClaims(p, f, t[f], d) : d \in t[f].decls} : f \in fs}
          \/ c \in {Names(module, "imports", i)
                    : i \in UNION {UNION {d.paths : d \in t[f].imports} : f \in fs}}
      BY <1>1 DEF PackageClaims
    <3>2. ASSUME NEW f \in fs,
                 c \in UNION {IF d.kind = "method" THEN MethodClaims(p, f, d)
                             ELSE ObjectClaims(p, f, t[f], d) : d \in t[f].decls}
          PROVE  \E d \in t[f].decls :
                   c \in MethodClaims(p, f, d) \/ c \in ObjectClaims(p, f, t[f], d)
      BY <3>2
    <3> QED BY <3>1, <3>2
  <2>3. IsClaim(module) /\ Made(module, "go-deep", FirstFile(fs))
    BY ClaimMade
  <2> HIDE DEF fs, module
  <2>4. "imports" \notin SemanticOnly
    BY DEF SemanticOnly
  <2>5. ASSUME NEW i PROVE Made(Names(module, "imports", i), "go-deep", FirstFile(fs))
    BY <2>3, <2>4, SaysFields DEF Made
  <2>6. ASSUME NEW i, c = Names(module, "imports", i)
        PROVE  \E f \in GoFiles : Made(c, "go-deep", f)
    BY <2>1, <2>5, <2>6
  <2>7. ASSUME NEW f \in fs, NEW d \in t[f].decls,
               c \in MethodClaims(p, f, d) \/ c \in ObjectClaims(p, f, t[f], d)
        PROVE  \E g \in GoFiles : Made(c, "go-deep", g)
    BY <2>1, <2>7, MethodMade, ObjectMade
  <2> QED BY <2>2, <2>6, <2>7
<1>2. ASSUME c \in ImplementsClaims(t)
      PROVE  \E f \in GoFiles : Made(c, "go-deep", f)
  <2>1. PICK p, q : c \in Between(t, p, q)
    BY <1>2 DEF ImplementsClaims, Pairs
  <2>2. PICK x \in OfKind(t, p, "type"), i \in OfKind(t, q, "interface") :
          c = Implements(p, x, q, i)
    BY <2>1 DEF Between
  <2>3. x.file \in GoFiles
    BY DEF OfKind, Declared, PackageFiles
  <2> DEFINE base == Claim("go-deep", p, x.decl.name, "type", GoVisibility(x.decl), x.file,
                           x.decl.line, FormatGoSymbol(p, Blank, x.decl.name, "type"))
  <2>4. IsClaim(base) /\ Made(base, "go-deep", x.file)
    BY ClaimMade
  <2>5. c = Names(base, "implements", Qualified(q, i.decl.name))
    BY <2>2 DEF Implements
  <2> HIDE DEF base
  <2>6. "implements" \notin SemanticOnly
    BY DEF SemanticOnly
  <2>7. Made(c, "go-deep", x.file)
    BY <2>4, <2>5, <2>6, SaysFields DEF Made
  <2> QED BY <2>3, <2>7
<1>3. c \in UNION {PackageClaims(t, p) : p \in Packages(t)} \/ c \in ImplementsClaims(t)
  BY DEF GoDeep
<1> QED BY <1>1, <1>2, <1>3

LEMMA TreeSitterMade ==
  ASSUME NEW f, NEW u, NEW c \in TreeSitter(f, u)
  PROVE  IsClaim(c) /\ Made(c, FastName(f), f)
<1> DEFINE module == Claim(FastName(f), Blank, f, "module", "public", f, 0, NoScip)
<1>1. \/ \E pred \in {"defines", "imports", "has_doc", "exports"} : \E x : c = BuildClaim(f, pred, x)
      \/ \E pred \in {"is_test", "is_generated"} : c = Says(module, pred, Blank)
  <2>1. DOMAIN Nodes(f, u) = {"defines", "imports", "has_doc", "exports"}
    BY DEF Nodes
  <2>2. \/ \E pred \in DOMAIN Nodes(f, u) : c \in {BuildClaim(f, pred, x) : x \in Nodes(f, u)[pred]}
        \/ \E pred \in {"is_test", "is_generated"} : c = Says(module, pred, Blank)
    BY DEF TreeSitter, If
  <2> QED BY <2>1, <2>2
<1>2. IsClaim(module) /\ Made(module, FastName(f), f)
  BY ClaimMade
<1> HIDE DEF module
<1>3. \A pred \in {"defines", "imports", "has_doc", "exports", "is_test", "is_generated"} :
        pred \notin SemanticOnly
  BY DEF SemanticOnly
<1>4. ASSUME NEW pred \in {"defines", "imports", "has_doc", "exports"}, NEW x
      PROVE  IsClaim(BuildClaim(f, pred, x)) /\ Made(BuildClaim(f, pred, x), FastName(f), f)
  <2>1. ASSUME NEW name, NEW kind, NEW vis, NEW line, NEW object, NEW text
        PROVE  LET d == [Claim(FastName(f), Blank, name, kind, vis, f, line, NoScip)
                           EXCEPT !.pred = pred, !.object = object, !.text = text]
               IN  IsClaim(d) /\ Made(d, FastName(f), f)
    BY <1>3 DEF IsClaim, Made, Claim
  <2> QED BY <2>1 DEF BuildClaim
<1>5. ASSUME NEW pred, pred \notin SemanticOnly, NEW text
      PROVE  IsClaim(Says(module, pred, text)) /\ Made(Says(module, pred, text), FastName(f), f)
  BY <1>2, <1>5, SaysFields DEF Made
<1> QED BY <1>1, <1>3, <1>4, <1>5

LEMMA LocatedMade ==
  ASSUME NEW f, NEW u, NEW c \in Located(TreeSitter(f, u))
  PROVE  Made(c, FastName(f), f)
<1>1. PICK d \in TreeSitter(f, u) : c = IF d.path = Blank THEN [d EXCEPT !.path = d.file] ELSE d
  BY DEF Located
<1>2. IsClaim(d) /\ Made(d, FastName(f), f)
  BY TreeSitterMade
<1>3. Made([d EXCEPT !.path = d.file], FastName(f), f)
  BY <1>2 DEF IsClaim, Made
<1> QED BY <1>1, <1>2, <1>3

\* What the fast extractor stores of a content, by the kind of extraction.
Stored(kind, f, u) ==
  IF kind \in {"remote", "incremental"} THEN ExtractFileBytes(f, u)
  ELSE FilterSensitive(Located(TreeSitter(f, u)))

LEMMA StoredMade ==
  ASSUME NEW kind, NEW f, NEW u, NEW c \in Stored(kind, f, u)
  PROVE  Made(c, FastName(f), f)
BY LocatedMade DEF Stored, ExtractFileBytes, FilterSensitive
-----------------------------------------------------------------------------
(* Databases *)

IsDB(db) ==
  db \in [syms : {db.syms}, rows : {db.rows}, sources : {db.sources}, since : {db.since},
          done : {db.done}, kind : {db.kind}, imported : {db.imported},
          enriched : {db.enriched}]

LEMMA InsertFields ==
  ASSUME NEW db, IsDB(db), NEW cs, NEW at
  PROVE  LET new == Insert(db, cs, at)
         IN /\ IsDB(new) /\ new.kind = db.kind /\ new.sources = db.sources
            /\ new.rows = InsertClaims(db.rows, cs, at)
            /\ DOMAIN new.rows = DOMAIN db.rows \cup {Row(c, at) : c \in cs}
<1>1. DOMAIN InsertClaims(db.rows, cs, at) = DOMAIN db.rows \cup {Row(c, at) : c \in cs}
  BY DEF InsertClaims, (+)
<1> QED BY <1>1 DEF IsDB, Insert

LEMMA RowsFields ==
  ASSUME NEW db, IsDB(db), NEW rows
  PROVE  LET new == [db EXCEPT !.rows = rows]
         IN /\ IsDB(new) /\ new.kind = db.kind /\ new.sources = db.sources
            /\ new.rows = rows
BY DEF IsDB

LEMMA SourceFields ==
  ASSUME NEW db, IsDB(db), NEW f, NEW hash, NEW version
  PROVE  LET new == UpsertSource(db, f, hash, version)
         IN /\ IsDB(new) /\ new.kind = db.kind /\ new.rows = db.rows
            /\ DOMAIN new.sources = DOMAIN db.sources \cup {f}
            /\ new.sources[f].hash = hash
            /\ \A g \in DOMAIN db.sources : g # f => new.sources[g] = db.sources[g]
BY DEF IsDB, UpsertSource

LEMMA KindFields ==
  ASSUME NEW db, IsDB(db), NEW kind
  PROVE  LET new == [db EXCEPT !.kind = kind]
         IN /\ IsDB(new) /\ new.kind = kind /\ new.sources = db.sources
            /\ new.rows = db.rows
BY DEF IsDB

LEMMA ReplaceFields ==
  ASSUME NEW db, IsDB(db), NEW p, NEW stored, NEW at
  PROVE  LET new == Replace(db, p, stored, at)
         IN /\ IsDB(new) /\ new.kind = db.kind /\ new.sources = db.sources
            /\ new.rows = InsertClaims(
                 DeleteByExtractorAndImportPath(db.rows, "llm-semantic", p), stored, at)
            /\ DOMAIN new.rows =
                 {r \in DOMAIN db.rows :
                    ~(r.extractor = "llm-semantic" /\ r.pred \in SemanticOnly /\ r.path = p)}
                 \cup {Row(c, at) : c \in stored}
<1> DEFINE rest == DeleteByExtractorAndImportPath(db.rows, "llm-semantic", p)
           less == [db EXCEPT !.rows = rest]
<1>1. DOMAIN rest = {r \in DOMAIN db.rows :
          ~(r.extractor = "llm-semantic" /\ r.pred \in SemanticOnly /\ r.path = p)}
  BY DEF DeleteByExtractorAndImportPath, Where, Restrict
<1>2. Replace(db, p, stored, at) = Insert(less, stored, at)
  BY DEF Replace
<1> HIDE DEF rest
<1>3. /\ IsDB(less) /\ less.kind = db.kind /\ less.sources = db.sources /\ less.rows = rest
  BY RowsFields
<1> HIDE DEF less
<1> QED BY <1>1, <1>2, <1>3, InsertFields DEF rest

LEMMA RowFields ==
  ASSUME NEW c, NEW at
  PROVE  LET r == Row(c, at)
         IN /\ r.path = c.path /\ r.name = c.name /\ r.pred = c.pred /\ r.text = c.text
            /\ r.file = c.file /\ r.conf = c.conf /\ r.extractor = c.extractor
BY DEF Row

\* The semantic claims are the generator's, and those of a path of one answer.
FromAnswers(db) ==
  /\ \A r \in DOMAIN db.rows : r.pred \in SemanticOnly => r.extractor = "llm-semantic"
  /\ \A p : \E answer \in Answers : \A r \in DOMAIN db.rows :
       r.path = p /\ r.pred \in SemanticOnly => \E i \in answer : i.text = r.text

\* An entry another extraction may hit.
Marked(e) == e.version = "0.1.0" /\ e.hash # None

\* A file has all the claims of one content it had.
FullAt(db, f, trees, now) ==
  \E t \in trees : /\ t[f] # Absent
                   /\ \E at \in 1 .. now :
                        FastRows(db, f) = {Row(c, at) : c \in Stored(db.kind, f, t[f])}

Hits(db, trees, now) ==
  \A f \in DOMAIN db.sources :
    f \in Files /\ (Marked(db.sources[f]) => FullAt(db, f, trees, now))

\* Nothing was stored of a file yet.
Untouched(db, f) == FastRows(db, f) = {} /\ f \notin DOMAIN db.sources

Sound(db, trees, now) == IsDB(db) /\ FromAnswers(db) /\ Hits(db, trees, now)

LEMMA AnswersKept ==
  ASSUME NEW db, NEW new, FromAnswers(db),
         \A r \in DOMAIN new.rows : r.pred \in SemanticOnly => r \in DOMAIN db.rows
  PROVE  FromAnswers(new)
BY DEF FromAnswers

LEMMA HitsKept ==
  ASSUME NEW db, NEW new, NEW trees, NEW now \in Nat, NEW more, NEW later \in Nat,
         Hits(db, trees, now), new.kind = db.kind, trees \subseteq more, now <= later,
         \A f \in DOMAIN new.sources : f \in Files,
         \A f \in DOMAIN new.sources :
           Marked(new.sources[f]) =>
             \/ FullAt(new, f, more, later)
             \/ /\ f \in DOMAIN db.sources /\ Marked(db.sources[f])
                /\ FastRows(new, f) = FastRows(db, f)
  PROVE  Hits(new, more, later)
<1> SUFFICES ASSUME NEW f \in DOMAIN new.sources, Marked(new.sources[f]),
                    f \in DOMAIN db.sources, FullAt(db, f, trees, now),
                    FastRows(new, f) = FastRows(db, f)
             PROVE  FullAt(new, f, more, later)
  BY DEF Hits
<1>1. 1 .. now \subseteq 1 .. later
  OBVIOUS
<1> QED BY <1>1 DEF FullAt

LEMMA SoundLater ==
  ASSUME NEW db, NEW trees, NEW now \in Nat, NEW more, NEW later \in Nat,
         Sound(db, trees, now), trees \subseteq more, now <= later
  PROVE  Sound(db, more, later)
BY HitsKept DEF Sound, Hits

LEMMA FullLater ==
  ASSUME NEW db, NEW f, NEW trees, NEW now \in Nat, NEW more, NEW later \in Nat,
         FullAt(db, f, trees, now), trees \subseteq more, now <= later
  PROVE  FullAt(db, f, more, later)
<1>1. 1 .. now \subseteq 1 .. later
  OBVIOUS
<1> QED BY <1>1 DEF FullAt

\* The rows of a file that its own extractor did not write.
LEMMA FastApart ==
  ASSUME NEW db, NEW new, NEW f, NEW cs, NEW at,
         DOMAIN new.rows = DOMAIN db.rows \cup {Row(c, at) : c \in cs},
         \A c \in cs : ~(c.extractor = FastName(f) /\ c.file = f)
  PROVE  FastRows(new, f) = FastRows(db, f)
BY RowFields DEF FastRows

-----------------------------------------------------------------------------
(* The generator's answers *)

LEMMA ParseMade ==
  ASSUME NEW p, NEW symbols, NEW answer, NEW c \in ParseResponse(p, symbols, answer)
  PROVE  /\ IsClaim(c) /\ c.extractor = "llm-semantic" /\ c.path = p /\ c.conf \in Nat
         /\ \E i \in answer : i.text = c.text
<1> PICK i \in answer :
      c = [Claim("llm-semantic", p, i.name, symbols[i.name].kind, symbols[i.name].vis,
                 "llm-semantic", 0, NoScip)
             EXCEPT !.pred = i.pred, !.text = i.text, !.conf = ConfidenceOf(i.pred)]
  BY DEF ParseResponse
<1> DEFINE base == Claim("llm-semantic", p, i.name, symbols[i.name].kind,
                         symbols[i.name].vis, "llm-semantic", 0, NoScip)
<1>1. IsClaim(base) /\ base.extractor = "llm-semantic" /\ base.path = p
  BY DEF Claim, IsClaim
<1>2. c = [base EXCEPT !.pred = i.pred, !.text = i.text, !.conf = ConfidenceOf(i.pred)]
  OBVIOUS
<1>3. ConfidenceOf(i.pred) \in Nat
  BY DEF ConfidenceOf
<1> HIDE DEF base
<1> QED BY <1>1, <1>2, <1>3 DEF IsClaim

LEMMA VerifyMade ==
  ASSUME NEW p, NEW symbols, NEW answer, NEW verdict,
         NEW c \in Verify(ParseResponse(p, symbols, answer), verdict)
  PROVE  /\ c.extractor = "llm-semantic" /\ c.path = p
         /\ \E i \in answer : i.text = c.text
<1>1. PICK d \in ParseResponse(p, symbols, answer) :
        \E conf : c = [d EXCEPT !.conf = conf]
  BY DEF Verify
<1>2. /\ IsClaim(d) /\ d.extractor = "llm-semantic" /\ d.path = p
      /\ \E i \in answer : i.text = d.text
  BY ParseMade
<1> QED BY <1>1, <1>2 DEF IsClaim

\* An answer takes the place of the one before it, and of nothing else.
LEMMA ReplaceSound ==
  ASSUME NEW db, NEW trees, NEW now \in Nat, Sound(db, trees, now),
         NEW p, NEW answer \in Answers, NEW stored, NEW at,
         \A c \in stored : /\ c.extractor = "llm-semantic" /\ c.path = p
                           /\ \E i \in answer : i.text = c.text
  PROVE  Sound(Replace(db, p, stored, at), trees, now)
<1> DEFINE new == Replace(db, p, stored, at)
           left == {r \in DOMAIN db.rows :
                      ~(r.extractor = "llm-semantic" /\ r.pred \in SemanticOnly /\ r.path = p)}
<1>1. /\ IsDB(new) /\ new.kind = db.kind /\ new.sources = db.sources
      /\ DOMAIN new.rows = left \cup {Row(c, at) : c \in stored}
  BY ReplaceFields DEF Sound
<1> HIDE DEF new
<1>2. \A r \in DOMAIN new.rows :
        \/ r \in left
        \/ /\ r.extractor = "llm-semantic" /\ r.path = p
           /\ \E i \in answer : i.text = r.text
  BY <1>1, RowFields
<1>3. FromAnswers(new)
  <2>1. \A r \in DOMAIN new.rows : r.pred \in SemanticOnly => r.extractor = "llm-semantic"
    BY <1>2 DEF Sound, FromAnswers
  <2>2. ASSUME NEW q
        PROVE  \E a \in Answers : \A r \in DOMAIN new.rows :
                 r.path = q /\ r.pred \in SemanticOnly => \E i \in a : i.text = r.text
    <3>1. CASE q = p
      <4>1. \A r \in left : r.path = p => r.pred \notin SemanticOnly
        BY DEF Sound, FromAnswers
      <4> QED BY <1>2, <3>1, <4>1
    <3>2. CASE q # p
      <4>1. PICK a \in Answers : \A r \in DOMAIN db.rows :
              r.path = q /\ r.pred \in SemanticOnly => \E i \in a : i.text = r.text
        BY DEF Sound, FromAnswers
      <4> QED BY <1>2, <3>2, <4>1
    <3> QED BY <3>1, <3>2
  <2> QED BY <2>1, <2>2 DEF FromAnswers
<1>4. \A f \in Files : FastRows(new, f) = FastRows(db, f)
  <2> SUFFICES ASSUME NEW f \in Files, NEW r
               PROVE  r \in FastRows(new, f) <=> r \in FastRows(db, f)
    BY DEF FastRows
  <2>1. FastName(f) # "llm-semantic"
    BY ExtractorsAssumption
  <2> QED BY <1>1, <1>2, <2>1 DEF FastRows
<1>5. Hits(new, trees, now)
  <2>1. Hits(db, trees, now)
    BY DEF Sound
  <2>2. \A f \in DOMAIN new.sources : f \in Files /\ FastRows(new, f) = FastRows(db, f)
    BY <1>1, <1>4, <2>1 DEF Hits
  <2> QED BY <1>1, <2>1, <2>2, HitsKept
<1> QED BY <1>1, <1>3, <1>5 DEF Sound, new
-----------------------------------------------------------------------------
(* Documents of an index *)

\* The claims about a declaration are variants of one.
BaseOf(f, d) ==
  LET scip == FormatGoSymbol(Package[f], d.owner, d.name, ObjectKind(d))
  IN  Claim("scip", Decompose(scip).path, Decompose(scip).name, MapSCIPKind(d),
            GoVisibility(d), f, 0, scip)
Variant(c, pred, text, conf) == [c EXCEPT !.pred = pred, !.text = text, !.conf = conf]

LEMMA SymbolName ==
  ASSUME NEW p, NEW owner, NEW name, NEW kind
  PROVE  Decompose(FormatGoSymbol(p, owner, name, kind)).name = name
<1> DEFINE E == {[suffix |-> "namespace", name |-> p], [suffix |-> "type", name |-> owner],
                 [suffix |-> Suffix(kind), name |-> name]}
           front == <<[suffix |-> "namespace", name |-> p]>>
                      \o (IF owner = Blank THEN <<>> ELSE <<[suffix |-> "type", name |-> owner]>>)
           last == [suffix |-> Suffix(kind), name |-> name]
<1>1. FormatGoSymbol(p, owner, name, kind) = front \o <<last>>
  BY DEF FormatGoSymbol
<1>2. front \in Seq(E) /\ last \in E
  <2> DEFINE first == [suffix |-> "namespace", name |-> p]
             of == [suffix |-> "type", name |-> owner]
  <2>1. first \in E /\ of \in E /\ last \in E
    OBVIOUS
  <2>2. front = IF owner = Blank THEN <<first>> \o <<>> ELSE <<first>> \o <<of>>
    OBVIOUS
  <2> HIDE DEF E, first, of, front
  <2>3. <<first>> \o <<>> \in Seq(E) /\ <<first>> \o <<of>> \in Seq(E)
    BY <2>1
  <2> QED BY <2>1, <2>2, <2>3
<1>3. last.name = name
  OBVIOUS
<1> HIDE DEF E, front, last
<1>4. front \o <<last>> \in Seq(E) /\ Len(front \o <<last>>) = Len(front) + 1
      /\ (front \o <<last>>)[Len(front) + 1] = last
  BY <1>2
<1> QED BY <1>1, <1>3, <1>4 DEF Decompose

LEMMA DocumentVariants ==
  ASSUME NEW t, NEW f, NEW c \in DocumentClaims(t, f)
  PROVE  /\ Made(c, "scip", f)
         /\ \E d \in t[f].decls :
              c.name = d.name /\ c = Variant(BaseOf(f, d), c.pred, c.text, c.conf)
<1>1. PICK d \in t[f].decls :
        \/ c = BaseOf(f, d) \/ c = Says(BaseOf(f, d), "has_kind", MapSCIPKind(d))
        \/ c = [Says(BaseOf(f, d), "has_doc", d.doc) EXCEPT !.conf = 85]
        \/ \E text : c = Says(BaseOf(f, d), "implements", text)
  BY DEF DocumentClaims, BaseOf, If
<1> DEFINE base == BaseOf(f, d)
<1>2. /\ IsClaim(base) /\ Made(base, "scip", f) /\ base.name = d.name
      /\ base.pred = "defines" /\ base.text = Blank
  <2> DEFINE scip == FormatGoSymbol(Package[f], d.owner, d.name, ObjectKind(d))
  <2>1. Decompose(scip).name = d.name
    BY SymbolName
  <2> HIDE DEF scip
  <2>2. base = Claim("scip", Decompose(scip).path, Decompose(scip).name, MapSCIPKind(d),
                     GoVisibility(d), f, 0, scip)
    BY DEF BaseOf, scip
  <2> DEFINE to == Decompose(scip)
             kind == MapSCIPKind(d)
             vis == GoVisibility(d)
  <2> HIDE DEF to, kind, vis
  <2> DEFINE b == Claim("scip", to.path, to.name, kind, vis, f, 0, scip)
  <2>3. IsClaim(b) /\ Made(b, "scip", f)
    BY ClaimMade
  <2>4. b.name = to.name /\ b.pred = "defines" /\ b.text = Blank
    BY DEF Claim
  <2> QED BY <2>1, <2>2, <2>3, <2>4 DEF to, kind, vis
<1>3. \A pred \in {"has_kind", "has_doc", "implements"} : pred \notin SemanticOnly
  BY DEF SemanticOnly
<1> HIDE DEF base
<1>4. base = Variant(base, base.pred, base.text, base.conf)
  BY <1>2 DEF IsClaim, Variant
<1>5. ASSUME NEW pred, NEW text, NEW conf \in Nat, pred \notin SemanticOnly
      PROVE  LET v == Variant(base, pred, text, conf)
             IN /\ Made(v, "scip", f) /\ v.name = d.name
                /\ v.pred = pred /\ v.text = text /\ v.conf = conf
  BY <1>2, <1>5 DEF IsClaim, Variant, Made
<1>6. ASSUME NEW pred, NEW text
      PROVE  /\ Says(base, pred, text) = Variant(base, pred, text, base.conf)
             /\ [Says(base, pred, text) EXCEPT !.conf = 85] = Variant(base, pred, text, 85)
  BY <1>2 DEF IsClaim, Variant, Says
<1>7. base.conf \in Nat
  BY <1>2 DEF Made
<1>8. PICK pred, text, conf :
        /\ conf \in Nat /\ pred \notin SemanticOnly /\ c = Variant(base, pred, text, conf)
  <2>1. CASE c = base
    BY <2>1, <1>2, <1>4, <1>7 DEF Made
  <2>2. CASE c = Says(base, "has_kind", MapSCIPKind(d))
    BY <2>2, <1>3, <1>6, <1>7
  <2>3. CASE c = [Says(base, "has_doc", d.doc) EXCEPT !.conf = 85]
    BY <2>3, <1>3, <1>6
  <2>4. CASE \E text : c = Says(base, "implements", text)
    BY <2>4, <1>3, <1>6, <1>7
  <2> QED BY <1>1, <2>1, <2>2, <2>3, <2>4 DEF base
<1>9. /\ Made(c, "scip", f) /\ c.name = d.name
      /\ c.pred = pred /\ c.text = text /\ c.conf = conf
  BY <1>5, <1>8
<1> QED BY <1>8, <1>9 DEF base

Copies(cs, at, r) == Cardinality({c \in cs : Row(c, at) = r})
Homonyms(u, r) == Cardinality({d \in u.decls : d.name = r.name})

\* A document never gives one row more often than it declares its name.
LEMMA DocumentCounts ==
  ASSUME NEW t, NEW f, IsFiniteSet(t[f].decls), NEW r, NEW at
  PROVE  /\ Copies(DocumentClaims(t, f), at, r) \in Nat
         /\ Copies(DocumentClaims(t, f), at, r) <= Homonyms(t[f], r)
<1> DEFINE same == {c \in DocumentClaims(t, f) : Row(c, at) = r}
           named == {d \in t[f].decls : d.name = r.name}
           Of(c, d) == c = Variant(BaseOf(f, d), r.pred, r.text, r.conf)
           from == [c \in same |-> CHOOSE d \in named : Of(c, d)]
<1>1. ASSUME NEW c \in same PROVE \E d \in named : Of(c, d)
  <2>1. c.name = r.name /\ c.pred = r.pred /\ c.text = r.text /\ c.conf = r.conf
    BY RowFields
  <2> QED BY <2>1, DocumentVariants
<1>2. ASSUME NEW c \in same PROVE from[c] \in named /\ Of(c, from[c])
  BY <1>1
<1>3. from \in Injection(same, named)
  BY <1>2 DEF Injection, IsInjective
<1>4. IsFiniteSet(named)
  BY FS_Subset
<1>5. IsFiniteSet(same) /\ Cardinality(same) <= Cardinality(named)
  BY <1>3, <1>4, FS_Injection
<1> QED BY <1>5, FS_CardinalityType DEF Copies, Homonyms

-----------------------------------------------------------------------------
(* The importer *)

\* A claim of an index is there no more often than a content of its document
\* declares its name.
ScipOnce(db) ==
  \A r \in DOMAIN db.rows :
    (r.extractor = "scip" /\ r.file \in Files) =>
       \E u \in Contents[r.file] :
         db.rows[r] \in Nat /\ db.rows[r] <= Homonyms(u, r)

LEMMA AlikeSound ==
  ASSUME NEW db, NEW new, NEW trees, NEW now, IsDB(new), new.rows = db.rows,
         new.sources = db.sources, new.kind = db.kind
  PROVE  /\ Sound(db, trees, now) => Sound(new, trees, now)
         /\ ScipOnce(db) => ScipOnce(new)
BY DEF Sound, FromAnswers, Hits, FullAt, FastRows, ScipOnce

LEMMA OnceKept ==
  ASSUME NEW db, NEW new, NEW rest, ScipOnce(db),
         NEW cs, NEW at, new.rows = InsertClaims(rest, cs, at),
         \A r \in DOMAIN rest : r \in DOMAIN db.rows /\ rest[r] = db.rows[r],
         NEW f \in Files, \A r \in DOMAIN rest : ~(r.extractor = "scip" /\ r.file = f),
         \A c \in cs : (c.extractor = "scip" /\ c.file \in Files) => c.file = f,
         NEW u \in Contents[f],
         \A r : Copies(cs, at, r) \in Nat /\ Copies(cs, at, r) <= Homonyms(u, r)
  PROVE  ScipOnce(new)
<1> SUFFICES ASSUME NEW r \in DOMAIN new.rows, r.extractor = "scip", r.file \in Files
             PROVE  \E v \in Contents[r.file] :
                      new.rows[r] \in Nat /\ new.rows[r] <= Homonyms(v, r)
  BY DEF ScipOnce
<1> DEFINE added == {Row(c, at) : c \in cs}
<1>1. /\ DOMAIN new.rows = DOMAIN rest \cup added
      /\ new.rows[r] = (IF r \in DOMAIN rest THEN rest[r] ELSE 0)
                        + (IF r \in added THEN Copies(cs, at, r) ELSE 0)
  BY DEF InsertClaims, (+), Copies
<1>2. r \in added => r.file = f
  BY RowFields
<1>3. CASE r.file = f
  <2>1. r \notin DOMAIN rest /\ r \in added
    BY <1>1, <1>3
  <2>2. new.rows[r] = Copies(cs, at, r)
    BY <1>1, <2>1
  <2> QED BY <1>3, <2>2
<1>4. CASE r.file # f
  <2>1. r \notin added /\ r \in DOMAIN rest
    BY <1>1, <1>2, <1>4
  <2>2. PICK v \in Contents[r.file] : rest[r] \in Nat /\ rest[r] <= Homonyms(v, r)
    BY <2>1 DEF ScipOnce
  <2>3. new.rows[r] = rest[r]
    BY <1>1, <2>1, <2>2
  <2> QED BY <2>2, <2>3
<1> QED BY <1>3, <1>4

LEMMA ReplaceOnce ==
  ASSUME NEW db, IsDB(db), ScipOnce(db), NEW p, NEW stored, NEW at,
         \A c \in stored : c.extractor = "llm-semantic"
  PROVE  ScipOnce(Replace(db, p, stored, at))
<1> DEFINE rest == DeleteByExtractorAndImportPath(db.rows, "llm-semantic", p)
           new == Replace(db, p, stored, at)
<1>1. \A r \in DOMAIN rest : r \in DOMAIN db.rows /\ rest[r] = db.rows[r]
  BY DEF DeleteByExtractorAndImportPath, Where, Restrict
<1>2. new.rows = InsertClaims(rest, stored, at)
  BY ReplaceFields
<1>3. \A r \in {Row(c, at) : c \in stored} : r.extractor = "llm-semantic"
  BY RowFields
<1> HIDE DEF rest, new
<1>4. ASSUME NEW r \in DOMAIN new.rows, r.extractor = "scip"
      PROVE  r \in DOMAIN db.rows /\ (db.rows[r] \in Nat => new.rows[r] = db.rows[r])
  <2> DEFINE added == {Row(c, at) : c \in stored}
             times == [s \in added |-> Cardinality({c \in stored : Row(c, at) = s})]
  <2>1. /\ DOMAIN new.rows = DOMAIN rest \cup added
        /\ new.rows[r] = (IF r \in DOMAIN rest THEN rest[r] ELSE 0)
                          + (IF r \in added THEN times[r] ELSE 0)
    BY <1>2 DEF InsertClaims, (+)
  <2>2. r \notin added
    BY <1>3, <1>4
  <2> QED BY <1>1, <2>1, <2>2
<1> QED BY <1>4 DEF ScipOnce, new

\* A document of an index takes the place of what an index said of it before.
LEMMA ImportSound ==
  ASSUME NEW db, NEW trees, NEW now \in Nat, Sound(db, trees, now), ScipOnce(db),
         NEW f \in Files, NEW t, t[f] \in Contents[f], NEW at
  PROVE  LET new == ImportDocumentInto(db, f, t, at)
         IN  Sound(new, trees, now) /\ ScipOnce(new)
<1> DEFINE cs == DocumentClaims(t, f)
           marked == UpsertSource(db, f, None, "0.1.0")
           rest == DeleteByExtractorAndFile(marked.rows, "scip", f)
           less == [marked EXCEPT !.rows = rest]
           new == Insert(less, cs, at)
<1>1. ImportDocumentInto(db, f, t, at) = new
  BY DEF ImportDocumentInto
<1>2. /\ IsDB(marked) /\ marked.kind = db.kind /\ marked.rows = db.rows
      /\ DOMAIN marked.sources = DOMAIN db.sources \cup {f}
      /\ marked.sources[f].hash = None
      /\ \A g \in DOMAIN db.sources : g # f => marked.sources[g] = db.sources[g]
  BY SourceFields DEF Sound
<1> HIDE DEF marked
<1>3. /\ DOMAIN rest = {r \in DOMAIN db.rows : ~(r.extractor = "scip" /\ r.file = f)}
      /\ \A r \in DOMAIN rest : rest[r] = db.rows[r]
  BY <1>2 DEF DeleteByExtractorAndFile, Where, Restrict
<1> HIDE DEF rest
<1>4. IsDB(less) /\ less.kind = db.kind /\ less.sources = marked.sources /\ less.rows = rest
  BY <1>2, RowsFields
<1> HIDE DEF less
<1>5. /\ IsDB(new) /\ new.kind = db.kind /\ new.sources = marked.sources
      /\ new.rows = InsertClaims(rest, cs, at)
      /\ DOMAIN new.rows = DOMAIN rest \cup {Row(c, at) : c \in cs}
  BY <1>4, InsertFields
<1>6. \A c \in cs : Made(c, "scip", f)
  BY DocumentVariants
<1> HIDE DEF cs, new
<1>7. ScipOnce(new)
  <2>1. IsFiniteSet(t[f].decls)
    BY ClaimsAssumption
  <2>2. \A r : Copies(cs, at, r) \in Nat /\ Copies(cs, at, r) <= Homonyms(t[f], r)
    BY <2>1, DocumentCounts DEF cs
  <2>3. \A c \in cs : (c.extractor = "scip" /\ c.file \in Files) => c.file = f
    BY <1>6 DEF Made
  <2>4. /\ \A r \in DOMAIN rest : r \in DOMAIN db.rows /\ rest[r] = db.rows[r]
        /\ \A r \in DOMAIN rest : ~(r.extractor = "scip" /\ r.file = f)
    BY <1>3
  <2> QED BY <1>5, <2>2, <2>3, <2>4, OnceKept
<1>8. FromAnswers(new)
  <2>1. \A r \in {Row(c, at) : c \in cs} : r.pred \notin SemanticOnly
    BY <1>6, RowFields DEF Made
  <2> QED BY <1>3, <1>5, <2>1, AnswersKept DEF Sound
<1>9. \A g \in Files : FastRows(new, g) = FastRows(db, g)
  <2> SUFFICES ASSUME NEW g \in Files, NEW r
               PROVE  r \in FastRows(new, g) <=> r \in FastRows(db, g)
    BY DEF FastRows
  <2>1. FastName(g) # "scip"
    BY ExtractorsAssumption
  <2>2. \A s \in {Row(c, at) : c \in cs} : s.extractor = "scip"
    BY <1>6, RowFields DEF Made
  <2> QED BY <1>3, <1>5, <2>1, <2>2 DEF FastRows
<1>10. Hits(new, trees, now)
  <2>1. Hits(db, trees, now)
    BY DEF Sound
  <2>2. \A g \in DOMAIN new.sources : g \in Files /\ FastRows(new, g) = FastRows(db, g)
    BY <1>2, <1>5, <1>9, <2>1 DEF Hits
  <2>3. \A g \in DOMAIN new.sources :
          Marked(new.sources[g]) => g \in DOMAIN db.sources /\ Marked(db.sources[g])
    BY <1>2, <1>5 DEF Marked
  <2> QED BY <1>5, <2>1, <2>2, <2>3, HitsKept
<1> QED BY <1>1, <1>5, <1>7, <1>8, <1>10 DEF Sound

LEMMA ExternalSound ==
  ASSUME NEW db, NEW trees, NEW now \in Nat, Sound(db, trees, now), ScipOnce(db),
         NEW e, NEW at
  PROVE  LET new == Insert(db, ExternalClaims(e), at)
         IN  Sound(new, trees, now) /\ ScipOnce(new)
<1> DEFINE cs == ExternalClaims(e)
           new == Insert(db, cs, at)
           to == Decompose(e.symbol)
           base == Claim("scip", to.path, to.name, to.kind, "public", "(external)", 0,
                         e.symbol)
<1>1. IsClaim(base) /\ Made(base, "scip", "(external)")
  BY ClaimMade
<1>2. ASSUME NEW c \in cs
      PROVE  c.extractor = "scip" /\ c.file = "(external)" /\ c.pred = "has_doc"
  <2>1. c = [Says(base, "has_doc", e.doc) EXCEPT !.conf = 85]
    BY <1>2 DEF ExternalClaims, If
  <2> HIDE DEF base
  <2> QED BY <1>1, <2>1, SaysFields DEF Made
<1>3. /\ IsDB(new) /\ new.kind = db.kind /\ new.sources = db.sources
      /\ new.rows = InsertClaims(db.rows, cs, at)
      /\ DOMAIN new.rows = DOMAIN db.rows \cup {Row(c, at) : c \in cs}
  BY InsertFields DEF Sound
<1> HIDE DEF cs, new
<1>4. \A r \in {Row(c, at) : c \in cs} :
        r.extractor = "scip" /\ r.file = "(external)" /\ r.pred = "has_doc"
  BY <1>2, RowFields
<1>5. ScipOnce(new)
  <2> SUFFICES ASSUME NEW r \in DOMAIN new.rows, r.extractor = "scip", r.file \in Files
               PROVE  r \in DOMAIN db.rows /\ (db.rows[r] \in Nat => new.rows[r] = db.rows[r])
    BY DEF ScipOnce
  <2> DEFINE added == {Row(c, at) : c \in cs}
             times == [s \in added |-> Cardinality({c \in cs : Row(c, at) = s})]
  <2>1. new.rows[r] = (IF r \in DOMAIN db.rows THEN db.rows[r] ELSE 0)
                      + (IF r \in added THEN times[r] ELSE 0)
    BY <1>3 DEF InsertClaims, (+)
  <2>2. r \notin added
    BY <1>4, ClaimsAssumption
  <2> QED BY <1>3, <2>1, <2>2
<1>6. FromAnswers(new)
  <2>1. "has_doc" \notin SemanticOnly
    BY DEF SemanticOnly
  <2> QED BY <1>3, <1>4, <2>1, AnswersKept DEF Sound
<1>7. Hits(new, trees, now)
  <2>1. Hits(db, trees, now)
    BY DEF Sound
  <2>2. \A f \in DOMAIN new.sources : f \in Files /\ FastRows(new, f) = FastRows(db, f)
    <3> SUFFICES ASSUME NEW f \in DOMAIN new.sources, NEW r
                 PROVE  f \in Files /\ (r \in FastRows(new, f) <=> r \in FastRows(db, f))
      BY DEF FastRows
    <3>1. f \in Files
      BY <1>3, <2>1 DEF Hits
    <3>2. FastName(f) # "scip"
      BY <3>1, ExtractorsAssumption
    <3> QED BY <1>3, <1>4, <3>1, <3>2 DEF FastRows
  <2> QED BY <1>3, <2>1, <2>2, HitsKept
<1> QED BY <1>3, <1>5, <1>6, <1>7 DEF Sound, new, cs

-----------------------------------------------------------------------------
(* The database of an extraction *)

\* Its rows are not the importer's.
Native(db) == \A r \in DOMAIN db.rows : r.extractor # "scip" /\ r.conf \in Nat
\* What the extractors stored, filtered.
Plain(db) == \A r \in DOMAIN db.rows : r.pred \notin SemanticOnly /\ r.text \notin Sensitive
\* What the gate left.
Clean(db) ==
  \A r \in DOMAIN db.rows :
    /\ r.text \notin Sensitive
    /\ r.pred \in SemanticOnly => r.conf >= ConfidenceThreshold

LEMMA NewSound ==
  ASSUME NEW db, IsDB(db), db.rows = EmptyBag, db.sources = [f \in {} |-> None],
         NEW trees, NEW now
  PROVE  Sound(db, trees, now) /\ Native(db) /\ Plain(db) /\ \A f : Untouched(db, f)
<1>1. DOMAIN db.rows = {} /\ DOMAIN db.sources = {}
  BY DEF EmptyBag, SetToBag
<1>2. FromAnswers(db)
  BY <1>1, ClaimsAssumption DEF FromAnswers
<1> QED BY <1>1, <1>2 DEF Sound, Hits, Native, Plain, Untouched, FastRows

LEMMA InsertSound ==
  ASSUME NEW db, NEW trees, NEW now \in Nat, Sound(db, trees, now), Native(db),
         NEW cs, NEW at, NEW g, NEW ext, ext # "scip",
         \A c \in cs : \E f \in {g} \cup GoFiles : Made(c, ext, f),
         ext = "go-deep" \/ (g \notin DOMAIN db.sources /\ \A c \in cs : c.file = g)
  PROVE  LET new == Insert(db, cs, at)
         IN  Sound(new, trees, now) /\ Native(new)
<1> DEFINE new == Insert(db, cs, at)
<1>1. /\ IsDB(new) /\ new.kind = db.kind /\ new.sources = db.sources
      /\ DOMAIN new.rows = DOMAIN db.rows \cup {Row(c, at) : c \in cs}
  BY InsertFields DEF Sound
<1> HIDE DEF new
<1>2. \A r \in {Row(c, at) : c \in cs} :
        r.pred \notin SemanticOnly /\ r.conf \in Nat /\ r.extractor = ext
  BY RowFields DEF Made
<1>3. FromAnswers(new) /\ Native(new)
  BY <1>1, <1>2, AnswersKept DEF Sound, Native
<1>4. \A f \in DOMAIN db.sources : f \in Files /\ FastRows(new, f) = FastRows(db, f)
  <2> SUFFICES ASSUME NEW f \in DOMAIN db.sources
               PROVE  f \in Files /\ FastRows(new, f) = FastRows(db, f)
    OBVIOUS
  <2>1. f \in Files /\ FastName(f) # "go-deep"
    BY ExtractorsAssumption DEF Sound, Hits
  <2>2. \A c \in cs : ~(c.extractor = FastName(f) /\ c.file = f)
    BY <2>1 DEF Made
  <2> QED BY <1>1, <2>1, <2>2, FastApart
<1>5. Hits(new, trees, now)
  <2>1. Hits(db, trees, now)
    BY DEF Sound
  <2> QED BY <1>1, <1>4, <2>1, HitsKept
<1> QED BY <1>1, <1>3, <1>5 DEF Sound, new

LEMMA MarkSound ==
  ASSUME NEW db, NEW trees, NEW now \in Nat, Sound(db, trees, now),
         NEW f \in Files, FullAt(db, f, trees, now), NEW hash, NEW version
  PROVE  Sound(UpsertSource(db, f, hash, version), trees, now)
<1> DEFINE new == UpsertSource(db, f, hash, version)
<1>1. /\ IsDB(new) /\ new.kind = db.kind /\ new.rows = db.rows
      /\ DOMAIN new.sources = DOMAIN db.sources \cup {f}
      /\ \A g \in DOMAIN db.sources : g # f => new.sources[g] = db.sources[g]
  BY SourceFields DEF Sound
<1> HIDE DEF new
<1>2. \A g : FullAt(db, g, trees, now) => FullAt(new, g, trees, now)
  BY <1>1 DEF FullAt, FastRows
<1>3. Hits(db, trees, now)
  BY DEF Sound
<1>4. Hits(new, trees, now)
  <2> SUFFICES ASSUME NEW g \in DOMAIN new.sources
               PROVE  g \in Files /\ (Marked(new.sources[g]) => FullAt(new, g, trees, now))
    BY DEF Hits
  <2>1. CASE g = f
    BY <1>2, <2>1
  <2>2. CASE g # f
    BY <1>1, <1>2, <1>3, <2>2 DEF Hits
  <2> QED BY <2>1, <2>2
<1> QED BY <1>1, <1>4 DEF Sound, FromAnswers, new

LEMMA StoredFull ==
  ASSUME NEW db, IsDB(db), NEW f, Untouched(db, f), NEW trees, NEW now \in Nat \ {0},
         NEW t \in trees, t[f] # Absent
  PROVE  FullAt(Insert(db, Stored(db.kind, f, t[f]), now), f, trees, now)
<1> DEFINE cs == Stored(db.kind, f, t[f])
           new == Insert(db, cs, now)
<1>1. /\ new.kind = db.kind
      /\ DOMAIN new.rows = DOMAIN db.rows \cup {Row(c, now) : c \in cs}
  BY InsertFields
<1>2. \A c \in cs : c.extractor = FastName(f) /\ c.file = f
  BY StoredMade DEF Made
<1> HIDE DEF cs, new
<1>3. FastRows(new, f) = {Row(c, now) : c \in cs}
  <2>1. \A r \in {Row(c, now) : c \in cs} : r.extractor = FastName(f) /\ r.file = f
    BY <1>2, RowFields
  <2> QED BY <1>1, <2>1 DEF Untouched, FastRows
<1>4. now \in 1 .. now
  OBVIOUS
<1> QED BY <1>1, <1>3, <1>4 DEF FullAt, cs, new

\* The gate takes out no row of an extractor of files.
LEMMA GateSound ==
  ASSUME NEW db, NEW trees, NEW now \in Nat, Sound(db, trees, now), Native(db),
         db.kind \notin {"remote", "incremental"}
  PROVE  LET new == [db EXCEPT !.rows = DeleteSensitive(DeleteLowConfidence(@))]
         IN  Sound(new, trees, now) /\ Native(new) /\ Clean(new) /\ new.kind = db.kind
<1> DEFINE low == DeleteLowConfidence(db.rows)
           rest == DeleteSensitive(low)
           new == [db EXCEPT !.rows = rest]
<1>1. DOMAIN low = {r \in DOMAIN db.rows :
                      ~(r.pred \in SemanticOnly /\ r.conf < ConfidenceThreshold)}
  BY DEF DeleteLowConfidence, Where, Restrict
<1> HIDE DEF low
<1>2. DOMAIN rest = {r \in DOMAIN low : r.text \notin Sensitive}
  BY DEF DeleteSensitive, Where, Restrict
<1> HIDE DEF rest
<1>3. IsDB(new) /\ new.kind = db.kind /\ new.sources = db.sources /\ new.rows = rest
  BY RowsFields DEF Sound
<1> HIDE DEF new
<1>4. Clean(new) /\ Native(new)
  BY <1>1, <1>2, <1>3 DEF Clean, Native, ConfidenceThreshold
<1>5. FromAnswers(new)
  BY <1>1, <1>2, <1>3, AnswersKept DEF Sound
<1>6. Hits(db, trees, now)
  BY DEF Sound
<1>7. ASSUME NEW f \in DOMAIN db.sources, Marked(db.sources[f])
      PROVE  FastRows(new, f) = FastRows(db, f)
  <2>1. PICK t \in trees : \E at \in 1 .. now :
          FastRows(db, f) = {Row(c, at) : c \in Stored(db.kind, f, t[f])}
    BY <1>6, <1>7 DEF Hits, FullAt
  <2>2. \A c \in Stored(db.kind, f, t[f]) : c.pred \notin SemanticOnly /\ c.text \notin Sensitive
    BY StoredMade DEF Stored, Made, FilterSensitive
  <2>3. \A r \in FastRows(db, f) : r.pred \notin SemanticOnly /\ r.text \notin Sensitive
    BY <2>1, <2>2, RowFields
  <2> QED BY <1>1, <1>2, <1>3, <2>3 DEF FastRows
<1>8. Hits(new, trees, now)
  <2>1. \A f \in DOMAIN new.sources : f \in Files
    BY <1>3, <1>6 DEF Hits
  <2>2. ASSUME NEW f \in DOMAIN new.sources, Marked(new.sources[f])
        PROVE  /\ f \in DOMAIN db.sources /\ Marked(db.sources[f])
               /\ FastRows(new, f) = FastRows(db, f)
    BY <1>3, <1>7, <2>2
  <2>3. new.kind = db.kind
    BY <1>3
  <2> QED BY <1>6, <2>1, <2>2, <2>3, HitsKept
<1> QED BY <1>3, <1>4, <1>5, <1>8 DEF Sound, new, rest, low

\* A warning is remembered; nothing else depends on it.
LEMMA WarnSound ==
  ASSUME NEW db, NEW trees, NEW now, Sound(db, trees, now), Native(db),
         db.kind \notin {"remote", "incremental"}
  PROVE  LET new == [db EXCEPT !.kind = "degraded"]
         IN  /\ Sound(new, trees, now) /\ Native(new) /\ new.kind = "degraded"
             /\ Plain(db) => Plain(new)
             /\ \A f : Untouched(db, f) => Untouched(new, f)
             /\ \A f : FullAt(db, f, trees, now) => FullAt(new, f, trees, now)
<1> DEFINE new == [db EXCEPT !.kind = "degraded"]
<1>1. /\ IsDB(new) /\ new.kind = "degraded" /\ new.sources = db.sources
      /\ new.rows = db.rows
  BY KindFields DEF Sound
<1> HIDE DEF new
<1>2. \A f, u : Stored(new.kind, f, u) = Stored(db.kind, f, u)
  BY <1>1 DEF Stored
<1>3. \A f : FullAt(db, f, trees, now) => FullAt(new, f, trees, now)
  BY <1>1, <1>2 DEF FullAt, FastRows
<1> QED BY <1>1, <1>3 DEF Sound, FromAnswers, Hits, Native, Plain, Untouched, FastRows, new

\* The rows that are seeded for the ranker carry a version nobody asks for.
LEMMA SeedSound ==
  ASSUME NEW db, NEW trees, NEW now \in Nat, Sound(db, trees, now),
         NEW seeded, seeded \subseteq Files, NEW hash
  PROVE  LET new == [db EXCEPT !.sources =
                       [f \in seeded \cup DOMAIN @ |->
                          IF f \in seeded THEN [hash |-> hash[f], version |-> "tribal-seed"]
                          ELSE @[f]]]
         IN  Sound(new, trees, now) /\ new.rows = db.rows /\ new.kind = db.kind
<1> DEFINE sources == [f \in seeded \cup DOMAIN db.sources |->
                         IF f \in seeded THEN [hash |-> hash[f], version |-> "tribal-seed"]
                         ELSE db.sources[f]]
           new == [db EXCEPT !.sources = sources]
<1>1. /\ DOMAIN sources = seeded \cup DOMAIN db.sources
      /\ \A f \in seeded : ~Marked(sources[f])
      /\ \A f \in DOMAIN db.sources \ seeded : sources[f] = db.sources[f]
  BY DEF Marked
<1> HIDE DEF sources
<1>2. IsDB(new) /\ new.rows = db.rows /\ new.kind = db.kind /\ new.sources = sources
  BY DEF Sound, IsDB
<1> HIDE DEF new
<1>3. Hits(new, trees, now)
  BY <1>1, <1>2 DEF Sound, Hits, FullAt, FastRows
<1> QED BY <1>2, <1>3 DEF Sound, FromAnswers, new, sources

-----------------------------------------------------------------------------
(* The inductive invariant *)

TreeSound ==
  /\ tree = [f \in Files |-> tree[f]]
  /\ \A f \in Files : tree[f] \in Contents[f] \cup {Absent}
  /\ tree \in past
  /\ clock \in Nat \ {0}

PublishedSound == published # NoDB => Sound(published, past, clock) /\ ScipOnce(published)

IndexSound ==
  index.stage = "open" =>
    /\ index \in [stage : {"open"}, tree : {index.tree}, todo : SUBSET GoFiles,
                  external : {index.external}]
    /\ \A f \in index.todo : index.tree[f] \in Contents[f]

\* The file in hand: read and not stored, or stored and not hashed.
HandSound(j, trees, now) ==
  j.file # None =>
    /\ j.file \in Others \ j.todo
    /\ j.read # None =>
         /\ Untouched(j.db, j.file) /\ j.read # Absent
         /\ \E t \in trees : t[j.file] = j.read
    /\ j.read = None => FullAt(j.db, j.file, trees, now)

Filling == {"load", "store", "walk"}
Screening == {"seed", "publish"}

LocalSound(j, trees, now) ==
  /\ j \in [stage : Filling \cup {"generate"} \cup Screening, db : {j.db}, tier2 : {j.tier2},
            tribal : {j.tribal}, todo : {j.todo}, read : {j.read}, file : {j.file}]
  /\ Sound(j.db, trees, now) /\ Native(j.db) /\ j.db.kind \notin {"remote", "incremental"}
  /\ j.stage \in Filling =>
       /\ j.todo \subseteq Others /\ Plain(j.db)
       /\ \A f \in j.todo : Untouched(j.db, f)
  /\ j.stage \in {"load", "store"} => j.file = None
  /\ j.stage = "walk" => HandSound(j, trees, now)
  /\ j.stage \in Screening => Clean(j.db)

RemoteSound(j, trees, now) ==
  /\ j \in [stage : {"remote"}, todo : SUBSET Files, db : {j.db}]
  /\ Sound(j.db, trees, now) /\ Native(j.db) /\ j.db.kind \in {"remote", "incremental"}
  /\ \A f \in j.todo : Untouched(j.db, f)

JobSound(j, trees, now) ==
  j = NoJob \/ LocalSound(j, trees, now) \/ RemoteSound(j, trees, now)

Inv == TreeSound /\ PublishedSound /\ IndexSound /\ JobSound(job, past, clock)

LEMMA InitInv == Init => Inv
<1> SUFFICES ASSUME Init PROVE Inv
  OBVIOUS
<1>1. TreeSound
  BY ClaimsAssumption DEF Init, TreeSound
<1>2. PublishedSound /\ IndexSound /\ JobSound(job, past, clock)
  BY DEF Init, PublishedSound, IndexSound, JobSound, NoIndex
<1> QED BY <1>1, <1>2 DEF Inv

\* What held stays true when a file changes.
LEMMA JobLater ==
  ASSUME NEW j, NEW trees, NEW now \in Nat, NEW more, NEW later \in Nat,
         JobSound(j, trees, now), trees \subseteq more, now <= later
  PROVE  JobSound(j, more, later)
<1>1. CASE LocalSound(j, trees, now)
  <2>1. Sound(j.db, more, later)
    BY <1>1, SoundLater DEF LocalSound
  <2>2. HandSound(j, trees, now) => HandSound(j, more, later)
    BY FullLater DEF HandSound
  <2> QED BY <1>1, <2>1, <2>2 DEF LocalSound, JobSound
<1>2. CASE RemoteSound(j, trees, now)
  BY <1>2, SoundLater DEF RemoteSound, JobSound
<1> QED BY <1>1, <1>2 DEF JobSound

LEMMA EditInv ==
  ASSUME Inv, NEW f \in Files, NEW u \in Contents[f] \cup {Absent}, Edit(f, u)
  PROVE  Inv'
<1>1. /\ tree' = [tree EXCEPT ![f] = u] /\ past' = past \cup {tree'} /\ clock' = clock + 1
      /\ UNCHANGED <<published, job, index>>
  BY DEF Edit
<1>2. TreeSound'
  BY <1>1 DEF Inv, TreeSound
<1>3. clock \in Nat /\ clock' \in Nat /\ clock <= clock' /\ past \subseteq past'
  BY <1>1 DEF Inv, TreeSound
<1>4. PublishedSound'
  BY <1>1, <1>3, SoundLater DEF Inv, PublishedSound
<1>5. JobSound(job, past', clock')
  BY <1>3, JobLater DEF Inv
<1> QED BY <1>1, <1>2, <1>4, <1>5 DEF Inv, IndexSound

\* A step of an extraction on its own database.
LEMMA OnlyInv ==
  ASSUME Inv, NEW j, Only(j), JobSound(j, past, clock)
  PROVE  Inv'
BY DEF Inv, Only, KeepRest, TreeSound, PublishedSound, IndexSound

LEMMA BeginInv == ASSUME Inv, Begin PROVE Inv'
<1>1. PICK tier2 \in BOOLEAN, tribal \in BOOLEAN :
        job' = [stage |-> "load", db |-> [NewDB EXCEPT !.since = clock, !.enriched = tier2],
                tier2 |-> tier2, tribal |-> tribal, todo |-> Others, read |-> None, file |-> None]
  BY DEF Begin
<1> DEFINE db == [NewDB EXCEPT !.since = clock, !.enriched = tier2]
<1>2. IsDB(db) /\ db.rows = EmptyBag /\ db.sources = [f \in {} |-> None] /\ db.kind = "local"
  BY DEF NewDB, IsDB
<1> HIDE DEF db
<1>3. Sound(db, past, clock) /\ Native(db) /\ Plain(db) /\ \A f : Untouched(db, f)
  BY <1>2, NewSound
<1>4. LocalSound(job', past, clock)
  BY <1>1, <1>2, <1>3 DEF LocalSound, Filling, Screening, db
<1> QED BY <1>4 DEF Inv, Begin, TreeSound, PublishedSound, IndexSound, JobSound

LEMMA LoadInv == ASSUME Inv, LoadGo \/ LoadGoFails PROVE Inv'
<1>1. job.stage = "load" /\ LocalSound(job, past, clock)
  BY DEF Inv, JobSound, RemoteSound, LoadGo, LoadGoFails, NoJob
<1>2. CASE LoadGo
  <2> DEFINE j == [job EXCEPT !.stage = "store", !.read = tree]
  <2>1. LocalSound(j, past, clock)
    BY <1>1 DEF LocalSound, Filling, Screening
  <2> QED BY <1>2, <2>1, OnlyInv DEF LoadGo, JobSound
<1>3. CASE LoadGoFails
  <2> DEFINE db == [job.db EXCEPT !.kind = "degraded"]
             j == [job EXCEPT !.stage = "walk", !.db = db]
  <2>1. /\ Sound(db, past, clock) /\ Native(db) /\ db.kind = "degraded" /\ Plain(db)
        /\ \A f \in job.todo : Untouched(db, f)
    BY <1>1, WarnSound DEF LocalSound, Filling
  <2>2. Only(j)
    BY <1>1, <1>3 DEF LoadGoFails, LocalSound
  <2> HIDE DEF db
  <2>3. LocalSound(j, past, clock)
    BY <1>1, <2>1 DEF LocalSound, Filling, Screening, HandSound
  <2> HIDE DEF j
  <2> QED BY <2>2, <2>3, OnlyInv DEF JobSound
<1> QED BY <1>2, <1>3

LEMMA StoreGoInv == ASSUME Inv, StoreGo PROVE Inv'
<1>1. job.stage = "store" /\ LocalSound(job, past, clock)
  BY DEF Inv, JobSound, RemoteSound, StoreGo, NoJob
<1> DEFINE cs == FilterSensitive(GoDeep(job.read))
           db == Insert(job.db, cs, clock)
           j == [job EXCEPT !.stage = "walk", !.read = None, !.db = db]
<1>2. Only(j)
  BY DEF StoreGo, StoreClaims
<1>3. \A c \in cs : c.text \notin Sensitive /\ \E f \in GoFiles : Made(c, "go-deep", f)
  BY GoDeepMade DEF FilterSensitive
<1>4. /\ db.kind = job.db.kind /\ db.sources = job.db.sources
      /\ DOMAIN db.rows = DOMAIN job.db.rows \cup {Row(c, clock) : c \in cs}
  BY <1>1, InsertFields DEF LocalSound, Sound
<1>5. clock \in Nat
  BY DEF Inv, TreeSound
<1>6. Sound(db, past, clock) /\ Native(db)
  <2>1. \A c \in cs : \E f \in {None} \cup GoFiles : Made(c, "go-deep", f)
    BY <1>3
  <2>2. Sound(job.db, past, clock) /\ Native(job.db)
    BY <1>1 DEF LocalSound
  <2> HIDE DEF cs
  <2> QED BY <1>5, <2>1, <2>2, InsertSound
<1> HIDE DEF cs, db
<1>7. Plain(db)
  <2>1. \A r \in {Row(c, clock) : c \in cs} : r.pred \notin SemanticOnly /\ r.text \notin Sensitive
    BY <1>3, RowFields DEF Made
  <2> QED BY <1>1, <1>4, <2>1 DEF LocalSound, Filling, Plain
<1>8. ASSUME NEW f \in job.todo PROVE Untouched(db, f)
  <2>1. f \in Others /\ Untouched(job.db, f)
    BY <1>1 DEF LocalSound, Filling
  <2>2. FastName(f) # "go-deep"
    BY <2>1, ExtractorsAssumption DEF Others
  <2>3. \A c \in cs : ~(c.extractor = FastName(f) /\ c.file = f)
    BY <1>3, <2>2 DEF Made
  <2>4. FastRows(db, f) = FastRows(job.db, f)
    BY <1>4, <2>3, FastApart
  <2> QED BY <1>4, <2>1, <2>4 DEF Untouched
<1>9. LocalSound(j, past, clock)
  BY <1>1, <1>4, <1>6, <1>7, <1>8 DEF LocalSound, Filling, Screening, HandSound
<1> HIDE DEF j
<1> QED BY <1>2, <1>9, OnlyInv DEF JobSound

LEMMA SkipOtherInv == ASSUME Inv, NEW f \in Others, SkipOther(f) PROVE Inv'
<1>1. job.stage = "walk" /\ job.file = None /\ LocalSound(job, past, clock)
  BY DEF Inv, JobSound, RemoteSound, SkipOther, NoJob
<1> DEFINE db == IF tree[f] = Absent THEN job.db ELSE [job.db EXCEPT !.kind = "degraded"]
           j == [job EXCEPT !.todo = @ \ {f}, !.db = db]
<1>2. Only(j)
  <2>1. IsDB(job.db)
    BY <1>1 DEF LocalSound, Sound
  <2>2. [job.db EXCEPT !.kind = @] = job.db
    BY <2>1 DEF IsDB
  <2> QED BY <1>1, <2>2 DEF SkipOther, LocalSound
<1>3. /\ Sound(db, past, clock) /\ Native(db) /\ db.kind \notin {"remote", "incremental"}
      /\ Plain(db) /\ \A g \in job.todo : Untouched(db, g)
  BY <1>1, WarnSound DEF LocalSound, Filling
<1> HIDE DEF db
<1>4. LocalSound(j, past, clock)
  BY <1>1, <1>3 DEF LocalSound, Filling, Screening, HandSound
<1> HIDE DEF j
<1> QED BY <1>2, <1>4, OnlyInv DEF JobSound

LEMMA ReadOtherInv == ASSUME Inv, NEW f \in Others, ReadOther(f) PROVE Inv'
<1>1. job.stage = "walk" /\ job.file = None /\ f \in job.todo /\ LocalSound(job, past, clock)
  BY DEF Inv, JobSound, RemoteSound, ReadOther, NoJob
<1> DEFINE j == [job EXCEPT !.todo = @ \ {f}, !.file = f, !.read = tree[f]]
<1>2. Only(j) /\ tree[f] # Absent
  BY DEF ReadOther
<1>3. tree[f] # None /\ tree \in past
  BY <1>2, ClaimsAssumption DEF Inv, TreeSound, Others
<1>4. /\ j.file = f /\ j.read = tree[f] /\ j.db = job.db /\ j.todo = job.todo \ {f}
      /\ j.stage = "walk"
  BY <1>1 DEF LocalSound
<1>5. HandSound(j, past, clock)
  BY <1>1, <1>2, <1>3, <1>4 DEF LocalSound, Filling, HandSound
<1>6. LocalSound(j, past, clock)
  BY <1>1, <1>5 DEF LocalSound, Filling, Screening
<1> HIDE DEF j
<1> QED BY <1>2, <1>6, OnlyInv DEF JobSound

LEMMA StoreOtherInv == ASSUME Inv, StoreOther \/ StoreOtherFails PROVE Inv'
<1>1. /\ job.stage = "walk" /\ job.file # None /\ job.read # None
      /\ LocalSound(job, past, clock)
  BY DEF Inv, JobSound, RemoteSound, StoreOther, StoreOtherFails, NoJob
<1>2. /\ job.file \in Others /\ job.file \notin job.todo
      /\ Untouched(job.db, job.file) /\ job.read # Absent
      /\ \E t \in past : t[job.file] = job.read
  BY <1>1 DEF LocalSound, HandSound
<1>3. CASE StoreOther
  <2> DEFINE f == job.file
             cs == Stored(job.db.kind, f, job.read)
             db == Insert(job.db, cs, clock)
             j == [job EXCEPT !.read = None, !.db = db]
  <2>1. Only(j)
    BY <1>1, <1>3 DEF StoreOther, StoreClaims, LocalSound, Stored
  <2>2. \A c \in cs : c.text \notin Sensitive /\ Made(c, FastName(f), f)
    BY <1>1, StoredMade DEF LocalSound, Stored, FilterSensitive
  <2>3. /\ db.kind = job.db.kind /\ db.sources = job.db.sources
        /\ DOMAIN db.rows = DOMAIN job.db.rows \cup {Row(c, clock) : c \in cs}
    BY <1>1, InsertFields DEF LocalSound, Sound
  <2>4. clock \in Nat \ {0}
    BY DEF Inv, TreeSound
  <2>5. Sound(db, past, clock) /\ Native(db)
    <3>1. f \notin DOMAIN job.db.sources /\ FastName(f) # "scip"
      BY <1>2, ExtractorsAssumption DEF Untouched, Others
    <3>2. \A c \in cs : c.file = f /\ \E g \in {f} \cup GoFiles : Made(c, FastName(f), g)
      BY <2>2 DEF Made
    <3> QED BY <1>1, <2>4, <3>1, <3>2, InsertSound DEF LocalSound
  <2>6. FullAt(db, f, past, clock)
    BY <1>1, <1>2, <2>4, StoredFull DEF LocalSound, Sound
  <2> HIDE DEF cs, db
  <2>7. Plain(db)
    <3>1. \A r \in {Row(c, clock) : c \in cs} :
            r.pred \notin SemanticOnly /\ r.text \notin Sensitive
      BY <2>2, RowFields DEF Made
    <3> QED BY <1>1, <2>3, <3>1 DEF LocalSound, Filling, Plain
  <2>8. ASSUME NEW g \in job.todo PROVE Untouched(db, g)
    <3>1. \A c \in cs : c.file # g
      BY <1>2, <2>2 DEF Made
    <3>2. FastRows(db, g) = FastRows(job.db, g)
      BY <2>3, <3>1, FastApart
    <3> QED BY <1>1, <2>3, <3>2 DEF LocalSound, Filling, Untouched
  <2>9. /\ j.file = f /\ j.read = None /\ j.db = db /\ j.todo = job.todo /\ j.stage = "walk"
    BY <1>1 DEF LocalSound
  <2>10. HandSound(j, past, clock)
    BY <1>2, <2>6, <2>9 DEF HandSound
  <2>11. LocalSound(j, past, clock)
    BY <1>1, <2>3, <2>5, <2>7, <2>8, <2>10 DEF LocalSound, Filling, Screening
  <2> HIDE DEF j
  <2> QED BY <2>1, <2>11, OnlyInv DEF JobSound
<1>4. CASE StoreOtherFails
  <2> DEFINE db == [job.db EXCEPT !.kind = "degraded"]
             j == [job EXCEPT !.read = None, !.file = None, !.db = db]
  <2>1. /\ Sound(db, past, clock) /\ Native(db) /\ db.kind = "degraded" /\ Plain(db)
        /\ \A f \in job.todo : Untouched(db, f)
    BY <1>1, WarnSound DEF LocalSound, Filling
  <2>2. Only(j)
    BY <1>1, <1>4 DEF StoreOtherFails, LocalSound
  <2> HIDE DEF db
  <2>3. LocalSound(j, past, clock)
    BY <1>1, <2>1 DEF LocalSound, Filling, Screening, HandSound
  <2> HIDE DEF j
  <2> QED BY <2>2, <2>3, OnlyInv DEF JobSound
<1> QED BY <1>3, <1>4

LEMMA HashOtherInv == ASSUME Inv, HashOther PROVE Inv'
<1>1. /\ job.stage = "walk" /\ job.file # None /\ job.read = None
      /\ LocalSound(job, past, clock)
  BY DEF Inv, JobSound, RemoteSound, HashOther, NoJob
<1> DEFINE f == job.file
           marked == UpsertSource(job.db, f, tree[f], "0.1.0")
           db == IF tree[f] = Absent THEN job.db ELSE marked
           j == [job EXCEPT !.file = None, !.db = db]
<1>2. Only(j)
  BY DEF HashOther
<1>3. f \in Others /\ f \notin job.todo /\ FullAt(job.db, f, past, clock)
  BY <1>1 DEF LocalSound, HandSound
<1>4. clock \in Nat
  BY DEF Inv, TreeSound
<1>5. Sound(marked, past, clock)
  BY <1>1, <1>3, <1>4, MarkSound DEF LocalSound, Others
<1>6. /\ marked.kind = job.db.kind /\ marked.rows = job.db.rows
      /\ DOMAIN marked.sources = DOMAIN job.db.sources \cup {f}
  BY <1>1, SourceFields DEF LocalSound, Sound
<1> HIDE DEF marked
<1>7. /\ Sound(db, past, clock) /\ db.kind = job.db.kind /\ db.rows = job.db.rows
      /\ DOMAIN db.sources \subseteq DOMAIN job.db.sources \cup {f}
  BY <1>1, <1>5, <1>6 DEF LocalSound
<1> HIDE DEF db
<1>8. /\ Native(db) /\ Plain(db) /\ \A g \in job.todo : Untouched(db, g)
  BY <1>1, <1>3, <1>7 DEF LocalSound, Filling, Native, Plain, Untouched, FastRows
<1>9. LocalSound(j, past, clock)
  BY <1>1, <1>7, <1>8 DEF LocalSound, Filling, Screening, HandSound
<1> HIDE DEF j
<1> QED BY <1>2, <1>9, OnlyInv DEF JobSound

LEMMA WalkedInv == ASSUME Inv, Walked PROVE Inv'
<1>1. job.stage = "walk" /\ LocalSound(job, past, clock)
  BY DEF Inv, JobSound, RemoteSound, Walked, NoJob
<1> DEFINE j == IF job.tier2 THEN [job EXCEPT !.stage = "generate", !.todo = ImportPaths(job.db)]
                ELSE [job EXCEPT !.stage = "seed"]
<1>2. Only(j)
  BY DEF Walked
<1>3. Clean(job.db)
  BY <1>1 DEF LocalSound, Filling, Plain, Clean
<1>4. LocalSound(j, past, clock)
  BY <1>1, <1>3 DEF LocalSound, Filling, Screening
<1> HIDE DEF j
<1> QED BY <1>2, <1>4, OnlyInv DEF JobSound

LEMMA GenerateInv == ASSUME Inv, NEW p, Generate(p) PROVE Inv'
<1>1. job.stage = "generate" /\ LocalSound(job, past, clock)
  <2>1. job.stage = "generate"
    BY DEF Generate
  <2> QED BY <2>1 DEF Inv, JobSound, RemoteSound, NoJob
<1>2. CASE Only([job EXCEPT !.todo = @ \ {p}])
  <2>1. LocalSound([job EXCEPT !.todo = @ \ {p}], past, clock)
    BY <1>1 DEF LocalSound, Filling, Screening
  <2> QED BY <1>2, <2>1, OnlyInv DEF JobSound
<1>3. ASSUME NEW answer \in Answers,
             NEW stored \in SUBSET ParseResponse(p, SymbolMap(job.db, p), answer),
             Only([job EXCEPT !.todo = @ \ {p}, !.db = Replace(@, p, stored, clock)])
      PROVE  Inv'
  <2> DEFINE db == Replace(job.db, p, stored, clock)
             j == [job EXCEPT !.todo = @ \ {p}, !.db = db]
  <2>1. Only(j)
    BY <1>3
  <2>2. \A c \in stored : /\ c.extractor = "llm-semantic" /\ c.path = p /\ c.conf \in Nat
                          /\ \E i \in answer : i.text = c.text
    BY ParseMade
  <2>3. clock \in Nat
    BY DEF Inv, TreeSound
  <2>4. Sound(db, past, clock)
    BY <1>1, <2>2, <2>3, ReplaceSound DEF LocalSound
  <2>5. db.kind = job.db.kind /\
        \A r \in DOMAIN db.rows : r \in DOMAIN job.db.rows \/ r \in {Row(c, clock) : c \in stored}
    BY <1>1, ReplaceFields DEF LocalSound, Sound
  <2> HIDE DEF db
  <2>6. Native(db)
    BY <1>1, <2>2, <2>5, RowFields DEF LocalSound, Native
  <2>7. LocalSound(j, past, clock)
    BY <1>1, <2>4, <2>5, <2>6 DEF LocalSound, Filling, Screening
  <2> HIDE DEF j
  <2> QED BY <2>1, <2>7, OnlyInv DEF JobSound
<1> QED BY <1>2, <1>3 DEF Generate

LEMMA GateInv == ASSUME Inv, Gate PROVE Inv'
<1>1. job.stage = "generate" /\ LocalSound(job, past, clock)
  BY DEF Inv, JobSound, RemoteSound, Gate, NoJob
<1> DEFINE db == [job.db EXCEPT !.rows = DeleteSensitive(DeleteLowConfidence(@))]
           j == [job EXCEPT !.stage = "seed", !.db = db]
<1>2. Only(j)
  BY <1>1 DEF Gate, LocalSound
<1>3. clock \in Nat
  BY DEF Inv, TreeSound
<1>4. Sound(db, past, clock) /\ Native(db) /\ Clean(db) /\ db.kind = job.db.kind
  BY <1>1, <1>3, GateSound DEF LocalSound
<1> HIDE DEF db
<1>5. LocalSound(j, past, clock)
  BY <1>1, <1>4 DEF LocalSound, Filling, Screening
<1> HIDE DEF j
<1> QED BY <1>2, <1>5, OnlyInv DEF JobSound

LEMMA SeedInv == ASSUME Inv, Seed PROVE Inv'
<1>1. job.stage = "seed" /\ LocalSound(job, past, clock)
  BY DEF Inv, JobSound, RemoteSound, Seed, NoJob
<1> DEFINE seeded == Present(tree) \ GeneratedNames
           sown == [job.db EXCEPT !.sources =
                      [f \in seeded \cup DOMAIN @ |->
                         IF f \in seeded THEN [hash |-> tree[f], version |-> "tribal-seed"]
                         ELSE @[f]]]
           db == IF job.tribal THEN sown ELSE job.db
           j == [job EXCEPT !.stage = "publish", !.db = db]
<1>2. Only(j)
  <2>1. [job.db EXCEPT !.sources = @] = job.db
    BY <1>1 DEF LocalSound, Sound, IsDB
  <2> QED BY <1>1, <2>1 DEF Seed, LocalSound
<1>3. seeded \subseteq Files
  BY DEF Present
<1>4. clock \in Nat
  BY DEF Inv, TreeSound
<1>5. Sound(sown, past, clock) /\ sown.rows = job.db.rows /\ sown.kind = job.db.kind
  <2> HIDE DEF seeded
  <2> QED BY <1>1, <1>3, <1>4, SeedSound DEF LocalSound
<1> HIDE DEF sown
<1>6. Sound(db, past, clock) /\ db.rows = job.db.rows /\ db.kind = job.db.kind
  BY <1>1, <1>5 DEF LocalSound
<1> HIDE DEF db
<1>7. Native(db) /\ Clean(db)
  BY <1>1, <1>6 DEF LocalSound, Native, Clean, Screening
<1>8. LocalSound(j, past, clock)
  BY <1>1, <1>6, <1>7 DEF LocalSound, Filling, Screening
<1> HIDE DEF j
<1> QED BY <1>2, <1>8, OnlyInv DEF JobSound

LEMMA PublishInv == ASSUME Inv, Publish \/ RemoteDone PROVE Inv'
<1>1. LocalSound(job, past, clock) \/ RemoteSound(job, past, clock)
  BY DEF Inv, JobSound, Publish, RemoteDone, NoJob
<1>2. Sound(job.db, past, clock) /\ Native(job.db)
  BY <1>1 DEF LocalSound, RemoteSound
<1>3. /\ published' = [job.db EXCEPT !.done = clock] /\ job' = NoJob /\ index' = NoIndex
      /\ UNCHANGED <<tree, clock, past>>
  BY DEF Publish, RemoteDone
<1>4. ScipOnce(job.db)
  BY <1>2 DEF ScipOnce, Native
<1>5. /\ IsDB(published') /\ published'.rows = job.db.rows
      /\ published'.sources = job.db.sources /\ published'.kind = job.db.kind
  BY <1>2, <1>3 DEF Sound, IsDB
<1>6. Sound(published', past, clock) /\ ScipOnce(published')
  BY <1>2, <1>4, <1>5, AlikeSound
<1> QED BY <1>3, <1>6 DEF Inv, TreeSound, PublishedSound, IndexSound, JobSound, NoIndex

LEMMA FailInv == ASSUME Inv, Fail PROVE Inv'
BY OnlyInv DEF Fail, JobSound

LEMMA BeginRemoteInv == ASSUME Inv, BeginRemote PROVE Inv'
<1>1. PICK kind \in {"remote", "incremental"}, todo \in SUBSET Files :
        job' = RemoteJob(kind, todo)
  BY DEF BeginRemote, Present, Changed
<1> DEFINE db == [NewDB EXCEPT !.since = clock, !.kind = kind]
<1>2. IsDB(db) /\ db.rows = EmptyBag /\ db.sources = [f \in {} |-> None] /\ db.kind = kind
  BY DEF NewDB, IsDB
<1>3. job' = [stage |-> "remote", todo |-> todo, db |-> db]
  BY <1>1 DEF RemoteJob
<1> HIDE DEF db
<1>4. Sound(db, past, clock) /\ Native(db) /\ \A f : Untouched(db, f)
  BY <1>2, NewSound
<1>5. RemoteSound(job', past, clock)
  BY <1>2, <1>3, <1>4 DEF RemoteSound
<1> QED BY <1>5 DEF Inv, BeginRemote, TreeSound, PublishedSound, IndexSound, JobSound

LEMMA RemoteFileInv ==
  ASSUME Inv, NEW f \in Files, RemoteFile(f) \/ RemoteFileFails(f) PROVE Inv'
<1>1. f \in job.todo /\ RemoteSound(job, past, clock)
  BY DEF Inv, JobSound, LocalSound, Filling, Screening, RemoteFile, RemoteFileFails, NoJob
<1>2. CASE RemoteFile(f)
  <2> DEFINE cs == Stored(job.db.kind, f, tree[f])
             mid == Insert(job.db, cs, clock)
             db == UpsertSource(mid, f, tree[f], "0.1.0")
             j == [job EXCEPT !.todo = @ \ {f}, !.db = db]
  <2>1. Only(j) /\ tree[f] # Absent
    BY <1>1, <1>2 DEF RemoteFile, RemoteSound, Stored
  <2>2. \A c \in cs : Made(c, FastName(f), f)
    BY StoredMade
  <2>3. clock \in Nat \ {0} /\ tree \in past
    BY DEF Inv, TreeSound
  <2>4. /\ IsDB(mid) /\ mid.kind = job.db.kind /\ mid.sources = job.db.sources
        /\ DOMAIN mid.rows = DOMAIN job.db.rows \cup {Row(c, clock) : c \in cs}
    BY <1>1, InsertFields DEF RemoteSound, Sound
  <2>5. Sound(mid, past, clock) /\ Native(mid)
    <3>1. f \notin DOMAIN job.db.sources /\ FastName(f) # "scip"
      BY <1>1, ExtractorsAssumption DEF RemoteSound, Untouched
    <3>2. \A c \in cs : c.file = f /\ \E g \in {f} \cup GoFiles : Made(c, FastName(f), g)
      BY <2>2 DEF Made
    <3> QED BY <1>1, <2>3, <3>1, <3>2, InsertSound DEF RemoteSound
  <2>6. FullAt(mid, f, past, clock)
    BY <1>1, <2>1, <2>3, StoredFull DEF RemoteSound, Sound
  <2>7. Sound(db, past, clock)
    BY <2>3, <2>5, <2>6, MarkSound
  <2> HIDE DEF cs, mid
  <2>8. /\ db.kind = job.db.kind /\ db.rows = mid.rows
        /\ DOMAIN db.sources = DOMAIN job.db.sources \cup {f}
    BY <2>4, SourceFields
  <2> HIDE DEF db
  <2>9. ASSUME NEW g \in job.todo \ {f} PROVE Untouched(db, g)
    <3>1. \A c \in cs : c.file # g
      BY <2>2, <2>9 DEF Made
    <3>2. FastRows(mid, g) = FastRows(job.db, g)
      BY <2>4, <3>1, FastApart
    <3> QED BY <1>1, <2>8, <2>9, <3>2 DEF RemoteSound, Untouched, FastRows
  <2>10. RemoteSound(j, past, clock)
    BY <1>1, <2>5, <2>7, <2>8, <2>9 DEF RemoteSound, Native
  <2> HIDE DEF j
  <2> QED BY <2>1, <2>10, OnlyInv DEF JobSound
<1>3. CASE RemoteFileFails(f)
  <2>1. RemoteSound([job EXCEPT !.todo = @ \ {f}], past, clock)
    BY <1>1 DEF RemoteSound
  <2> QED BY <1>3, <2>1, OnlyInv DEF RemoteFileFails, JobSound
<1> QED BY <1>2, <1>3

-----------------------------------------------------------------------------
(* The writers of the published database *)

LEMMA FlagFields ==
  ASSUME NEW db, IsDB(db)
  PROVE  /\ IsDB([db EXCEPT !.imported = TRUE]) /\ IsDB([db EXCEPT !.enriched = TRUE])
         /\ \A new \in {[db EXCEPT !.imported = TRUE], [db EXCEPT !.enriched = TRUE]} :
              new.rows = db.rows /\ new.sources = db.sources /\ new.kind = db.kind
BY DEF IsDB

LEMMA ExistingInv ==
  ASSUME Inv, NEW db, Existing(db), Sound(db, past, clock), ScipOnce(db), IndexSound'
  PROVE  Inv'
BY DEF Inv, Existing, TreeSound, PublishedSound

LEMMA AnsweredInv == ASSUME Inv, Answered PROVE Inv'
<1>1. PICK answer \in Answers :
        LET cs == ParseResponse(call.path, call.symbols, answer)
        IN  \E verdict \in [cs -> {"accept", "downgrade", "reject"}] :
              \E stored \in SUBSET Verify(cs, verdict) :
                Existing([Replace(published, call.path, stored, clock) EXCEPT !.enriched = TRUE])
  BY DEF Answered
<1>2. PICK verdict :
        \E stored \in SUBSET Verify(ParseResponse(call.path, call.symbols, answer), verdict) :
          Existing([Replace(published, call.path, stored, clock) EXCEPT !.enriched = TRUE])
  BY <1>1
<1>3. PICK stored \in SUBSET Verify(ParseResponse(call.path, call.symbols, answer), verdict) :
        Existing([Replace(published, call.path, stored, clock) EXCEPT !.enriched = TRUE])
  BY <1>2
<1> DEFINE p == call.path
           db == Replace(published, p, stored, clock)
           new == [db EXCEPT !.enriched = TRUE]
<1>4. \A c \in stored : /\ c.extractor = "llm-semantic" /\ c.path = p
                        /\ \E i \in answer : i.text = c.text
  BY VerifyMade
<1>5. Sound(published, past, clock) /\ ScipOnce(published) /\ clock \in Nat
  BY <1>3 DEF Existing, Inv, PublishedSound, TreeSound
<1> HIDE DEF p
<1>6. Sound(db, past, clock) /\ ScipOnce(db)
  BY <1>4, <1>5, ReplaceSound, ReplaceOnce DEF Sound
<1> HIDE DEF db
<1>7. Sound(new, past, clock) /\ ScipOnce(new)
  BY <1>6, FlagFields, AlikeSound DEF Sound
<1>8. Existing(new) /\ IndexSound'
  BY <1>3 DEF db, p, Answered, Inv, IndexSound
<1> HIDE DEF new
<1> QED BY <1>7, <1>8, ExistingInv

LEMMA OpenIndexInv == ASSUME Inv, OpenIndex PROVE Inv'
<1>1. index' = [stage |-> "open", tree |-> tree, todo |-> GoFiles \cap Present(tree),
                external |-> External]
  BY DEF OpenIndex
<1>2. \A f \in GoFiles \cap Present(tree) : tree[f] \in Contents[f]
  BY DEF Inv, TreeSound, Present
<1>3. IndexSound'
  BY <1>1, <1>2 DEF IndexSound
<1> QED BY <1>3 DEF Inv, OpenIndex, TreeSound, PublishedSound

LEMMA ImportDocumentInv == ASSUME Inv, NEW f \in GoFiles, ImportDocument(f) PROVE Inv'
<1> DEFINE db == ImportDocumentInto(published, f, index.tree, clock)
           new == [db EXCEPT !.imported = TRUE]
<1>1. Sound(published, past, clock) /\ ScipOnce(published) /\ clock \in Nat
  BY DEF ImportDocument, Existing, Inv, PublishedSound, TreeSound
<1>2. index.stage = "open" /\ f \in index.todo /\ f \in Files /\ index.tree[f] \in Contents[f]
  BY DEF ImportDocument, Inv, IndexSound, GoFiles
<1>3. Sound(db, past, clock) /\ ScipOnce(db)
  BY <1>1, <1>2, ImportSound
<1> HIDE DEF db
<1>4. Sound(new, past, clock) /\ ScipOnce(new)
  BY <1>3, FlagFields, AlikeSound DEF Sound
<1>5. Existing(new) /\ index' = [index EXCEPT !.todo = @ \ {f}]
  BY DEF ImportDocument, db
<1>6. IndexSound'
  BY <1>2, <1>5 DEF Inv, IndexSound
<1> HIDE DEF new
<1> QED BY <1>4, <1>5, <1>6, ExistingInv

LEMMA ImportExternalInv == ASSUME Inv, NEW e \in External, ImportExternal(e) PROVE Inv'
<1> DEFINE db == Insert(published, ExternalClaims(e), clock)
           new == [db EXCEPT !.imported = TRUE]
<1>1. Sound(published, past, clock) /\ ScipOnce(published) /\ clock \in Nat
  BY DEF ImportExternal, Existing, Inv, PublishedSound, TreeSound
<1>2. Sound(db, past, clock) /\ ScipOnce(db)
  BY <1>1, ExternalSound
<1> HIDE DEF db
<1>3. Sound(new, past, clock) /\ ScipOnce(new)
  BY <1>2, FlagFields, AlikeSound DEF Sound
<1>4. Existing(new) /\ index.stage = "open" /\ index' = [index EXCEPT !.external = @ \ {e}]
  BY DEF ImportExternal, db
<1>5. IndexSound'
  BY <1>4 DEF Inv, IndexSound
<1> HIDE DEF new
<1> QED BY <1>3, <1>4, <1>5, ExistingInv

-----------------------------------------------------------------------------
(* Theorems *)

LEMMA NextInv == ASSUME Inv, [Next]_vars PROVE Inv'
<1>1. CASE \E f \in Files : \E u \in Contents[f] \cup {Absent} : Edit(f, u)
  BY <1>1, EditInv
<1>2. CASE Local
  <2>1. CASE Begin \/ LoadGo \/ LoadGoFails \/ StoreGo
    BY <2>1, BeginInv, LoadInv, StoreGoInv
  <2>2. CASE \E f \in Others : SkipOther(f) \/ ReadOther(f)
    BY <2>2, SkipOtherInv, ReadOtherInv
  <2>3. CASE StoreOther \/ StoreOtherFails \/ HashOther \/ Walked
    BY <2>3, StoreOtherInv, HashOtherInv, WalkedInv
  <2>4. CASE \E p \in ImportPaths(job.db) : Generate(p)
    BY <2>4, GenerateInv
  <2>5. CASE Gate \/ Seed \/ Publish \/ Fail
    BY <2>5, GateInv, SeedInv, PublishInv, FailInv
  <2> QED BY <1>2, <2>1, <2>2, <2>3, <2>4, <2>5 DEF Local
<1>3. CASE Remote
  BY <1>3, BeginRemoteInv, RemoteFileInv, PublishInv DEF Remote
<1>4. CASE Writers
  <2>1. CASE (\E p \in ImportPaths(published) : Ask(p)) \/ CallFails
    BY <2>1 DEF Ask, CallFails, Inv, TreeSound, PublishedSound, IndexSound
  <2>2. CASE Answered
    BY <2>2, AnsweredInv
  <2>3. CASE OpenIndex
    BY <2>3, OpenIndexInv
  <2>4. CASE CloseIndex
    BY <2>4 DEF CloseIndex, NoIndex, Inv, TreeSound, PublishedSound, IndexSound
  <2>5. CASE \E f \in GoFiles : ImportDocument(f)
    BY <2>5, ImportDocumentInv
  <2>6. CASE \E e \in External : ImportExternal(e)
    BY <2>6, ImportExternalInv
  <2> QED BY <1>4, <2>1, <2>2, <2>3, <2>4, <2>5, <2>6 DEF Writers
<1>5. CASE UNCHANGED vars
  BY <1>5 DEF vars, Inv, TreeSound, PublishedSound, IndexSound
<1> QED BY <1>1, <1>2, <1>3, <1>4, <1>5 DEF Next

\* The databases and the extraction are sound in every state.
THEOREM InvHolds == Spec => []Inv
<1>1. Init => Inv
  BY InitInv
<1>2. Inv /\ [Next]_vars => Inv'
  BY NextInv
<1> QED BY <1>1, <1>2, PTL DEF Spec

\* In every state a local extraction that is about to publish (main.go, after
\* the confidence gate) holds no sensitive text and no weak semantic claim.
THEOREM ScreenedHolds == Spec => []Screened
<1>1. Inv => Screened
  <2> SUFFICES ASSUME Inv, job.stage = "publish" PROVE Clean(job.db)
    BY DEF Screened, Clean
  <2> QED BY DEF Inv, JobSound, LocalSound, RemoteSound, NoJob, Screening
<1> QED BY <1>1, InvHolds, PTL

\* In every state an entry of source_files that IsCacheHit may take for
\* current has all the claims of one content its file had.
THEOREM HitHasClaimsHolds == Spec => []HitHasClaims
<1>1. Inv => HitHasClaims
  <2> SUFFICES ASSUME Inv, NEW db \in Databases, NEW f \in DOMAIN db.sources,
                      NEW h \in Contents[f], IsCacheHit(db, f, h)
               PROVE  \E t \in past : t[f] # Absent /\ Complete(db, f, t[f])
    BY DEF HitHasClaims
  <2>1. Sound(db, past, clock)
    BY DEF Databases, Inv, JobSound, LocalSound, RemoteSound, NoJob, PublishedSound, NoDB
  <2>2. f \in Files
    BY <2>1 DEF Sound, Hits
  <2>3. Marked(db.sources[f])
    BY <2>2, ClaimsAssumption DEF IsCacheHit, Marked
  <2>4. FullAt(db, f, past, clock)
    BY <2>1, <2>3 DEF Sound, Hits
  <2>5. PICK t \in past, at \in 1 .. clock :
          t[f] # Absent /\ FastRows(db, f) = {Row(c, at) : c \in Stored(db.kind, f, t[f])}
    BY <2>4 DEF FullAt
  <2>6. Complete(db, f, t[f])
    BY <2>5 DEF Complete, Stored
  <2> QED BY <2>5, <2>6
<1> QED BY <1>1, InvHolds, PTL

\* In every state the semantic claims of a path stem from one answer of the
\* model, and a claim of an index is there no more often than one content of
\* its document makes it: GenerateForPackage and importDocument delete first.
THEOREM ReplacedHolds == Spec => []Replaced
<1>1. Inv => OneAnswer
  <2> SUFFICES ASSUME Inv, NEW db \in Databases, NEW p \in ImportPaths(db)
               PROVE  \E answer \in Answers :
                        {r.text : r \in {r \in DOMAIN db.rows :
                                           r.path = p /\ r.pred \in SemanticOnly}}
                          \subseteq {i.text : i \in answer}
    BY DEF OneAnswer
  <2>1. Sound(db, past, clock)
    BY DEF Databases, Inv, JobSound, LocalSound, RemoteSound, NoJob, PublishedSound, NoDB
  <2>2. PICK answer \in Answers : \A r \in DOMAIN db.rows :
          r.path = p /\ r.pred \in SemanticOnly => \E i \in answer : i.text = r.text
    BY <2>1 DEF Sound, FromAnswers
  <2> QED BY <2>2
<1>2. Inv => ImportedOnce
  BY DEF Inv, PublishedSound, ScipOnce, ImportedOnce, NoDB, Homonyms
<1> QED BY <1>1, <1>2, InvHolds, PTL DEF Replaced

\* No step of a writer of the published database loses a structural claim,
\* except those an index made of the document being imported:
\* DeleteClaimsByExtractorAndImportPath takes only semantic predicates.
THEOREM StructuralKeptHolds == Spec => StructuralKept
<1> DEFINE Keeps ==
      (published # NoDB /\ published' # NoDB /\ jobs' = jobs /\ job' = job) =>
         \A r \in DOMAIN Structural(published.rows) :
           \/ BagIn(r, published'.rows)
           \/ r.extractor = "scip" /\ index.stage = "open" /\ r.file \in index.todo
<1>1. ASSUME Inv, [Next]_vars PROVE Keeps
  <2> SUFFICES ASSUME published # NoDB, published' # published, job' = job,
                      NEW r \in DOMAIN Structural(published.rows)
               PROVE  \/ r \in DOMAIN published'.rows
                      \/ r.extractor = "scip" /\ index.stage = "open" /\ r.file \in index.todo
    BY DEF BagIn, BagToSet, Structural, Where, Restrict
  <2>1. r \in DOMAIN published.rows /\ r.pred \notin SemanticOnly
    BY DEF Structural, Where, Restrict
  <2>2. IsDB(published)
    BY <1>1 DEF Inv, PublishedSound, Sound
  <2>3. \/ Publish \/ RemoteDone \/ Answered
        \/ \E f \in GoFiles : ImportDocument(f)
        \/ \E e \in External : ImportExternal(e)
    <3>1. ASSUME Local PROVE Publish \/ published' = published
      BY <3>1 DEF Local, Begin, LoadGo, LoadGoFails, StoreGo, SkipOther, ReadOther, StoreOther,
           StoreOtherFails, HashOther, Walked, Generate, Gate, Seed, Fail, Only
    <3>2. ASSUME Remote PROVE RemoteDone \/ published' = published
      BY <3>2 DEF Remote, BeginRemote, RemoteFile, RemoteFileFails, Only
    <3>3. ASSUME Writers
          PROVE  \/ Answered \/ published' = published
                 \/ \E f \in GoFiles : ImportDocument(f)
                 \/ \E e \in External : ImportExternal(e)
      BY <3>3 DEF Writers, Ask, CallFails, OpenIndex, CloseIndex
    <3> QED BY <1>1, <3>1, <3>2, <3>3 DEF Next, Edit, vars
  <2>4. ~Publish /\ ~RemoteDone
    BY DEF Publish, RemoteDone, NoJob
  <2>5. CASE Answered
    <3>1. PICK stored : published' = [Replace(published, call.path, stored, clock)
                                        EXCEPT !.enriched = TRUE]
      BY <2>5 DEF Answered, Existing
    <3> DEFINE db == Replace(published, call.path, stored, clock)
    <3>2. IsDB(db) /\ r \in DOMAIN db.rows
      BY <2>1, <2>2, ReplaceFields
    <3> HIDE DEF db
    <3>3. published'.rows = db.rows
      BY <3>1, <3>2, FlagFields DEF db
    <3> QED BY <3>2, <3>3
  <2>6. ASSUME NEW f \in GoFiles, ImportDocument(f), ~(r.extractor = "scip" /\ r.file = f)
        PROVE  r \in DOMAIN published'.rows
    <3> DEFINE marked == UpsertSource(published, f, None, "0.1.0")
               rest == DeleteByExtractorAndFile(marked.rows, "scip", f)
               less == [marked EXCEPT !.rows = rest]
               db == Insert(less, DocumentClaims(index.tree, f), clock)
    <3>1. published' = [db EXCEPT !.imported = TRUE]
      BY <2>6 DEF ImportDocument, Existing, ImportDocumentInto
    <3>2. IsDB(marked) /\ marked.rows = published.rows
      BY <2>2, SourceFields
    <3> HIDE DEF marked
    <3>3. r \in DOMAIN rest
      BY <2>1, <2>6, <3>2 DEF DeleteByExtractorAndFile, Where, Restrict
    <3> HIDE DEF rest
    <3>4. IsDB(less) /\ less.rows = rest
      BY <3>2, RowsFields
    <3> HIDE DEF less
    <3>5. IsDB(db) /\ r \in DOMAIN db.rows
      BY <3>3, <3>4, InsertFields
    <3> HIDE DEF db
    <3>6. published'.rows = db.rows
      BY <3>1, <3>5, FlagFields
    <3> QED BY <3>5, <3>6
  <2>7. ASSUME NEW f \in GoFiles, ImportDocument(f)
        PROVE  index.stage = "open" /\ f \in index.todo
    BY <2>7 DEF ImportDocument
  <2>8. ASSUME NEW e \in External, ImportExternal(e)
        PROVE  r \in DOMAIN published'.rows
    <3> DEFINE db == Insert(published, ExternalClaims(e), clock)
    <3>1. published' = [db EXCEPT !.imported = TRUE]
      BY <2>8 DEF ImportExternal, Existing
    <3>2. IsDB(db) /\ r \in DOMAIN db.rows
      BY <2>1, <2>2, InsertFields
    <3> HIDE DEF db
    <3>3. published'.rows = db.rows
      BY <3>1, <3>2, FlagFields
    <3> QED BY <3>2, <3>3
  <2> QED BY <2>3, <2>4, <2>5, <2>6, <2>7, <2>8
<1>2. Keeps <=> ((published # NoDB /\ published' # NoDB /\ jobs' = jobs /\ job' = job) =>
         \A r \in DOMAIN Structural(published.rows) :
           \/ BagIn(r, published'.rows)
           \/ r.extractor = "scip" /\ index.stage = "open" /\ r.file \in index.todo)
  OBVIOUS
<1> HIDE DEF Keeps
<1> QED BY <1>1, <1>2, InvHolds, PTL DEF Spec, StructuralKept

-----------------------------------------------------------------------------
(* Sums over bags *)

\* What a set has when it has it whenever all smaller sets do.
LEMMA FiniteInduction ==
  ASSUME NEW S, IsFiniteSet(S), NEW G,
         \A T \in SUBSET S : (\A x \in T : T \ {x} \in G) => T \in G
  PROVE  S \in G
<1> DEFINE B == (SUBSET S) \ G
<1>1. SUFFICES ASSUME B # {} PROVE FALSE
  OBVIOUS
<1>2. IsWellFoundedOn(StrictSubsetOrdering(S), SUBSET S)
  BY FS_StrictSubsetOrderingWellFounded, FS_FiniteSubsetsOfFinite
<1>3. PICK T \in B : \A U \in B : ~ (<<U, T>> \in StrictSubsetOrdering(S))
  <2> HIDE DEF B
  <2>1. B \subseteq SUBSET S
    BY DEF B
  <2> QED BY <1>1, <1>2, <2>1, WFMin
<1>4. ASSUME NEW x \in T PROVE T \ {x} \in G
  <2>1. T \ {x} \in SUBSET S /\ T \ {x} # T /\ T \ {x} \subseteq T
    BY <1>4
  <2>2. CASE T \ {x} \in B
    <3>1. ~ (<<T \ {x}, T>> \in StrictSubsetOrdering(S))
      BY <1>3, <2>2
    <3> QED BY <2>1, <3>1 DEF StrictSubsetOrdering
  <2> QED BY <2>1, <2>2
<1> QED BY <1>3, <1>4

\* The sums of a function over the sets of its arguments.
Pick(s) == CHOOSE x \in s : TRUE
Sums(f, T, it) ==
  it = [s \in SUBSET T |-> IF s = {} THEN 0 ELSE f[Pick(s)] + it[s \ {Pick(s)}]]

LEMMA SumsAgree ==
  ASSUME NEW f, NEW T, NEW U, IsFiniteSet(U), U \subseteq T, NEW a, Sums(f, T, a),
         NEW V, U \subseteq V, NEW b, Sums(f, V, b)
  PROVE  a[U] = b[U]
<1> DEFINE G == {s \in SUBSET U : a[s] = b[s]}
<1>1. ASSUME NEW s \in SUBSET U, \A x \in s : s \ {x} \in G
      PROVE  s \in G
  <2>1. s \in SUBSET T /\ s \in SUBSET V
    OBVIOUS
  <2>2. /\ a[s] = IF s = {} THEN 0 ELSE f[Pick(s)] + a[s \ {Pick(s)}]
        /\ b[s] = IF s = {} THEN 0 ELSE f[Pick(s)] + b[s \ {Pick(s)}]
    BY <2>1 DEF Sums
  <2>3. s # {} => Pick(s) \in s
    BY DEF Pick
  <2> QED BY <1>1, <2>2, <2>3
<1> HIDE DEF G
<1>2. U \in G
  BY <1>1, FiniteInduction
<1> QED BY <1>2 DEF G

LEMMA SumsExist ==
  ASSUME NEW f, NEW D, IsFiniteSet(D)
  PROVE  \E it : Sums(f, D, it)
<1> DEFINE G == {T \in SUBSET D : \E it : Sums(f, T, it)}
<1>1. ASSUME NEW T \in SUBSET D, \A x \in T : T \ {x} \in G
      PROVE  T \in G
  <2> DEFINE of == [x \in T |-> CHOOSE it : Sums(f, T \ {x}, it)]
             Out(s) == Pick(T \ s)
             it == [s \in SUBSET T |->
                      IF s # T THEN of[Out(s)][s]
                      ELSE IF s = {} THEN 0 ELSE f[Pick(s)] + of[Pick(s)][s \ {Pick(s)}]]
  <2>1. \A x \in T : Sums(f, T \ {x}, of[x])
    BY <1>1
  <2> HIDE DEF of
  <2>2. ASSUME NEW s \in SUBSET T, s # T PROVE Out(s) \in T /\ Out(s) \notin s
    <3>1. T \ s # {}
      BY <2>2
    <3> QED BY <3>1 DEF Pick
  <2> HIDE DEF Out
  <2>3. ASSUME NEW s \in SUBSET T, NEW x \in T \ s PROVE it[s] = of[x][s]
    <3>1. Out(s) \in T /\ Out(s) \notin s /\ s # T
      BY <2>2
    <3>2. IsFiniteSet(s) /\ s \subseteq T \ {x} /\ s \subseteq T \ {Out(s)}
      BY <3>1, FS_Subset
    <3> DEFINE V == T \ {x}
               W == T \ {Out(s)}
               a == of[x]
               b == of[Out(s)]
    <3>3. Sums(f, V, a) /\ Sums(f, W, b)
      BY <2>1, <3>1
    <3>4. it[s] = b[s]
      BY <3>1
    <3> HIDE DEF V, W, a, b, it
    <3>5. a[s] = b[s]
      BY <3>2, <3>3, SumsAgree DEF V, W
    <3> QED BY <3>4, <3>5 DEF a
  <2>4. ASSUME NEW s \in SUBSET T
        PROVE  it[s] = IF s = {} THEN 0 ELSE f[Pick(s)] + it[s \ {Pick(s)}]
    <3>1. s # {} => Pick(s) \in s /\ s \ {Pick(s)} \in SUBSET T
      BY DEF Pick
    <3>2. CASE s = T
      <4>1. it[s] = IF s = {} THEN 0 ELSE f[Pick(s)] + of[Pick(s)][s \ {Pick(s)}]
        BY <3>2
      <4>2. s # {} => it[s \ {Pick(s)}] = of[Pick(s)][s \ {Pick(s)}]
        BY <2>3, <3>1, <3>2
      <4> HIDE DEF it
      <4> QED BY <4>1, <4>2
    <3>3. CASE s # T
      <4> DEFINE x == Out(s)
      <4>1. x \in T /\ x \notin s
        BY <2>2, <3>3
      <4>2. s \in SUBSET (T \ {x})
        BY <4>1
      <4> HIDE DEF x
      <4>3. of[x][s] = IF s = {} THEN 0 ELSE f[Pick(s)] + of[x][s \ {Pick(s)}]
        BY <2>1, <4>1, <4>2 DEF Sums
      <4>4. it[s] = of[x][s] /\ (s # {} => it[s \ {Pick(s)}] = of[x][s \ {Pick(s)}])
        BY <2>3, <3>1, <4>1
      <4> HIDE DEF it
      <4> QED BY <4>3, <4>4
    <3> QED BY <3>2, <3>3
  <2>5. Sums(f, T, it)
    <3>1. it = [s \in SUBSET T |-> it[s]]
      OBVIOUS
    <3> HIDE DEF it
    <3> QED BY <2>4, <3>1 DEF Sums
  <2> QED BY <2>5
<1> HIDE DEF G
<1>2. D \in G
  BY <1>1, FiniteInduction
<1> QED BY <1>2 DEF G

\* The sum of a function to positive numbers is zero only when there is nothing to sum.
LEMMA SumPositive ==
  ASSUME NEW f, IsFiniteSet(DOMAIN f), \A x \in DOMAIN f : f[x] \in Nat \ {0}
  PROVE  /\ SumFunction(f) \in Nat
         /\ SumFunction(f) = 0 <=> DOMAIN f = {}
<1> DEFINE D == DOMAIN f
           it == CHOOSE it : Sums(f, D, it)
<1>1. Sums(f, D, it)
  BY SumsExist
<1>2. SumFunction(f) = it[D]
  BY DEF SumFunction, SumFunctionOnSet, FoldFunctionOnSet, MapThenFoldSet, Sums, Pick
<1> HIDE DEF it
<1> DEFINE G == {T \in SUBSET D : it[T] \in Nat /\ (it[T] = 0 <=> T = {})}
<1>3. ASSUME NEW T \in SUBSET D, \A x \in T : T \ {x} \in G
      PROVE  T \in G
  <2>1. it[T] = IF T = {} THEN 0 ELSE f[Pick(T)] + it[T \ {Pick(T)}]
    BY <1>1 DEF Sums
  <2>2. CASE T = {}
    BY <2>1, <2>2
  <2>3. CASE T # {}
    <3>1. Pick(T) \in T
      BY <2>3 DEF Pick
    <3>2. it[T \ {Pick(T)}] \in Nat
      BY <1>3, <3>1
    <3>3. it[T] = f[Pick(T)] + it[T \ {Pick(T)}] /\ f[Pick(T)] \in Nat \ {0}
      BY <2>1, <2>3, <3>1
    <3> QED BY <2>3, <3>2, <3>3
  <2> QED BY <2>2, <2>3
<1> HIDE DEF G
<1>4. D \in G
  BY <1>3, FiniteInduction
<1> QED BY <1>2, <1>4 DEF G

-----------------------------------------------------------------------------
(* What the claims of a tree say *)

Alike(c, b) == /\ c.path = b.path /\ c.name = b.name /\ c.kind = b.kind /\ c.vis = b.vis
               /\ c.file = b.file /\ c.line = b.line

LEMMA ClaimFields ==
  ASSUME NEW ext, NEW p, NEW name, NEW kind, NEW vis, NEW f, NEW line, NEW scip
  PROVE  LET b == Claim(ext, p, name, kind, vis, f, line, scip)
         IN /\ IsClaim(b) /\ b.path = p /\ b.name = name /\ b.kind = kind /\ b.vis = vis
            /\ b.file = f /\ b.line = line /\ b.pred = "defines" /\ b.text = Blank
BY DEF Claim, IsClaim

LEMMA SaysAlike ==
  ASSUME NEW b, IsClaim(b), NEW pred, NEW text
  PROVE  /\ Alike(Says(b, pred, text), b) /\ IsClaim(Says(b, pred, text))
         /\ Says(b, pred, text).pred = pred /\ Says(b, pred, text).text = text
BY DEF Says, IsClaim, Alike

LEMMA NamesAlike ==
  ASSUME NEW b, IsClaim(b), NEW pred, NEW other
  PROVE  /\ Alike(Names(b, pred, other), b)
         /\ Names(b, pred, other).pred = pred /\ Names(b, pred, other).text = b.text
         /\ Names(b, pred, other).object = other
BY DEF Names, IsClaim, Alike

LEMMA DocAlike ==
  ASSUME NEW b, IsClaim(b), NEW text
  PROVE  /\ Alike([Says(b, "has_doc", text) EXCEPT !.conf = 85], b)
         /\ [Says(b, "has_doc", text) EXCEPT !.conf = 85].pred = "has_doc"
         /\ [Says(b, "has_doc", text) EXCEPT !.conf = 85].text = text
<1> DEFINE c == Says(b, "has_doc", text)
<1>1. Alike(c, b) /\ IsClaim(c) /\ c.pred = "has_doc" /\ c.text = text
  BY SaysAlike
<1> HIDE DEF c
<1>2. /\ Alike([c EXCEPT !.conf = 85], c) /\ [c EXCEPT !.conf = 85].pred = c.pred
      /\ [c EXCEPT !.conf = 85].text = c.text
  BY <1>1 DEF IsClaim, Alike
<1> QED BY <1>1, <1>2 DEF Alike, c

\* What a claim is about: a declaration, or its package.
GoKind(d) == IF d.kind = "method" THEN "method" ELSE ObjectKind(d)
OfDecl(c, f, d) ==
  /\ c.file = f /\ c.name = SubjectOf(f, d) /\ c.kind = GoKind(d) /\ c.vis = GoVisibility(d)
  /\ c.line = d.line
OfPackage(c, p) == c.name = p /\ c.kind = "module" /\ c.pred \in {"encloses", "imports"}

\* What the readers of a database rely on.
Discreet(c) ==
  /\ c.pred \notin SemanticOnly
  /\ c.pred = "has_kind" => c.text # "interface"
  /\ c.pred \in {"is_test", "imports", "exports", "implements"} => c.text = Blank

About(c, p, f, d) ==
  c.path = p /\ c.file = f /\ Discreet(c) /\ (OfDecl(c, f, d) \/ OfPackage(c, p))

Told(t, p, c) ==
  /\ c.path = p /\ c.file \in PackageFiles(t, p) /\ Discreet(c)
  /\ \/ \E d \in t[c.file].decls : OfDecl(c, c.file, d)
     \/ OfPackage(c, p)

LEMMA ObjectTold ==
  ASSUME NEW p, NEW f, NEW u, NEW d, d.kind # "method",
         NEW c \in ObjectClaims(p, f, u, d)
  PROVE  About(c, p, f, d)
<1> DEFINE ours == ObjectKind(d)
           base == Claim("go-deep", p, d.name, ours, GoVisibility(d), f, d.line,
                         FormatGoSymbol(p, Blank, d.name, ours))
           package == Claim("go-deep", p, p, "module", "public", f, d.line, NoScip)
<1>1. \/ c = base \/ c = Names(package, "encloses", d.name)
      \/ \E pred \in {"exports", "is_test", "is_generated"} : c = Says(base, pred, Blank)
      \/ c = Says(base, "has_kind", ours) \/ c = Says(base, "has_signature", d.sig)
      \/ c = [Says(base, "has_doc", d.doc) EXCEPT !.conf = 85]
  BY DEF ObjectClaims, If
<1>2. /\ IsClaim(base) /\ base.path = p /\ OfDecl(base, f, d)
      /\ base.pred = "defines" /\ base.text = Blank
  BY DEF Claim, IsClaim, OfDecl, GoKind, SubjectOf
<1>3. /\ IsClaim(package) /\ package.path = p /\ package.name = p /\ package.kind = "module"
      /\ package.file = f
  BY DEF Claim, IsClaim
<1>4. ours # "interface"
  BY DEF ObjectKind
<1> HIDE DEF ours, base, package
<1>5. ASSUME Alike(c, base), Discreet(c) PROVE About(c, p, f, d)
  BY <1>2, <1>5 DEF About, Alike, OfDecl
<1>6. CASE c = base
  BY <1>2, <1>6, <1>5 DEF Alike, Discreet, SemanticOnly
<1>7. CASE c = Names(package, "encloses", d.name)
  <2>1. Alike(c, package) /\ c.pred = "encloses"
    BY <1>3, <1>7, NamesAlike
  <2> QED BY <1>3, <2>1 DEF Alike, About, OfPackage, Discreet, SemanticOnly
<1>8. ASSUME NEW pred \in {"exports", "is_test", "is_generated"}, c = Says(base, pred, Blank)
      PROVE  About(c, p, f, d)
  <2>1. Alike(c, base) /\ c.pred = pred /\ c.text = Blank
    BY <1>2, <1>8, SaysAlike
  <2> QED BY <1>5, <2>1 DEF Discreet, SemanticOnly
<1>9. CASE c = Says(base, "has_kind", ours)
  <2>1. Alike(c, base) /\ c.pred = "has_kind" /\ c.text = ours
    BY <1>2, <1>9, SaysAlike
  <2> QED BY <1>4, <1>5, <2>1 DEF Discreet, SemanticOnly
<1>10. CASE c = Says(base, "has_signature", d.sig)
  <2>1. Alike(c, base) /\ c.pred = "has_signature"
    BY <1>2, <1>10, SaysAlike
  <2> QED BY <1>5, <2>1 DEF Discreet, SemanticOnly
<1>11. CASE c = [Says(base, "has_doc", d.doc) EXCEPT !.conf = 85]
  <2>1. Alike(c, base) /\ c.pred = "has_doc"
    BY <1>2, <1>11, DocAlike
  <2> QED BY <1>5, <2>1 DEF Discreet, SemanticOnly
<1> QED BY <1>1, <1>6, <1>7, <1>8, <1>9, <1>10, <1>11

LEMMA MethodTold ==
  ASSUME NEW p, NEW f \in GoFiles, NEW d, d.kind = "method",
         NEW c \in MethodClaims(p, f, d)
  PROVE  About(c, p, f, d)
<1> DEFINE base == Claim("go-deep", p, Qualified(d.owner, d.name), "method",
                         GoVisibility(d), f, d.line,
                         FormatGoSymbol(p, d.owner, d.name, "method"))
<1>1. \/ c = base \/ c = Says(base, "has_kind", "method")
      \/ c = Says(base, "has_signature", d.sig) \/ c = Says(base, "exports", Blank)
      \/ c = [Says(base, "has_doc", d.doc) EXCEPT !.conf = 85]
  BY DEF MethodClaims, If
<1>2. /\ IsClaim(base) /\ base.path = p /\ OfDecl(base, f, d)
      /\ base.pred = "defines" /\ base.text = Blank
  BY ClaimFields DEF OfDecl, GoKind, SubjectOf
<1> HIDE DEF base
<1>3. ASSUME Alike(c, base), Discreet(c) PROVE About(c, p, f, d)
  BY <1>2, <1>3 DEF About, Alike, OfDecl
<1>4. CASE c = base
  BY <1>2, <1>4, <1>3 DEF Alike, Discreet, SemanticOnly
<1>5. CASE c = Says(base, "has_kind", "method")
  <2>1. Alike(c, base) /\ c.pred = "has_kind" /\ c.text = "method"
    BY <1>2, <1>5, SaysAlike
  <2> QED BY <1>3, <2>1 DEF Discreet, SemanticOnly
<1>6. CASE c = Says(base, "has_signature", d.sig)
  <2>1. Alike(c, base) /\ c.pred = "has_signature"
    BY <1>2, <1>6, SaysAlike
  <2> QED BY <1>3, <2>1 DEF Discreet, SemanticOnly
<1>7. CASE c = Says(base, "exports", Blank)
  <2>1. Alike(c, base) /\ c.pred = "exports" /\ c.text = Blank
    BY <1>2, <1>7, SaysAlike
  <2> QED BY <1>3, <2>1 DEF Discreet, SemanticOnly
<1>8. CASE c = [Says(base, "has_doc", d.doc) EXCEPT !.conf = 85]
  <2>1. Alike(c, base) /\ c.pred = "has_doc"
    BY <1>2, <1>8, DocAlike
  <2> QED BY <1>3, <2>1 DEF Discreet, SemanticOnly
<1> QED BY <1>1, <1>4, <1>5, <1>6, <1>7, <1>8

\* The claims of a tree that are about a package.
LEMMA GoTold ==
  ASSUME NEW t, NEW c \in GoDeep(t)
  PROVE  \E p \in Packages(t) : Told(t, p, c)
<1>1. ASSUME NEW p \in Packages(t), c \in PackageClaims(t, p)
      PROVE  Told(t, p, c)
  <2> DEFINE fs == PackageFiles(t, p)
             module == Claim("go-deep", p, p, "module", "public", FirstFile(fs), 0, NoScip)
  <2>1. FirstFile(fs) \in fs
    <3>1. fs # {}
      BY <1>1 DEF Packages, PackageFiles
    <3> QED BY <3>1 DEF FirstFile
  <2>2. CASE c \in {Names(module, "imports", i)
                    : i \in UNION {UNION {d.paths : d \in t[f].imports} : f \in fs}}
    <3>1. PICK i : c = Names(module, "imports", i)
      BY <2>2
    <3>2. /\ IsClaim(module) /\ module.path = p /\ module.name = p /\ module.kind = "module"
          /\ module.file = FirstFile(fs) /\ module.text = Blank
      BY ClaimFields
    <3> HIDE DEF module
    <3>3. Alike(c, module) /\ c.pred = "imports" /\ c.text = Blank
      BY <3>1, <3>2, NamesAlike
    <3>4. /\ c.path = p /\ c.name = p /\ c.kind = "module" /\ c.file \in PackageFiles(t, p)
      BY <2>1, <3>2, <3>3 DEF Alike
    <3> QED BY <3>3, <3>4 DEF Told, OfPackage, Discreet, SemanticOnly
  <2>3. ASSUME NEW f \in fs,
               c \in UNION {IF d.kind = "method" THEN MethodClaims(p, f, d)
                           ELSE ObjectClaims(p, f, t[f], d) : d \in t[f].decls}
        PROVE  Told(t, p, c)
    <3>1. PICK d \in t[f].decls :
            c \in IF d.kind = "method" THEN MethodClaims(p, f, d) ELSE ObjectClaims(p, f, t[f], d)
      BY <2>3
    <3>2. f \in GoFiles
      BY DEF PackageFiles
    <3>3. About(c, p, f, d)
      BY <3>1, <3>2, MethodTold, ObjectTold
    <3> QED BY <3>3 DEF About, Told
  <2> QED BY <1>1, <2>2, <2>3 DEF PackageClaims
<1>2. ASSUME c \in ImplementsClaims(t)
      PROVE  \E p \in Packages(t) : Told(t, p, c)
  <2>1. PICK p \in Packages(t), q \in Packages(t) : c \in Between(t, p, q)
    BY <1>2 DEF ImplementsClaims, Pairs
  <2>2. PICK x \in OfKind(t, p, "type"), i \in OfKind(t, q, "interface") :
          c = Implements(p, x, q, i)
    BY <2>1 DEF Between
  <2>3. x.file \in PackageFiles(t, p) /\ x.decl \in t[x.file].decls /\ x.decl.kind = "type"
    BY DEF OfKind, Declared
  <2> DEFINE base == Claim("go-deep", p, x.decl.name, "type", GoVisibility(x.decl), x.file,
                           x.decl.line, FormatGoSymbol(p, Blank, x.decl.name, "type"))
  <2>4. /\ IsClaim(base) /\ base.path = p /\ OfDecl(base, x.file, x.decl) /\ base.text = Blank
    BY <2>3, ClaimFields DEF OfDecl, GoKind, SubjectOf, ObjectKind
  <2>5. c = Names(base, "implements", Qualified(q, i.decl.name))
    BY <2>2 DEF Implements
  <2> HIDE DEF base
  <2>6. Alike(c, base) /\ c.pred = "implements" /\ c.text = Blank
    BY <2>4, <2>5, NamesAlike
  <2>7. c.path = p /\ c.file = x.file /\ OfDecl(c, c.file, x.decl)
    BY <2>4, <2>6 DEF Alike, OfDecl
  <2>8. Discreet(c)
    BY <2>6 DEF Discreet, SemanticOnly
  <2> QED BY <2>3, <2>7, <2>8 DEF Told
<1>3. c \in UNION {PackageClaims(t, p) : p \in Packages(t)} \/ c \in ImplementsClaims(t)
  BY DEF GoDeep
<1> QED BY <1>1, <1>2, <1>3


\* What a claim about another file is about.
FileTold(f, u, c) ==
  /\ c.path = f /\ c.file = f /\ Discreet(c) /\ c.pred \notin {"has_signature", "implements"}
  /\ \/ \E d \in u.decls : c.name = d.name /\ c.line = d.line
     \/ /\ c.pred # "defines"
        /\ c.name \in {f} \cup {ExtractImportPath(f, i) : i \in u.imports}
                      \cup u.comments \cup u.exports

LEMMA BuildFields ==
  ASSUME NEW f, NEW pred, NEW x
  PROVE  LET c == BuildClaim(f, pred, x)
         IN /\ IsClaim(c) /\ c.path = Blank /\ c.file = f /\ c.pred = pred
            /\ c.name = ExtractName(f, pred, x)
            /\ pred = "defines" => c.line = x.line
            /\ pred # "has_doc" => c.text = Blank
<1> DEFINE made == pred = "defines"
           name == ExtractName(f, pred, x)
           kind == IF made THEN FastKind(f, x) ELSE Blank
           vis == IF made THEN InferVisibility(f, x) ELSE "public"
           line == IF made THEN x.line ELSE 1
           object == IF pred \in {"imports", "exports"} THEN name ELSE Blank
           text == IF pred = "has_doc" THEN x ELSE Blank
           base == Claim(FastName(f), Blank, name, kind, vis, f, line, NoScip)
           c == BuildClaim(f, pred, x)
<1>1. IsClaim(base) /\ base.path = Blank /\ base.file = f /\ base.name = name /\ base.line = line
  BY DEF Claim, IsClaim
<1>2. c = [base EXCEPT !.pred = pred, !.object = object, !.text = text]
  BY DEF BuildClaim
<1>3. pred = "defines" => line = x.line
  OBVIOUS
<1>4. pred # "has_doc" => text = Blank
  OBVIOUS
<1> HIDE DEF base, c, name, kind, vis, line, object, text
<1>5. IsClaim(c) /\ c.path = Blank /\ c.file = f /\ c.pred = pred /\ c.name = name /\ c.line = line
      /\ c.text = text
  BY <1>1, <1>2 DEF IsClaim
<1> QED BY <1>3, <1>4, <1>5 DEF c, name

LEMMA TreeTold ==
  ASSUME NEW f, NEW u, NEW c \in Located(TreeSitter(f, u))
  PROVE  FileTold(f, u, c)
<1>1. PICK e \in TreeSitter(f, u) : c = IF e.path = Blank THEN [e EXCEPT !.path = e.file] ELSE e
  BY DEF Located
<1> DEFINE module == Claim(FastName(f), Blank, f, "module", "public", f, 0, NoScip)
           from(pred) == Nodes(f, u)[pred]
           Tells(b) ==
             /\ IsClaim(b) /\ b.path = Blank /\ b.file = f /\ Discreet(b)
             /\ b.pred \notin {"has_signature", "implements"}
             /\ \/ \E d \in u.decls : b.name = d.name /\ b.line = d.line
                \/ /\ b.pred # "defines"
                   /\ b.name \in {f} \cup {ExtractImportPath(f, i) : i \in u.imports}
                                 \cup u.comments \cup u.exports
<1>2. \/ \E pred \in {"defines", "imports", "has_doc", "exports"} :
           \E x \in from(pred) : e = BuildClaim(f, pred, x)
      \/ \E pred \in {"is_test", "is_generated"} : e = Says(module, pred, Blank)
  <2>1. DOMAIN Nodes(f, u) = {"defines", "imports", "has_doc", "exports"}
    BY DEF Nodes
  <2>2. \/ \E pred \in DOMAIN Nodes(f, u) : e \in {BuildClaim(f, pred, x) : x \in Nodes(f, u)[pred]}
        \/ \E pred \in {"is_test", "is_generated"} : e = Says(module, pred, Blank)
    BY DEF TreeSitter, If
  <2> QED BY <2>1, <2>2
<1>3. /\ from("defines") = u.decls /\ from("imports") = u.imports /\ from("has_doc") = u.comments
      /\ from("exports") \subseteq u.exports
  BY DEF Nodes
<1>4. /\ IsClaim(module) /\ module.path = Blank /\ module.file = f /\ module.name = f
  BY DEF Claim, IsClaim
<1> HIDE DEF module, from
<1>5. ASSUME NEW pred \in {"is_test", "is_generated"}, e = Says(module, pred, Blank)
      PROVE  Tells(e)
  <2>1. Alike(e, module) /\ IsClaim(e) /\ e.pred = pred /\ e.text = Blank
    BY <1>4, <1>5, SaysAlike
  <2> QED BY <1>4, <2>1 DEF Alike, Discreet, SemanticOnly
<1>6. ASSUME NEW x \in u.decls, e = BuildClaim(f, "defines", x) PROVE Tells(e)
  <2>1. ExtractName(f, "defines", x) = x.name
    BY DEF ExtractName
  <2>2. /\ IsClaim(e) /\ e.path = Blank /\ e.file = f /\ e.pred = "defines" /\ e.line = x.line
        /\ e.name = x.name
    BY <1>6, <2>1, BuildFields
  <2> QED BY <2>2 DEF Discreet, SemanticOnly
<1>7. ASSUME NEW x \in u.imports, e = BuildClaim(f, "imports", x) PROVE Tells(e)
  <2>1. ExtractName(f, "imports", x) = ExtractImportPath(f, x)
    BY DEF ExtractName
  <2>2. /\ IsClaim(e) /\ e.path = Blank /\ e.file = f /\ e.pred = "imports" /\ e.text = Blank
        /\ e.name = ExtractImportPath(f, x)
    BY <1>7, <2>1, BuildFields
  <2> QED BY <2>2 DEF Discreet, SemanticOnly
<1>8. ASSUME NEW x \in u.comments, e = BuildClaim(f, "has_doc", x) PROVE Tells(e)
  <2>1. ExtractName(f, "has_doc", x) = x
    BY DEF ExtractName
  <2>2. /\ IsClaim(e) /\ e.path = Blank /\ e.file = f /\ e.pred = "has_doc" /\ e.name = x
    BY <1>8, <2>1, BuildFields
  <2> QED BY <2>2 DEF Discreet, SemanticOnly
<1>9. ASSUME NEW x \in u.exports, e = BuildClaim(f, "exports", x) PROVE Tells(e)
  <2>1. ExtractName(f, "exports", x) = x
    BY DEF ExtractName
  <2>2. /\ IsClaim(e) /\ e.path = Blank /\ e.file = f /\ e.pred = "exports" /\ e.text = Blank
        /\ e.name = x
    BY <1>9, <2>1, BuildFields
  <2> QED BY <2>2 DEF Discreet, SemanticOnly
<1>10. Tells(e)
  <2> HIDE DEF Tells
  <2> QED BY <1>2, <1>3, <1>5, <1>6, <1>7, <1>8, <1>9
<1>11. c = [e EXCEPT !.path = f]
  BY <1>1, <1>10
<1>12. /\ c.path = f /\ c.file = f /\ c.pred = e.pred /\ c.text = e.text /\ c.name = e.name
       /\ c.line = e.line
  BY <1>10, <1>11 DEF IsClaim
<1> QED BY <1>10, <1>12 DEF FileTold, Discreet

-----------------------------------------------------------------------------
(* What the reports read of a database *)

\* Every row is there a number of times, and there are finitely many.
Counted(rows) == IsFiniteSet(DOMAIN rows) /\ \A r \in DOMAIN rows : rows[r] \in Nat \ {0}

\* The columns only an extraction sets.
SameHead(new, db) ==
  /\ new.since = db.since /\ new.done = db.done /\ new.kind = db.kind
  /\ new.imported = db.imported

LEMMA InsertHead ==
  ASSUME NEW db, IsDB(db), NEW cs, NEW at
  PROVE  LET new == Insert(db, cs, at)
         IN  SameHead(new, db) /\ new.syms = UpsertSymbols(db.syms, cs)
BY DEF IsDB, Insert, SameHead

LEMMA EditHead ==
  ASSUME NEW db, IsDB(db)
  PROVE  /\ \A rows : /\ SameHead([db EXCEPT !.rows = rows], db)
                      /\ [db EXCEPT !.rows = rows].syms = db.syms
         /\ \A sources : /\ SameHead([db EXCEPT !.sources = sources], db)
                         /\ [db EXCEPT !.sources = sources].syms = db.syms
         /\ \A f, h, v : /\ SameHead(UpsertSource(db, f, h, v), db)
                         /\ UpsertSource(db, f, h, v).syms = db.syms
         /\ \A kind : [db EXCEPT !.kind = kind].since = db.since /\ [db EXCEPT !.kind = kind].imported = db.imported
<1>1. \A rows : /\ SameHead([db EXCEPT !.rows = rows], db)
                /\ [db EXCEPT !.rows = rows].syms = db.syms
  BY DEF IsDB, SameHead
<1>2. \A sources : /\ SameHead([db EXCEPT !.sources = sources], db)
                   /\ [db EXCEPT !.sources = sources].syms = db.syms
  BY DEF IsDB, SameHead
<1>3. \A f, h, v : /\ SameHead(UpsertSource(db, f, h, v), db)
                   /\ UpsertSource(db, f, h, v).syms = db.syms
  BY <1>2 DEF UpsertSource
<1>4. \A kind : /\ [db EXCEPT !.kind = kind].since = db.since
                /\ [db EXCEPT !.kind = kind].imported = db.imported
  BY DEF IsDB
<1> QED BY <1>1, <1>2, <1>3, <1>4

LEMMA ReplaceHead ==
  ASSUME NEW db, IsDB(db), NEW p, NEW stored, NEW at
  PROVE  LET new == Replace(db, p, stored, at)
         IN  SameHead(new, db) /\ new.syms = UpsertSymbols(db.syms, stored)
<1> DEFINE rest == DeleteByExtractorAndImportPath(db.rows, "llm-semantic", p)
           less == [db EXCEPT !.rows = rest]
<1>1. Replace(db, p, stored, at) = Insert(less, stored, at)
  BY DEF Replace
<1> HIDE DEF rest
<1>2. IsDB(less) /\ SameHead(less, db) /\ less.syms = db.syms
  BY RowsFields, EditHead
<1> HIDE DEF less
<1> QED BY <1>1, <1>2, InsertHead DEF SameHead

\* Deletions take rows out whole.
Trimmed(rest, rows) ==
  DOMAIN rest \subseteq DOMAIN rows /\ \A r \in DOMAIN rest : rest[r] = rows[r]

LEMMA TrimmedCounted ==
  ASSUME NEW rows, Counted(rows), NEW rest, Trimmed(rest, rows) PROVE Counted(rest)
BY FS_Subset DEF Counted, Trimmed

LEMMA DeletesTrim ==
  ASSUME NEW rows
  PROVE  /\ Trimmed(DeleteSensitive(DeleteLowConfidence(rows)), rows)
         /\ \A ext, p : Trimmed(DeleteByExtractorAndImportPath(rows, ext, p), rows)
         /\ \A ext, f : Trimmed(DeleteByExtractorAndFile(rows, ext, f), rows)
<1>1. Trimmed(DeleteLowConfidence(rows), rows)
  BY DEF DeleteLowConfidence, Where, Restrict, Trimmed
<1>2. Trimmed(DeleteSensitive(DeleteLowConfidence(rows)), DeleteLowConfidence(rows))
  BY DEF DeleteSensitive, Where, Restrict, Trimmed
<1>3. \A ext, p : Trimmed(DeleteByExtractorAndImportPath(rows, ext, p), rows)
  BY DEF DeleteByExtractorAndImportPath, Where, Restrict, Trimmed
<1>4. \A ext, f : Trimmed(DeleteByExtractorAndFile(rows, ext, f), rows)
  BY DEF DeleteByExtractorAndFile, Where, Restrict, Trimmed
<1> QED BY <1>1, <1>2, <1>3, <1>4 DEF Trimmed

\* Inserting finitely many claims keeps the rows counted.
LEMMA InsertCounted ==
  ASSUME NEW rows, Counted(rows), NEW cs, IsFiniteSet(cs), NEW at
  PROVE  Counted(InsertClaims(rows, cs, at))
<1> DEFINE added == {Row(c, at) : c \in cs}
           times == [r \in added |-> Cardinality({c \in cs : Row(c, at) = r})]
           new == InsertClaims(rows, cs, at)
<1>1. /\ DOMAIN new = DOMAIN rows \cup added
      /\ \A r \in DOMAIN new : new[r] = (IF r \in DOMAIN rows THEN rows[r] ELSE 0)
                                        + (IF r \in added THEN times[r] ELSE 0)
  BY DEF InsertClaims, (+)
<1>2. IsFiniteSet(added)
  <2> DEFINE put == [c \in cs |-> Row(c, at)]
  <2>1. put \in Surjection(cs, added)
    BY DEF Surjection
  <2> QED BY <2>1, FS_Surjection
<1>3. ASSUME NEW r \in added PROVE times[r] \in Nat \ {0}
  <2> DEFINE same == {c \in cs : Row(c, at) = r}
  <2>1. IsFiniteSet(same) /\ same # {}
    BY FS_Subset
  <2>2. Cardinality(same) \in Nat /\ Cardinality(same) # 0
    BY <2>1, FS_CardinalityType, FS_EmptySet
  <2> QED BY <2>2
<1> HIDE DEF added, times, new
<1>4. \A r \in DOMAIN new : new[r] \in Nat \ {0}
  <2> SUFFICES ASSUME NEW r \in DOMAIN new PROVE new[r] \in Nat \ {0}
    OBVIOUS
  <2>1. r \in DOMAIN rows => rows[r] \in Nat \ {0}
    BY DEF Counted
  <2>2. r \in added => times[r] \in Nat \ {0}
    BY <1>3
  <2>3. r \in DOMAIN rows \/ r \in added
    BY <1>1
  <2> QED BY <1>1, <2>1, <2>2, <2>3
<1>5. IsFiniteSet(DOMAIN new)
  <2>1. IsFiniteSet(DOMAIN rows)
    BY DEF Counted
  <2>2. IsFiniteSet(DOMAIN rows \cup added)
    BY <1>2, <2>1, FS_Union
  <2> QED BY <1>1, <2>2
<1> QED BY <1>4, <1>5 DEF Counted, new

LEMMA ReplaceCounted ==
  ASSUME NEW db, IsDB(db), Counted(db.rows), NEW p, NEW stored, IsFiniteSet(stored), NEW at
  PROVE  Counted(Replace(db, p, stored, at).rows)
<1> DEFINE rest == DeleteByExtractorAndImportPath(db.rows, "llm-semantic", p)
<1>1. Counted(rest)
  BY DeletesTrim, TrimmedCounted
<1>2. Replace(db, p, stored, at).rows = InsertClaims(rest, stored, at)
  BY ReplaceFields
<1> HIDE DEF rest
<1> QED BY <1>1, <1>2, InsertCounted

\* The symbols after an upsert.
KindOf(c) == IF c.kind = Blank THEN "var" ELSE c.kind

\* An upsert leaves a symbol as it was or gives it the columns of one of its claims.
LEMMA UpsertSteps ==
  ASSUME NEW syms, NEW cs, NEW new, new = UpsertSymbols(syms, cs)
  PROVE  /\ \A k : k \in DOMAIN new <=> k \in DOMAIN syms \/ \E c \in cs : k = Key(c)
         /\ \A k \in DOMAIN new :
              \/ k \in DOMAIN syms /\ new[k] = syms[k]
              \/ \E c \in cs : Key(c) = k /\ new[k].kind = KindOf(c) /\ new[k].vis = c.vis
<1> DEFINE Mine(k) == {c \in cs : Key(c) = k}
           Last(k) == {c \in Mine(k) : /\ \A d \in Mine(k) : c.line >= d.line
                                      /\ c.pred = "defines"}
           One(k) == CHOOSE c \in (IF Last(k) = {} THEN Mine(k) ELSE Last(k)) : TRUE
<1>1. DOMAIN new = DOMAIN syms \cup {Key(c) : c \in cs}
  BY DEF UpsertSymbols
<1>2. ASSUME NEW k \in DOMAIN new
      PROVE  new[k] = IF Mine(k) = {} THEN syms[k]
                      ELSE [kind |-> KindOf(One(k)), vis |-> One(k).vis, scip |-> One(k).scip]
  BY <1>1 DEF UpsertSymbols, KindOf
<1>3. ASSUME NEW k \in DOMAIN new
      PROVE  \/ k \in DOMAIN syms /\ new[k] = syms[k]
             \/ \E c \in cs : Key(c) = k /\ new[k].kind = KindOf(c) /\ new[k].vis = c.vis
  <2>1. CASE Mine(k) = {}
    BY <1>1, <1>2, <2>1
  <2>2. CASE Mine(k) # {}
    <3>1. One(k) \in Mine(k)
      <4>1. Last(k) \subseteq Mine(k)
        OBVIOUS
      <4> DEFINE from == IF Last(k) = {} THEN Mine(k) ELSE Last(k)
      <4>2. from # {} /\ from \subseteq Mine(k)
        BY <2>2
      <4> HIDE DEF from
      <4>3. (CHOOSE c \in from : TRUE) \in from
        BY <4>2
      <4> QED BY <4>2, <4>3 DEF from
    <3> HIDE DEF One
    <3>2. new[k].kind = KindOf(One(k)) /\ new[k].vis = One(k).vis
      BY <1>2, <2>2
    <3> QED BY <3>1, <3>2
  <2> QED BY <2>1, <2>2
<1> QED BY <1>1, <1>3

\* The rows and the symbols are those of some claims, and of the model.
Exact(db, L, now) ==
  /\ \A r \in DOMAIN db.rows :
       \/ r.pred \in SemanticOnly /\ r.file = "llm-semantic"
       \/ \E c \in L : r = Row(c, now)
  /\ \A k \in DOMAIN db.syms :
       \E c \in L : Key(c) = k /\ db.syms[k].kind = KindOf(c) /\ db.syms[k].vis = c.vis

Holds(db, cs, now) ==
  \A c \in cs : Row(c, now) \in DOMAIN db.rows /\ Key(c) \in DOMAIN db.syms

\* What is stored keeps a database exact when it is claimed of the tree, and is held after.
LEMMA InsertExact ==
  ASSUME NEW db, IsDB(db), NEW L, NEW now, NEW cs
  PROVE  LET new == Insert(db, cs, now)
         IN /\ Exact(db, L, now) /\ cs \subseteq L => Exact(new, L, now)
            /\ Holds(new, cs, now)
            /\ \A ds : Holds(db, ds, now) => Holds(new, ds, now)
<1> DEFINE new == Insert(db, cs, now)
<1>1. /\ DOMAIN new.rows = DOMAIN db.rows \cup {Row(c, now) : c \in cs}
      /\ new.syms = UpsertSymbols(db.syms, cs)
  BY InsertFields, InsertHead
<1> HIDE DEF new
<1>2. /\ \A k : k \in DOMAIN new.syms <=> k \in DOMAIN db.syms \/ \E c \in cs : k = Key(c)
      /\ \A k \in DOMAIN new.syms :
           \/ k \in DOMAIN db.syms /\ new.syms[k] = db.syms[k]
           \/ \E c \in cs : Key(c) = k /\ new.syms[k].kind = KindOf(c) /\ new.syms[k].vis = c.vis
  BY <1>1, UpsertSteps
<1>3. Exact(db, L, now) /\ cs \subseteq L => Exact(new, L, now)
  <2> SUFFICES ASSUME Exact(db, L, now), cs \subseteq L PROVE Exact(new, L, now)
    OBVIOUS
  <2>1. \A r \in DOMAIN new.rows :
          \/ r.pred \in SemanticOnly /\ r.file = "llm-semantic"
          \/ \E c \in L : r = Row(c, now)
    BY <1>1 DEF Exact
  <2>2. \A k \in DOMAIN new.syms :
          \E c \in L : Key(c) = k /\ new.syms[k].kind = KindOf(c) /\ new.syms[k].vis = c.vis
    BY <1>2 DEF Exact
  <2> QED BY <2>1, <2>2 DEF Exact
<1>4. Holds(new, cs, now) /\ \A ds : Holds(db, ds, now) => Holds(new, ds, now)
  BY <1>1, <1>2 DEF Holds
<1> QED BY <1>3, <1>4 DEF new

\* An answer of the model about symbols as the database has them.
Echoes(cs, syms) ==
  \A c \in cs : /\ c.pred \in SemanticOnly /\ c.file = "llm-semantic"
                /\ Key(c) \in DOMAIN syms
                /\ c.kind = syms[Key(c)].kind /\ c.vis = syms[Key(c)].vis

\* An answer to what the database said replaces only the model's own rows.
LEMMA ReplaceExact ==
  ASSUME NEW db, IsDB(db), NEW L, \A c \in L : c.pred \notin SemanticOnly, NEW now,
         Exact(db, L, now), Holds(db, L, now), NEW p, NEW stored, Echoes(stored, db.syms)
  PROVE  LET new == Replace(db, p, stored, now)
         IN  Exact(new, L, now) /\ Holds(new, L, now)
<1> DEFINE new == Replace(db, p, stored, now)
<1>1. /\ DOMAIN new.rows =
           {r \in DOMAIN db.rows :
              ~(r.extractor = "llm-semantic" /\ r.pred \in SemanticOnly /\ r.path = p)}
           \cup {Row(c, now) : c \in stored}
      /\ new.syms = UpsertSymbols(db.syms, stored)
  BY ReplaceFields, ReplaceHead
<1> HIDE DEF new
<1>2. /\ \A k : k \in DOMAIN new.syms <=> k \in DOMAIN db.syms \/ \E c \in stored : k = Key(c)
      /\ \A k \in DOMAIN new.syms :
           \/ k \in DOMAIN db.syms /\ new.syms[k] = db.syms[k]
           \/ \E c \in stored : Key(c) = k /\ new.syms[k].kind = KindOf(c) /\ new.syms[k].vis = c.vis
  BY <1>1, UpsertSteps
<1>3. \A r \in {Row(c, now) : c \in stored} : r.pred \in SemanticOnly /\ r.file = "llm-semantic"
  BY RowFields DEF Echoes
<1>4. \A r \in DOMAIN new.rows :
        \/ r.pred \in SemanticOnly /\ r.file = "llm-semantic"
        \/ \E c \in L : r = Row(c, now)
  BY <1>1, <1>3 DEF Exact
<1>5. ASSUME NEW k \in DOMAIN new.syms
      PROVE  \E c \in L : Key(c) = k /\ new.syms[k].kind = KindOf(c) /\ new.syms[k].vis = c.vis
  <2>1. k \in DOMAIN db.syms
    BY <1>2 DEF Echoes
  <2>2. PICK c \in L : Key(c) = k /\ db.syms[k].kind = KindOf(c) /\ db.syms[k].vis = c.vis
    BY <2>1 DEF Exact
  <2>3. CASE new.syms[k] = db.syms[k]
    BY <2>2, <2>3
  <2>4. ASSUME NEW d \in stored, Key(d) = k, new.syms[k].kind = KindOf(d), new.syms[k].vis = d.vis
        PROVE  new.syms[k].kind = KindOf(c) /\ new.syms[k].vis = c.vis
    <3>1. d.kind = KindOf(c) /\ d.vis = c.vis
      BY <2>2, <2>4 DEF Echoes
    <3>2. KindOf(c) # Blank
      BY DEF KindOf, Blank
    <3> QED BY <2>4, <3>1, <3>2 DEF KindOf
  <2> QED BY <1>2, <2>2, <2>3, <2>4
<1>6. Holds(new, L, now)
  <2> SUFFICES ASSUME NEW c \in L
               PROVE  Row(c, now) \in DOMAIN new.rows /\ Key(c) \in DOMAIN new.syms
    BY DEF Holds
  <2>1. Row(c, now) \in DOMAIN db.rows /\ Key(c) \in DOMAIN db.syms
    BY DEF Holds
  <2>2. Row(c, now).pred \notin SemanticOnly
    BY RowFields
  <2> QED BY <1>1, <1>2, <2>1, <2>2
<1> QED BY <1>4, <1>5, <1>6 DEF Exact, new

\* The gate leaves every claim of the tree.
LEMMA GateExact ==
  ASSUME NEW db, IsDB(db), NEW L,
         \A c \in L : c.pred \notin SemanticOnly /\ c.text \notin Sensitive, NEW now,
         Exact(db, L, now), Holds(db, L, now)
  PROVE  LET new == [db EXCEPT !.rows = DeleteSensitive(DeleteLowConfidence(@))]
         IN  Exact(new, L, now) /\ Holds(new, L, now)
<1> DEFINE low == DeleteLowConfidence(db.rows)
           rest == DeleteSensitive(low)
           new == [db EXCEPT !.rows = rest]
<1>1. DOMAIN low = {r \in DOMAIN db.rows :
                      ~(r.pred \in SemanticOnly /\ r.conf < ConfidenceThreshold)}
  BY DEF DeleteLowConfidence, Where, Restrict
<1> HIDE DEF low
<1>2. DOMAIN rest = {r \in DOMAIN low : r.text \notin Sensitive}
  BY DEF DeleteSensitive, Where, Restrict
<1> HIDE DEF rest
<1>3. new.rows = rest /\ new.syms = db.syms
  BY RowsFields, EditHead
<1> HIDE DEF new
<1>4. Exact(new, L, now)
  BY <1>1, <1>2, <1>3 DEF Exact
<1>5. Holds(new, L, now)
  <2> SUFFICES ASSUME NEW c \in L
               PROVE  Row(c, now) \in DOMAIN rest /\ Key(c) \in DOMAIN db.syms
    BY <1>3 DEF Holds
  <2>1. Row(c, now) \in DOMAIN db.rows /\ Key(c) \in DOMAIN db.syms
    BY DEF Holds
  <2>2. Row(c, now).pred \notin SemanticOnly /\ Row(c, now).text \notin Sensitive
    BY RowFields
  <2> QED BY <1>1, <1>2, <2>1, <2>2
<1> QED BY <1>4, <1>5 DEF new, rest, low

\* What a local extraction of a tree stores.
OfGo(t)        == FilterSensitive(GoDeep(t))
OfFile(f, u)   == FilterSensitive(Located(TreeSitter(f, u)))
LocalClaims(t) == OfGo(t) \cup UNION {OfFile(f, t[f]) : f \in Others \cap Present(t)}

Valid(t) == \A f \in Files : t[f] \in Contents[f] \cup {Absent}

LEMMA LocalTold ==
  ASSUME NEW t, NEW c \in LocalClaims(t)
  PROVE  /\ c.text \notin Sensitive
         /\ \/ \E p \in Packages(t) : Told(t, p, c)
            \/ \E f \in Others \cap Present(t) : FileTold(f, t[f], c)
<1>1. CASE c \in OfGo(t)
  <2>1. c \in GoDeep(t) /\ c.text \notin Sensitive
    BY <1>1 DEF OfGo, FilterSensitive
  <2> QED BY <2>1, GoTold
<1>2. ASSUME NEW f \in Others \cap Present(t), c \in OfFile(f, t[f])
      PROVE  c.text \notin Sensitive /\ FileTold(f, t[f], c)
  <2>1. c \in Located(TreeSitter(f, t[f])) /\ c.text \notin Sensitive
    BY <1>2 DEF OfFile, FilterSensitive
  <2> QED BY <2>1, TreeTold
<1> QED BY <1>1, <1>2 DEF LocalClaims

\* A claim points into its file.
LEMMA LocalPoints ==
  ASSUME NEW t, Valid(t), NEW c \in LocalClaims(t)
  PROVE  /\ Discreet(c) /\ c.text \notin Sensitive
         /\ c.file \in Files /\ t[c.file] # Absent
         /\ c.pred = "defines" => ~(c.line > t[c.file].lines)
         /\ c.pred = "has_signature" => t[c.file].lines # 0
<1>1. ASSUME NEW f \in Files, t[f] # Absent, NEW d \in t[f].decls
      PROVE  t[f].lines \in Nat /\ d.line \in 1 .. t[f].lines
  BY <1>1, ContentsAssumption DEF Valid
<1>2. ASSUME NEW p, Told(t, p, c)
      PROVE  /\ Discreet(c) /\ c.file \in Files /\ t[c.file] # Absent
             /\ c.pred = "defines" => ~(c.line > t[c.file].lines)
             /\ c.pred = "has_signature" => t[c.file].lines # 0
  <2>1. c.file \in Files /\ t[c.file] # Absent /\ Discreet(c)
    BY <1>2 DEF Told, PackageFiles, Present
  <2>2. c.pred \in {"defines", "has_signature"} =>
          \E d \in t[c.file].decls : c.line = d.line
    BY <1>2 DEF Told, OfDecl, OfPackage
  <2> QED BY <1>1, <2>1, <2>2
<1>3. ASSUME NEW f \in Others \cap Present(t), FileTold(f, t[f], c)
      PROVE  /\ Discreet(c) /\ c.file \in Files /\ t[c.file] # Absent
             /\ c.pred = "defines" => ~(c.line > t[c.file].lines)
             /\ c.pred = "has_signature" => t[c.file].lines # 0
  <2>1. c.file = f /\ f \in Files /\ t[f] # Absent /\ Discreet(c)
    BY <1>3 DEF FileTold, Present
  <2>2. c.pred = "defines" => \E d \in t[f].decls : c.line = d.line
    BY <1>3 DEF FileTold
  <2>3. c.pred # "has_signature"
    BY <1>3 DEF FileTold
  <2> QED BY <1>1, <2>1, <2>2, <2>3
<1> QED BY <1>2, <1>3, LocalTold

\* The claims at the path of a package are its own.
LEMMA PageTold ==
  ASSUME NEW t, NEW c \in LocalClaims(t), NEW p \in Packages(t), c.path = p
  PROVE  Told(t, p, c)
<1>1. p \notin Others
  BY NamesAssumption DEF Packages, Others
<1> QED BY <1>1, LocalTold DEF Told, FileTold

\* Every declaration is claimed, under its name and where it stands.
LEMMA BaseClaim ==
  ASSUME NEW t, NEW f \in Present(t), NEW d \in t[f].decls
  PROVE  \E c \in LocalClaims(t) :
           /\ c.pred = "defines" /\ c.name = SubjectOf(f, d) /\ c.file = f
           /\ f \in GoFiles => c.path = Package[f]
<1>1. Blank \notin Sensitive
  BY ContentsAssumption DEF Blank
<1>2. CASE f \in GoFiles
  <2> DEFINE p == Package[f]
             ours == ObjectKind(d)
             object == Claim("go-deep", p, d.name, ours, GoVisibility(d), f, d.line,
                             FormatGoSymbol(p, Blank, d.name, ours))
             method == Claim("go-deep", p, Qualified(d.owner, d.name), "method",
                             GoVisibility(d), f, d.line,
                             FormatGoSymbol(p, d.owner, d.name, "method"))
             base == IF d.kind = "method" THEN method ELSE object
  <2>1. p \in Packages(t) /\ f \in PackageFiles(t, p)
    BY <1>2 DEF Packages, PackageFiles
  <2>2. object \in ObjectClaims(p, f, t[f], d) /\ method \in MethodClaims(p, f, d)
    BY DEF ObjectClaims, MethodClaims
  <2>3. /\ object.path = p /\ object.name = d.name /\ object.file = f
        /\ object.pred = "defines" /\ object.text = Blank
    BY DEF Claim
  <2>4. /\ method.path = p /\ method.name = Qualified(d.owner, d.name) /\ method.file = f
        /\ method.pred = "defines" /\ method.text = Blank
    BY DEF Claim
  <2> HIDE DEF object, method
  <2>5. base \in IF d.kind = "method" THEN MethodClaims(p, f, d) ELSE ObjectClaims(p, f, t[f], d)
    BY <2>2
  <2>6. /\ base.path = p /\ base.name = SubjectOf(f, d) /\ base.file = f
        /\ base.pred = "defines" /\ base.text = Blank
    BY <1>2, <2>3, <2>4 DEF SubjectOf
  <2> HIDE DEF base, p
  <2>7. base \in PackageClaims(t, p)
    <3> DEFINE Of(g) == UNION {IF e.kind = "method" THEN MethodClaims(p, g, e)
                               ELSE ObjectClaims(p, g, t[g], e) : e \in t[g].decls}
    <3>1. base \in Of(f)
      BY <2>5
    <3>2. UNION {Of(g) : g \in PackageFiles(t, p)} \subseteq PackageClaims(t, p)
      BY DEF PackageClaims
    <3> HIDE DEF Of
    <3> QED BY <2>1, <3>1, <3>2
  <2>8. base \in LocalClaims(t)
    BY <1>1, <2>1, <2>6, <2>7 DEF LocalClaims, OfGo, FilterSensitive, GoDeep
  <2> QED BY <2>6, <2>8 DEF p
<1>3. CASE f \notin GoFiles
  <2> DEFINE e == BuildClaim(f, "defines", d)
             c == [e EXCEPT !.path = e.file]
  <2>1. ExtractName(f, "defines", d) = d.name
    BY DEF ExtractName
  <2>2. /\ IsClaim(e) /\ e.path = Blank /\ e.file = f /\ e.pred = "defines"
        /\ e.name = d.name /\ e.text = Blank
    BY <2>1, BuildFields
  <2>3. e \in TreeSitter(f, t[f])
    <3> DEFINE nodes == Nodes(f, t[f])
               Of(pred) == {BuildClaim(f, pred, x) : x \in nodes[pred]}
    <3>1. "defines" \in DOMAIN nodes /\ nodes["defines"] = t[f].decls
      BY DEF Nodes
    <3> HIDE DEF nodes
    <3>2. UNION {Of(pred) : pred \in DOMAIN nodes} \subseteq TreeSitter(f, t[f])
      BY DEF TreeSitter, nodes
    <3>3. e \in Of("defines")
      BY <3>1
    <3> HIDE DEF Of
    <3> QED BY <3>1, <3>2, <3>3
  <2> HIDE DEF e
  <2>4. c \in Located(TreeSitter(f, t[f]))
    BY <2>2, <2>3 DEF Located
  <2>5. c.pred = "defines" /\ c.name = d.name /\ c.file = f /\ c.text = Blank
    BY <2>2 DEF IsClaim
  <2> HIDE DEF c
  <2>6. c \in OfFile(f, t[f])
    BY <1>1, <2>4, <2>5 DEF OfFile, FilterSensitive
  <2>7. f \in Others
    BY <1>3 DEF Others, Present
  <2>8. c \in LocalClaims(t)
    BY <2>6, <2>7 DEF LocalClaims
  <2>9. SubjectOf(f, d) = d.name
    BY <1>3 DEF SubjectOf
  <2> QED BY <1>3, <2>5, <2>8, <2>9
<1> QED BY <1>2, <1>3

-----------------------------------------------------------------------------
(* Claims are finitely many *)

LEMMA FiniteUnion ==
  ASSUME NEW S, IsFiniteSet(S), NEW F, \A x \in S : IsFiniteSet(F[x]),
         NEW U, \A y \in U : \E x \in S : y \in F[x]
  PROVE  IsFiniteSet(U)
<1> DEFINE T == {F[x] : x \in S}
           put == [x \in S |-> F[x]]
<1>1. put \in Surjection(S, T)
  BY DEF Surjection
<1>2. IsFiniteSet(T)
  BY <1>1, FS_Surjection
<1>3. \A V \in T : IsFiniteSet(V)
  OBVIOUS
<1>4. U \in SUBSET UNION T
  OBVIOUS
<1> HIDE DEF T
<1>5. IsFiniteSet(UNION T)
  BY <1>2, <1>3, FS_UNION
<1> QED BY <1>4, <1>5, FS_Subset

LEMMA FiniteImage ==
  ASSUME NEW S, IsFiniteSet(S), NEW F, NEW U, \A y \in U : \E x \in S : y = F[x]
  PROVE  IsFiniteSet(U)
<1> DEFINE T == {F[x] : x \in S}
           put == [x \in S |-> F[x]]
<1>1. put \in Surjection(S, T)
  BY DEF Surjection
<1>2. IsFiniteSet(T)
  BY <1>1, FS_Surjection
<1>3. U \in SUBSET T
  OBVIOUS
<1> HIDE DEF T
<1> QED BY <1>2, <1>3, FS_Subset

LEMMA FiniteIf == ASSUME NEW cond, NEW c PROVE IsFiniteSet(If(cond, c))
BY FS_EmptySet, FS_Singleton DEF If

LEMMA FiniteContents ==
  ASSUME NEW t, Valid(t)
  PROVE  /\ \A g \in Present(t) :
              /\ g \in Files /\ t[g] \in Contents[g]
              /\ IsFiniteSet(t[g].decls) /\ IsFiniteSet(t[g].imports)
              /\ IsFiniteSet(t[g].comments) /\ IsFiniteSet(t[g].exports)
              /\ \A i \in t[g].imports : IsFiniteSet(i.paths)
         /\ \A S \in SUBSET Files : IsFiniteSet(S)
<1>1. \A S \in SUBSET Files : IsFiniteSet(S)
  BY ContentsAssumption, FS_Subset
<1>2. \A g \in Present(t) : g \in Files /\ t[g] \in Contents[g]
  BY DEF Present, Valid
<1> QED BY <1>1, <1>2, ClaimsAssumption, ContentsAssumption

LEMMA FiniteFew ==
  ASSUME NEW a, NEW b, NEW c
  PROVE  IsFiniteSet({a, b}) /\ IsFiniteSet({a, b, c})
<1>1. {a, b} = {a} \cup {b} /\ {a, b, c} = {a, b} \cup {c}
  OBVIOUS
<1>2. IsFiniteSet({a}) /\ IsFiniteSet({b}) /\ IsFiniteSet({c})
  BY FS_Singleton
<1>3. IsFiniteSet({a} \cup {b})
  BY <1>2, FS_Union
<1> DEFINE two == {a, b}
<1>4. IsFiniteSet(two)
  BY <1>1, <1>3
<1>5. {a, b, c} = two \cup {c}
  BY <1>1
<1> HIDE DEF two
<1>6. IsFiniteSet(two \cup {c})
  BY <1>2, <1>4, FS_Union
<1> QED BY <1>4, <1>5, <1>6 DEF two

LEMMA TreeSitterFinite ==
  ASSUME NEW f, NEW u, IsFiniteSet(u.decls), IsFiniteSet(u.imports), IsFiniteSet(u.comments),
         IsFiniteSet(u.exports)
  PROVE  IsFiniteSet(TreeSitter(f, u)) /\ IsFiniteSet(Located(TreeSitter(f, u)))
<1> DEFINE nodes == Nodes(f, u)
           preds == {"defines", "imports", "has_doc", "exports"}
           Of(pred) == {BuildClaim(f, pred, x) : x \in nodes[pred]}
           of == [pred \in preds |-> Of(pred)]
           module == Claim(FastName(f), Blank, f, "module", "public", f, 0, NoScip)
           test == If(f \in TestFiles, Says(module, "is_test", Blank))
           generated == If(u.generated, Says(module, "is_generated", Blank))
           cs == TreeSitter(f, u)
<1>1. ASSUME NEW pred \in preds PROVE IsFiniteSet(of[pred])
  <2> DEFINE S == nodes[pred]
             F == [x \in S |-> BuildClaim(f, pred, x)]
  <2>1. IsFiniteSet(S)
    BY FS_EmptySet DEF Nodes
  <2> HIDE DEF S
  <2>2. \A y \in of[pred] : \E x \in S : y = F[x]
    BY DEF S
  <2> HIDE DEF F, of
  <2> QED BY <2>1, <2>2, FiniteImage
<1>2. IsFiniteSet(preds)
  <2> DEFINE two == {"defines", "imports"}
             more == {"has_doc", "exports"}
  <2>1. preds = two \cup more
    OBVIOUS
  <2>2. IsFiniteSet(two) /\ IsFiniteSet(more)
    BY FiniteFew
  <2> HIDE DEF two, more, preds
  <2> QED BY <2>1, <2>2, FS_Union
<1> DEFINE all == UNION {of[pred] : pred \in preds}
<1>3. IsFiniteSet(all)
  <2>1. \A y \in all : \E pred \in preds : y \in of[pred]
    OBVIOUS
  <2> HIDE DEF of, preds, all
  <2> QED BY <1>1, <1>2, <2>1, FiniteUnion
<1>4. cs = all \cup test \cup generated
  <2>1. DOMAIN nodes = preds
    BY DEF Nodes
  <2> HIDE DEF nodes, preds, test, generated
  <2>2. all = UNION {Of(pred) : pred \in DOMAIN nodes}
    BY <2>1
  <2>3. cs = (UNION {Of(pred) : pred \in DOMAIN nodes}) \cup test \cup generated
    BY DEF TreeSitter, nodes, test, generated
  <2> HIDE DEF all, Of, cs
  <2> QED BY <2>2, <2>3
<1>5. IsFiniteSet(test) /\ IsFiniteSet(generated)
  BY FiniteIf
<1> HIDE DEF all, test, generated, cs
<1>6. IsFiniteSet(all \cup test)
  BY <1>3, <1>5, FS_Union
<1>7. IsFiniteSet(all \cup test \cup generated)
  BY <1>5, <1>6, FS_Union
<1>8. IsFiniteSet(cs)
  BY <1>4, <1>7
<1>9. IsFiniteSet(Located(cs))
  <2> DEFINE F == [c \in cs |-> IF c.path = Blank THEN [c EXCEPT !.path = c.file] ELSE c]
  <2>1. \A y \in Located(cs) : \E c \in cs : y = F[c]
    BY DEF Located
  <2> HIDE DEF F
  <2> QED BY <1>8, <2>1, FiniteImage
<1> QED BY <1>8, <1>9 DEF cs

LEMMA StoredFinite ==
  ASSUME NEW t, Valid(t), NEW f \in Present(t)
  PROVE  /\ IsFiniteSet(OfFile(f, t[f])) /\ \A kind : IsFiniteSet(Stored(kind, f, t[f]))
<1> DEFINE cs == Located(TreeSitter(f, t[f]))
<1>1. IsFiniteSet(cs)
  BY FiniteContents, TreeSitterFinite
<1> HIDE DEF cs
<1>2. IsFiniteSet(FilterSensitive(cs))
  BY <1>1, FS_Subset DEF FilterSensitive
<1>3. \A S \in {{}, cs, FilterSensitive(cs)} : IsFiniteSet(S)
  BY <1>1, <1>2, FS_EmptySet
<1>4. OfFile(f, t[f]) = FilterSensitive(cs)
  BY DEF OfFile, cs
<1>5. ExtractFileBytes(f, t[f]) \in {{}, cs}
  BY DEF ExtractFileBytes, cs
<1>6. \A kind : Stored(kind, f, t[f]) \in {{}, cs, FilterSensitive(cs)}
  BY <1>5 DEF Stored, cs
<1> QED BY <1>3, <1>4, <1>6

LEMMA DeclClaimsFinite ==
  ASSUME NEW p, NEW f, NEW u, NEW d
  PROVE  IsFiniteSet(ObjectClaims(p, f, u, d)) /\ IsFiniteSet(MethodClaims(p, f, d))
<1>1. IsFiniteSet(ObjectClaims(p, f, u, d))
  <2> DEFINE kind == ObjectKind(d)
             base == Claim("go-deep", p, d.name, kind, GoVisibility(d), f, d.line,
                           FormatGoSymbol(p, Blank, d.name, kind))
             package == Claim("go-deep", p, p, "module", "public", f, d.line, NoScip)
             three == {base, Says(base, "has_kind", kind), Names(package, "encloses", d.name)}
             signature == If(kind = "func", Says(base, "has_signature", d.sig))
             exports == If(d.public, Says(base, "exports", Blank))
             doc == If(kind \in {"type", "func"} /\ d.doc # Blank,
                       [Says(base, "has_doc", d.doc) EXCEPT !.conf = 85])
             test == If(f \in TestFiles, Says(base, "is_test", Blank))
             generated == If(u.generated, Says(base, "is_generated", Blank))
  <2>1. ObjectClaims(p, f, u, d) = three \cup signature \cup exports \cup doc \cup test \cup generated
    BY DEF ObjectClaims
  <2>2. /\ IsFiniteSet(three) /\ IsFiniteSet(signature) /\ IsFiniteSet(exports) /\ IsFiniteSet(doc)
        /\ IsFiniteSet(test) /\ IsFiniteSet(generated)
    <3> HIDE DEF base, package
    <3> QED BY FiniteIf, FiniteFew
  <2> HIDE DEF three, signature, exports, doc, test, generated
  <2>3. IsFiniteSet(three \cup signature)
    BY <2>2, FS_Union
  <2>4. IsFiniteSet(three \cup signature \cup exports)
    BY <2>2, <2>3, FS_Union
  <2>5. IsFiniteSet(three \cup signature \cup exports \cup doc)
    BY <2>2, <2>4, FS_Union
  <2>6. IsFiniteSet(three \cup signature \cup exports \cup doc \cup test)
    BY <2>2, <2>5, FS_Union
  <2> QED BY <2>1, <2>2, <2>6, FS_Union
<1>2. IsFiniteSet(MethodClaims(p, f, d))
  <2> DEFINE base == Claim("go-deep", p, Qualified(d.owner, d.name), "method",
                           GoVisibility(d), f, d.line,
                           FormatGoSymbol(p, d.owner, d.name, "method"))
             three == {base, Says(base, "has_kind", "method"), Says(base, "has_signature", d.sig)}
             doc == If(d.doc # Blank, [Says(base, "has_doc", d.doc) EXCEPT !.conf = 85])
             exports == If(d.public, Says(base, "exports", Blank))
  <2>1. MethodClaims(p, f, d) = three \cup doc \cup exports
    BY DEF MethodClaims
  <2>2. IsFiniteSet(three) /\ IsFiniteSet(doc) /\ IsFiniteSet(exports)
    <3> HIDE DEF base
    <3> QED BY FiniteIf, FiniteFew
  <2> HIDE DEF three, doc, exports
  <2>3. IsFiniteSet(three \cup doc)
    BY <2>2, FS_Union
  <2> QED BY <2>1, <2>2, <2>3, FS_Union
<1> QED BY <1>1, <1>2

LEMMA PackageClaimsFinite ==
  ASSUME NEW t, Valid(t), NEW p
  PROVE  IsFiniteSet(PackageClaims(t, p)) /\ IsFiniteSet(Declared(t, p))
<1> DEFINE fs == PackageFiles(t, p)
           module == Claim("go-deep", p, p, "module", "public", FirstFile(fs), 0, NoScip)
           ClaimsOf(f, d) == IF d.kind = "method" THEN MethodClaims(p, f, d)
                           ELSE ObjectClaims(p, f, t[f], d)
           Of(f) == UNION {ClaimsOf(f, d) : d \in t[f].decls}
           Paths(f) == UNION {d.paths : d \in t[f].imports}
           Decls(f) == {[file |-> f, decl |-> d] : d \in t[f].decls}
           made == [f \in fs |-> Of(f)]
           paths == [f \in fs |-> Paths(f)]
           decls == [f \in fs |-> Decls(f)]
<1>1. fs \subseteq Present(t) /\ IsFiniteSet(fs)
  BY FiniteContents DEF PackageFiles, Present
<1> HIDE DEF fs
<1>2. ASSUME NEW f \in fs PROVE IsFiniteSet(Of(f))
  <2> DEFINE S == t[f].decls
             F == [d \in S |-> ClaimsOf(f, d)]
  <2>1. IsFiniteSet(S)
    BY <1>1, FiniteContents
  <2>2. \A d \in S : IsFiniteSet(F[d])
    BY DeclClaimsFinite
  <2>3. \A y \in Of(f) : \E d \in S : y \in F[d]
    OBVIOUS
  <2> HIDE DEF S, F, Of
  <2> QED BY <2>1, <2>2, <2>3, FiniteUnion
<1>3. ASSUME NEW f \in fs PROVE IsFiniteSet(Paths(f))
  <2> DEFINE S == t[f].imports
             F == [d \in S |-> d.paths]
  <2>1. IsFiniteSet(S)
    BY <1>1, FiniteContents
  <2>2. \A d \in S : IsFiniteSet(F[d])
    BY <1>1, FiniteContents
  <2>3. \A y \in Paths(f) : \E d \in S : y \in F[d]
    OBVIOUS
  <2> HIDE DEF S, F, Paths
  <2> QED BY <2>1, <2>2, <2>3, FiniteUnion
<1>4. ASSUME NEW f \in fs PROVE IsFiniteSet(Decls(f))
  <2> DEFINE S == t[f].decls
             F == [d \in S |-> [file |-> f, decl |-> d]]
  <2>1. IsFiniteSet(S)
    BY <1>1, FiniteContents
  <2>2. \A y \in Decls(f) : \E d \in S : y = F[d]
    OBVIOUS
  <2> HIDE DEF S, F, Decls
  <2> QED BY <2>1, <2>2, FiniteImage
<1> HIDE DEF Of, Paths, Decls
<1>5. IsFiniteSet(UNION {Of(f) : f \in fs})
  <2>1. \A f \in fs : IsFiniteSet(made[f])
    BY <1>2
  <2>2. \A y \in UNION {Of(f) : f \in fs} : \E f \in fs : y \in made[f]
    OBVIOUS
  <2> HIDE DEF made
  <2> QED BY <1>1, <2>1, <2>2, FiniteUnion
<1> DEFINE I == UNION {Paths(f) : f \in fs}
           F == [i \in I |-> Names(module, "imports", i)]
           imports == {Names(module, "imports", i) : i \in I}
<1>6. IsFiniteSet(I)
  <2>1. \A f \in fs : IsFiniteSet(paths[f])
    BY <1>3
  <2>2. \A y \in I : \E f \in fs : y \in paths[f]
    OBVIOUS
  <2> HIDE DEF paths
  <2> QED BY <1>1, <2>1, <2>2, FiniteUnion
<1>7. IsFiniteSet(UNION {Decls(f) : f \in fs})
  <2>1. \A f \in fs : IsFiniteSet(decls[f])
    BY <1>4
  <2>2. \A y \in UNION {Decls(f) : f \in fs} : \E f \in fs : y \in decls[f]
    OBVIOUS
  <2> HIDE DEF decls
  <2> QED BY <1>1, <2>1, <2>2, FiniteUnion
<1>8. \A y \in imports : \E i \in I : y = F[i]
  <2> HIDE DEF I, module
  <2> QED OBVIOUS
<1> DEFINE about == UNION {Of(f) : f \in fs}
<1>9. PackageClaims(t, p) = about \cup imports
  BY DEF PackageClaims, Of, Paths, fs
<1>10. Declared(t, p) = UNION {Decls(f) : f \in fs}
  BY DEF Declared, Decls, fs
<1> HIDE DEF F, I, module, imports, about
<1>11. IsFiniteSet(imports)
  BY <1>6, <1>8, FiniteImage
<1>12. IsFiniteSet(about)
  BY <1>5 DEF about
<1>13. IsFiniteSet(about \cup imports)
  BY <1>11, <1>12, FS_Union
<1> QED BY <1>7, <1>9, <1>10, <1>13

\* A tree has finitely many claims.
LEMMA GoDeepFinite ==
  ASSUME NEW t, Valid(t)
  PROVE  IsFiniteSet(GoDeep(t)) /\ IsFiniteSet(ImplementsClaims(t))
<1> DEFINE ps == Packages(t)
           fs == GoFiles \cap Present(t)
           F == [f \in fs |-> Package[f]]
           made == [p \in ps |-> PackageClaims(t, p)]
<1>1. IsFiniteSet(ps)
  <2>1. IsFiniteSet(fs)
    BY FiniteContents DEF Present
  <2>2. \A y \in ps : \E f \in fs : y = F[f]
    BY DEF Packages
  <2> HIDE DEF F, fs, ps
  <2> QED BY <2>1, <2>2, FiniteImage
<1> HIDE DEF ps
<1>2. IsFiniteSet(UNION {PackageClaims(t, p) : p \in ps})
  <2>1. \A p \in ps : IsFiniteSet(made[p])
    BY PackageClaimsFinite
  <2>2. \A y \in UNION {PackageClaims(t, p) : p \in ps} : \E p \in ps : y \in made[p]
    OBVIOUS
  <2> HIDE DEF made
  <2> QED BY <1>1, <2>1, <2>2, FiniteUnion
<1>3. ASSUME NEW p, NEW q PROVE IsFiniteSet(Between(t, p, q))
  <2> DEFINE xs == OfKind(t, p, "type")
             is == OfKind(t, q, "interface")
             Of(x) == {Implements(p, x, q, i) : i \in is}
             of == [x \in xs |-> Of(x)]
  <2>1. IsFiniteSet(xs) /\ IsFiniteSet(is)
    BY PackageClaimsFinite, FS_Subset DEF OfKind
  <2> HIDE DEF xs, is
  <2>2. ASSUME NEW x \in xs PROVE IsFiniteSet(Of(x))
    <3> DEFINE G == [i \in is |-> Implements(p, x, q, i)]
    <3>1. \A y \in Of(x) : \E i \in is : y = G[i]
      OBVIOUS
    <3> HIDE DEF G, Of
    <3> QED BY <2>1, <3>1, FiniteImage
  <2> HIDE DEF Of
  <2>3. \A x \in xs : IsFiniteSet(of[x])
    BY <2>2
  <2>4. \A y \in Between(t, p, q) : \E x \in xs : y \in of[x]
    BY DEF Between, Of, xs, is
  <2> HIDE DEF of
  <2> QED BY <2>1, <2>3, <2>4, FiniteUnion
<1>4. ASSUME NEW p PROVE IsFiniteSet(UNION {Between(t, p, q) : q \in ps})
  <2> DEFINE of == [q \in ps |-> Between(t, p, q)]
  <2>1. \A q \in ps : IsFiniteSet(of[q])
    BY <1>3
  <2>2. \A y \in UNION {Between(t, p, q) : q \in ps} : \E q \in ps : y \in of[q]
    OBVIOUS
  <2> HIDE DEF of
  <2> QED BY <1>1, <2>1, <2>2, FiniteUnion
<1>5. IsFiniteSet(Pairs(t))
  <2> DEFINE of == [p \in ps |-> UNION {Between(t, p, q) : q \in ps}]
  <2>1. \A p \in ps : IsFiniteSet(of[p])
    BY <1>4
  <2>2. \A y \in Pairs(t) : \E p \in ps : y \in of[p]
    BY DEF Pairs, ps
  <2> HIDE DEF of
  <2> QED BY <1>1, <2>1, <2>2, FiniteUnion
<1>6. IsFiniteSet(ImplementsClaims(t))
  BY <1>5, FS_Subset DEF ImplementsClaims
<1> DEFINE all == UNION {PackageClaims(t, p) : p \in ps}
<1>7. GoDeep(t) = all \cup ImplementsClaims(t)
  BY DEF GoDeep, ps
<1> HIDE DEF all
<1>8. IsFiniteSet(all \cup ImplementsClaims(t))
  BY <1>2, <1>6, FS_Union DEF all
<1> QED BY <1>6, <1>7, <1>8

\* So has a document of an index.
LEMMA DocumentFinite ==
  ASSUME NEW t, Valid(t), NEW f \in Present(t)
  PROVE  IsFiniteSet(DocumentClaims(t, f))
<1> DEFINE S == t[f].decls
           Base(d) == BaseOf(f, d)
           SatOf(d) == {c \in ImplementsClaims(t) : c.file = f /\ c.name = d.name}
           Sat(d) == {Says(Base(d), "implements", c.object) : c \in SatOf(d)}
           Doc(d) == If(d.doc # Blank, [Says(Base(d), "has_doc", d.doc) EXCEPT !.conf = 85])
           Two(d) == {Base(d), Says(Base(d), "has_kind", MapSCIPKind(d))}
           of == [d \in S |-> Two(d) \cup Doc(d) \cup Sat(d)]
<1>1. \A y \in DocumentClaims(t, f) : \E d \in S : y \in of[d]
  BY DEF DocumentClaims, BaseOf
<1>2. ASSUME NEW d \in S PROVE IsFiniteSet(of[d])
  <2> DEFINE X == SatOf(d)
             F == [c \in X |-> Says(Base(d), "implements", c.object)]
  <2>1. IsFiniteSet(X)
    BY GoDeepFinite, FS_Subset
  <2>2. \A y \in Sat(d) : \E c \in X : y = F[c]
    OBVIOUS
  <2> HIDE DEF X, F, Sat
  <2>3. IsFiniteSet(Sat(d))
    BY <2>1, <2>2, FiniteImage
  <2>4. IsFiniteSet(Doc(d))
    BY FiniteIf
  <2>5. IsFiniteSet(Two(d))
    <3> DEFINE a == Base(d)
               b == Says(Base(d), "has_kind", MapSCIPKind(d))
    <3>1. Two(d) = {a, b}
      OBVIOUS
    <3> HIDE DEF a, b, Two
    <3> QED BY <3>1, FiniteFew
  <2>6. of[d] = (Two(d) \cup Doc(d)) \cup Sat(d)
    BY DEF Sat
  <2> HIDE DEF Two, Doc, of
  <2>7. IsFiniteSet(Two(d) \cup Doc(d))
    BY <2>4, <2>5, FS_Union
  <2>8. IsFiniteSet((Two(d) \cup Doc(d)) \cup Sat(d))
    BY <2>3, <2>7, FS_Union
  <2> QED BY <2>6, <2>8
<1>3. IsFiniteSet(S)
  BY FiniteContents
<1> HIDE DEF of, S
<1> QED BY <1>1, <1>2, <1>3, FiniteUnion

\* An answer gives finitely many claims, and so does its verification.
LEMMA AnswerFinite ==
  ASSUME NEW p, NEW symbols, NEW answer \in Answers
  PROVE  LET cs == ParseResponse(p, symbols, answer)
         IN  /\ IsFiniteSet(cs)
             /\ \A verdict : IsFiniteSet(Verify(cs, verdict))
<1> DEFINE S == {i \in answer : i.name \in DOMAIN symbols}
           F == [i \in S |-> [Claim("llm-semantic", p, i.name, symbols[i.name].kind,
                                   symbols[i.name].vis, "llm-semantic", 0, NoScip)
                               EXCEPT !.pred = i.pred, !.text = i.text,
                                      !.conf = ConfidenceOf(i.pred)]]
           cs == ParseResponse(p, symbols, answer)
<1>1. IsFiniteSet(S)
  BY ContentsAssumption, FS_Subset
<1>2. \A y \in cs : \E i \in S : y = F[i]
  BY DEF ParseResponse
<1> HIDE DEF S, F
<1>3. IsFiniteSet(cs)
  BY <1>1, <1>2, FiniteImage
<1> HIDE DEF cs
<1>4. ASSUME NEW verdict PROVE IsFiniteSet(Verify(cs, verdict))
  <2> DEFINE X == {c \in cs : verdict[c] # "reject"}
             G == [c \in X |-> [c EXCEPT !.conf = IF verdict[c] = "downgrade"
                                                  THEN (@ * 6) \div 10 ELSE @]]
  <2>1. IsFiniteSet(X)
    BY <1>3, FS_Subset
  <2>2. \A y \in Verify(cs, verdict) : \E c \in X : y = G[c]
    BY DEF Verify
  <2> HIDE DEF X, G
  <2> QED BY <2>1, <2>2, FiniteImage
<1> QED BY <1>3, <1>4 DEF cs

\* A claim of an answer is about a symbol it was asked about.
LEMMA AnswerEchoes ==
  ASSUME NEW p, NEW symbols, NEW answer \in Answers, NEW syms,
         \A n \in DOMAIN symbols :
           /\ <<p, n>> \in DOMAIN syms /\ symbols[n].kind = syms[<<p, n>>].kind
           /\ symbols[n].vis = syms[<<p, n>>].vis
  PROVE  LET cs == ParseResponse(p, symbols, answer)
         IN  Echoes(cs, syms) /\ \A verdict : Echoes(Verify(cs, verdict), syms)
<1> DEFINE cs == ParseResponse(p, symbols, answer)
<1>1. ASSUME NEW c \in cs
      PROVE  /\ IsClaim(c) /\ c.pred \in SemanticOnly /\ c.file = "llm-semantic" /\ c.path = p
             /\ c.name \in DOMAIN symbols /\ c.kind = symbols[c.name].kind
             /\ c.vis = symbols[c.name].vis
  <2> PICK i \in answer :
        /\ i.name \in DOMAIN symbols
        /\ c = [Claim("llm-semantic", p, i.name, symbols[i.name].kind, symbols[i.name].vis,
                      "llm-semantic", 0, NoScip)
                  EXCEPT !.pred = i.pred, !.text = i.text, !.conf = ConfidenceOf(i.pred)]
    BY <1>1 DEF ParseResponse
  <2> DEFINE base == Claim("llm-semantic", p, i.name, symbols[i.name].kind,
                           symbols[i.name].vis, "llm-semantic", 0, NoScip)
  <2>1. /\ IsClaim(base) /\ base.file = "llm-semantic" /\ base.path = p /\ base.name = i.name
        /\ base.kind = symbols[i.name].kind /\ base.vis = symbols[i.name].vis
    BY DEF Claim, IsClaim
  <2>2. c = [base EXCEPT !.pred = i.pred, !.text = i.text, !.conf = ConfidenceOf(i.pred)]
    OBVIOUS
  <2>3. i.pred \in SemanticOnly
    BY ContentsAssumption
  <2> HIDE DEF base
  <2> QED BY <2>1, <2>2, <2>3 DEF IsClaim
<1> HIDE DEF cs
<1>2. Echoes(cs, syms)
  BY <1>1 DEF Echoes, Key
<1>3. ASSUME NEW verdict PROVE Echoes(Verify(cs, verdict), syms)
  <2> SUFFICES ASSUME NEW c \in Verify(cs, verdict)
               PROVE  /\ c.pred \in SemanticOnly /\ c.file = "llm-semantic"
                      /\ Key(c) \in DOMAIN syms
                      /\ c.kind = syms[Key(c)].kind /\ c.vis = syms[Key(c)].vis
    BY DEF Echoes
  <2>1. PICK b \in cs : \E conf : c = [b EXCEPT !.conf = conf]
    BY DEF Verify
  <2>2. /\ c.pred = b.pred /\ c.file = b.file /\ Key(c) = Key(b) /\ c.kind = b.kind
        /\ c.vis = b.vis
    BY <1>1, <2>1 DEF IsClaim, Key
  <2> QED BY <1>2, <2>2 DEF Echoes
<1> QED BY <1>2, <1>3 DEF cs

\* The first descriptor of a symbol is its package.
LEMMA SymbolPath ==
  ASSUME NEW p, NEW owner, NEW name, NEW kind
  PROVE  Decompose(FormatGoSymbol(p, owner, name, kind)).path = p
<1> DEFINE E == {[suffix |-> "namespace", name |-> p], [suffix |-> "type", name |-> owner],
                 [suffix |-> Suffix(kind), name |-> name]}
           first == [suffix |-> "namespace", name |-> p]
           of == [suffix |-> "type", name |-> owner]
           last == [suffix |-> Suffix(kind), name |-> name]
           middle == IF owner = Blank THEN <<>> ELSE <<of>>
           symbol == FormatGoSymbol(p, owner, name, kind)
<1>1. symbol = (<<first>> \o middle) \o <<last>>
  BY DEF FormatGoSymbol
<1>2. first \in E /\ of \in E /\ last \in E /\ first.name = p
  OBVIOUS
<1> HIDE DEF E, first, of, last, symbol
<1>3. middle \in Seq(E)
  BY <1>2
<1> HIDE DEF middle
<1>4. <<first>> \in Seq(E) /\ Len(<<first>>) = 1 /\ <<first>>[1] = first
  BY <1>2
<1>5. /\ <<first>> \o middle \in Seq(E) /\ Len(<<first>> \o middle) >= 1
      /\ (<<first>> \o middle)[1] = first
  BY <1>3, <1>4
<1>6. ((<<first>> \o middle) \o <<last>>)[1] = first
  BY <1>2, <1>5
<1> QED BY <1>1, <1>2, <1>6 DEF Decompose, symbol

\* What a row may say about an interface.
Quiet(c) == c.pred = "implements" => c.text = Blank
Bears(t, r) ==
  (r.pred = "implements" /\ r.text # Blank) =>
    \E s \in ImplementsClaims(t) : s.path = r.path /\ s.name = r.name /\ s.object = r.text

LEMMA ImplementsTold ==
  ASSUME NEW t, NEW s \in ImplementsClaims(t)
  PROVE  s.path = Package[s.file]
<1>1. PICK p \in Packages(t), q \in Packages(t) : s \in Between(t, p, q)
  BY DEF ImplementsClaims, Pairs
<1>2. PICK x \in OfKind(t, p, "type"), i \in OfKind(t, q, "interface") :
        s = Implements(p, x, q, i)
  BY <1>1 DEF Between
<1>3. Package[x.file] = p
  BY DEF OfKind, Declared, PackageFiles
<1> DEFINE base == Claim("go-deep", p, x.decl.name, "type", GoVisibility(x.decl), x.file,
                         x.decl.line, FormatGoSymbol(p, Blank, x.decl.name, "type"))
<1>4. IsClaim(base) /\ base.path = p /\ base.file = x.file
  BY DEF Claim, IsClaim
<1>5. s = Names(base, "implements", Qualified(q, i.decl.name))
  BY <1>2 DEF Implements
<1> HIDE DEF base
<1>6. Alike(s, base)
  BY <1>4, <1>5, NamesAlike
<1> QED BY <1>3, <1>4, <1>6 DEF Alike

\* A document of an index claims no interface that its tree does not bear out.
LEMMA DocumentBears ==
  ASSUME NEW t, NEW f, NEW c \in DocumentClaims(t, f)
  PROVE  Bears(t, c)
<1>1. PICK d \in t[f].decls :
        \/ c = BaseOf(f, d) \/ c = Says(BaseOf(f, d), "has_kind", MapSCIPKind(d))
        \/ c = [Says(BaseOf(f, d), "has_doc", d.doc) EXCEPT !.conf = 85]
        \/ \E s \in ImplementsClaims(t) :
             s.file = f /\ s.name = d.name /\ c = Says(BaseOf(f, d), "implements", s.object)
  BY DEF DocumentClaims, BaseOf, If
<1> DEFINE base == BaseOf(f, d)
<1>2. IsClaim(base) /\ base.path = Package[f] /\ base.name = d.name /\ base.pred = "defines"
  <2> DEFINE scip == FormatGoSymbol(Package[f], d.owner, d.name, ObjectKind(d))
  <2>1. Decompose(scip).name = d.name /\ Decompose(scip).path = Package[f]
    BY SymbolName, SymbolPath
  <2> HIDE DEF scip
  <2>2. base = Claim("scip", Decompose(scip).path, Decompose(scip).name, MapSCIPKind(d),
                     GoVisibility(d), f, 0, scip)
    BY DEF BaseOf, scip
  <2> DEFINE to == Decompose(scip)
             kind == MapSCIPKind(d)
             vis == GoVisibility(d)
  <2> HIDE DEF to, kind, vis
  <2> DEFINE b == Claim("scip", to.path, to.name, kind, vis, f, 0, scip)
  <2>3. IsClaim(b) /\ b.path = to.path /\ b.name = to.name /\ b.pred = "defines"
    BY DEF Claim, IsClaim
  <2> QED BY <2>1, <2>2, <2>3 DEF to, kind, vis
<1> HIDE DEF base
<1>3. CASE c = base
  BY <1>2, <1>3 DEF Bears
<1>4. CASE c = Says(base, "has_kind", MapSCIPKind(d))
  <2>1. c.pred = "has_kind"
    BY <1>2, <1>4, SaysAlike
  <2> QED BY <2>1 DEF Bears
<1>5. CASE c = [Says(base, "has_doc", d.doc) EXCEPT !.conf = 85]
  <2>1. c.pred = "has_doc"
    BY <1>2, <1>5, DocAlike
  <2> QED BY <2>1 DEF Bears
<1>6. ASSUME NEW s \in ImplementsClaims(t), s.file = f, s.name = d.name,
             c = Says(base, "implements", s.object)
      PROVE  Bears(t, c)
  <2>1. Alike(c, base) /\ c.text = s.object
    BY <1>2, <1>6, SaysAlike
  <2>2. s.path = Package[f]
    BY <1>6, ImplementsTold
  <2> QED BY <1>2, <1>6, <2>1, <2>2 DEF Alike, Bears
<1> QED BY <1>1, <1>3, <1>4, <1>5, <1>6 DEF base

\* Only an index says more.
LEMMA LocalQuiet ==
  ASSUME NEW t, NEW c \in LocalClaims(t)
  PROVE  Quiet(c) /\ c.pred \notin SemanticOnly /\ c.text \notin Sensitive
BY LocalTold DEF Told, FileTold, Discreet, Quiet

\* What an extraction stores of a file is quiet.
LEMMA StoredQuiet ==
  ASSUME NEW kind, NEW f, NEW u, NEW c \in Stored(kind, f, u)
  PROVE  Quiet(c)
<1>1. c \in Located(TreeSitter(f, u))
  BY DEF Stored, ExtractFileBytes, FilterSensitive
<1> QED BY <1>1, TreeTold DEF FileTold, Discreet, Quiet

\* A symbol of another repository only brings its documentation.
LEMMA ExternalQuiet ==
  ASSUME NEW e
  PROVE  IsFiniteSet(ExternalClaims(e)) /\ \A c \in ExternalClaims(e) : c.pred = "has_doc"
<1> DEFINE to == Decompose(e.symbol)
           base == Claim("scip", to.path, to.name, to.kind, "public", "(external)", 0,
                         e.symbol)
           doc == [Says(base, "has_doc", e.doc) EXCEPT !.conf = 85]
<1>1. IsClaim(base)
  BY ClaimMade
<1>2. ExternalClaims(e) = If(e.doc # Blank, doc)
  BY DEF ExternalClaims
<1> HIDE DEF base
<1>3. doc.pred = "has_doc"
  BY <1>1, DocAlike
<1> HIDE DEF doc
<1> QED BY <1>2, <1>3, FiniteIf DEF If

-----------------------------------------------------------------------------
(* The inductive invariant of the reports *)

\* The database of an extraction: its rows are from its time.
Young(db, now) ==
  /\ db.since \in Nat /\ db.since <= now /\ ~db.imported /\ Counted(db.rows)
  /\ \A r \in DOMAIN db.rows : r.at \in Nat /\ r.at <= now /\ Quiet(r)

\* So does taking rows out.
LEMMA YoungAlike ==
  ASSUME NEW db, NEW now, Young(db, now), NEW new, new.since = db.since,
         new.imported = db.imported, Trimmed(new.rows, db.rows)
  PROVE  Young(new, now)
<1>1. Counted(new.rows)
  BY TrimmedCounted DEF Young
<1> QED BY <1>1 DEF Young, Trimmed

\* Storing keeps an extraction's database of its time.
LEMMA YoungInsert ==
  ASSUME NEW db, IsDB(db), NEW now \in Nat, Young(db, now), NEW cs, IsFiniteSet(cs),
         \A c \in cs : Quiet(c)
  PROVE  Young(Insert(db, cs, now), now)
<1> DEFINE new == Insert(db, cs, now)
<1>1. /\ new.rows = InsertClaims(db.rows, cs, now)
      /\ DOMAIN new.rows = DOMAIN db.rows \cup {Row(c, now) : c \in cs}
      /\ SameHead(new, db)
  BY InsertFields, InsertHead
<1> HIDE DEF new
<1>2. Counted(new.rows)
  BY <1>1, InsertCounted DEF Young
<1>3. \A c \in cs : LET r == Row(c, now) IN r.at = now /\ Quiet(r)
  BY DEF Row, Quiet
<1>4. \A r \in DOMAIN new.rows : r.at \in Nat /\ r.at <= now /\ Quiet(r)
  BY <1>1, <1>3 DEF Young
<1> QED BY <1>1, <1>2, <1>4 DEF Young, SameHead, new

\* So does an answer of the model.
LEMMA YoungReplace ==
  ASSUME NEW db, IsDB(db), NEW now \in Nat, Young(db, now), NEW p, NEW stored,
         IsFiniteSet(stored), \A c \in stored : Quiet(c)
  PROVE  Young(Replace(db, p, stored, now), now)
<1> DEFINE rest == DeleteByExtractorAndImportPath(db.rows, "llm-semantic", p)
           less == [db EXCEPT !.rows = rest]
<1>1. Replace(db, p, stored, now) = Insert(less, stored, now)
  BY DEF Replace
<1>2. Trimmed(rest, db.rows)
  BY DeletesTrim
<1> HIDE DEF rest
<1>3. IsDB(less) /\ SameHead(less, db) /\ less.rows = rest
  BY RowsFields, EditHead
<1> HIDE DEF less
<1>4. Young(less, now)
  BY <1>2, <1>3, YoungAlike DEF SameHead
<1> QED BY <1>1, <1>3, <1>4, YoungInsert

\* While nothing is written, the database of a local extraction without an
\* error has the claims of what was read so far.
Progress(j, t, now) ==
  /\ j.stage \in {"load", "store"} => j.todo = Others
  /\ j.stage = "store" => j.read = t
  /\ j.stage = "walk" =>
       /\ j.file # None /\ j.read # None => j.read = t[j.file]
       /\ Holds(j.db, OfGo(t), now)
       /\ \A f \in (Others \cap Present(t)) \ j.todo :
            f # j.file \/ j.read = None => Holds(j.db, OfFile(f, t[f]), now)
  /\ j.stage \in {"generate"} \cup Screening => Holds(j.db, LocalClaims(t), now)

\* The extraction: its database is young, and exact as long as nothing was written.
JobTold(j, t, now) ==
  j # NoJob =>
    /\ Young(j.db, now)
    /\ j.stage = "store" => Valid(j.read)
    /\ (j.stage = "walk" /\ j.file # None /\ j.read # None) => j.read \in Contents[j.file]
    /\ (j.db.kind = "local" /\ j.db.since = now) =>
         Exact(j.db, LocalClaims(t), now) /\ Progress(j, t, now)

\* Nothing was written later than now.
TimesTold ==
  /\ mtime = [f \in Files |-> mtime[f]]
  /\ \A f \in Files : mtime[f] \in Nat /\ mtime[f] <= clock

\* The published database: while nothing was written since the extraction
\* began, its rows are the claims of the tree.
PublishedTold ==
  published # NoDB =>
    /\ published.since \in Nat /\ published.since <= clock /\ published.done \in Nat
    /\ Counted(published.rows)
    /\ ~published.imported =>
         \A r \in DOMAIN published.rows : r.file \in Files => r.at \in Nat /\ r.at <= published.done
    /\ clock = published.since => \A r \in DOMAIN published.rows : Bears(tree, r)
    /\ Fresh(published) =>
         /\ Exact(published, LocalClaims(tree), clock)
         /\ Holds(published, LocalClaims(tree), clock)

\* The symbols the model was asked about are still those of the database.
CallTold ==
  (published # NoDB /\ Fresh(published) /\ call.stage = "asked") =>
    \A n \in DOMAIN call.symbols :
      LET k == <<call.path, n>>
      IN  /\ k \in DOMAIN published.syms
          /\ call.symbols[n].kind = published.syms[k].kind
          /\ call.symbols[n].vis = published.syms[k].vis

\* The index is of a tree that was, and of this one while nothing was written.
IndexTold ==
  index.stage = "open" =>
    /\ Valid(index.tree) /\ index.todo \subseteq Present(index.tree)
    /\ (published # NoDB /\ clock = published.since) => index.tree = tree

ReportsInv == TimesTold /\ JobTold(job, tree, clock) /\ PublishedTold /\ CallTold /\ IndexTold

LEMMA InitReportsInv == Init => ReportsInv
BY DEF Init, ReportsInv, TimesTold, JobTold, PublishedTold, CallTold, IndexTold, NoJob, NoCall, NoIndex

LEMMA EditReportsInv ==
  ASSUME Inv, ReportsInv, NEW f \in Files, NEW u \in Contents[f] \cup {Absent}, Edit(f, u)
  PROVE  ReportsInv'
<1>1. /\ clock' = clock + 1 /\ mtime' = [mtime EXCEPT ![f] = clock'] /\ clock \in Nat
      /\ UNCHANGED <<published, job, call, index>>
  BY DEF Edit, Inv, TreeSound
<1>2. TimesTold'
  BY <1>1 DEF ReportsInv, TimesTold
<1>3. JobTold(job, tree', clock')
  <2> SUFFICES ASSUME job # NoJob
               PROVE  /\ Young(job.db, clock') /\ job.db.since # clock'
                      /\ job.stage = "store" => Valid(job.read)
                      /\ (job.stage = "walk" /\ job.file # None /\ job.read # None)
                           => job.read \in Contents[job.file]
    BY DEF JobTold
  <2>1. /\ Young(job.db, clock) /\ (job.stage = "store" => Valid(job.read))
        /\ (job.stage = "walk" /\ job.file # None /\ job.read # None)
             => job.read \in Contents[job.file]
    BY DEF ReportsInv, JobTold
  <2> QED BY <1>1, <2>1 DEF Young
<1>4. published # NoDB => clock' # published.since /\ published.since <= clock'
  BY <1>1 DEF ReportsInv, PublishedTold
<1>5. PublishedTold'
  BY <1>1, <1>4 DEF ReportsInv, PublishedTold, Fresh
<1>6. CallTold'
  BY <1>1, <1>4 DEF CallTold, Fresh
<1>7. IndexTold'
  BY <1>1, <1>4 DEF ReportsInv, IndexTold
<1> QED BY <1>1, <1>2, <1>3, <1>5, <1>6, <1>7 DEF ReportsInv

-----------------------------------------------------------------------------
(* The reports: the steps of an extraction *)

\* A step of an extraction on its own database.
LEMMA OnlyReportsInv ==
  ASSUME ReportsInv, NEW j, Only(j), JobTold(j, tree, clock)
  PROVE  ReportsInv'
<1>1. job' = j /\ UNCHANGED <<tree, clock, mtime, published, call, index>>
  BY DEF Only, KeepRest
<1> QED BY <1>1 DEF ReportsInv, TimesTold, PublishedTold, CallTold, IndexTold, Fresh

\* A new database is exact whatever is claimed.
LEMMA NewYoung ==
  ASSUME NEW db, IsDB(db), NEW now \in Nat, db.since = now, ~db.imported, db.rows = EmptyBag,
         db.syms = [k \in {} |-> None]
  PROVE  Young(db, now) /\ \A L : Exact(db, L, now)
<1>1. DOMAIN db.rows = {} /\ DOMAIN db.syms = {}
  BY DEF EmptyBag, SetToBag
<1>2. Counted(db.rows)
  BY <1>1, FS_EmptySet DEF Counted
<1> QED BY <1>1, <1>2 DEF Young, Exact

LEMMA BeginReportsInv == ASSUME Inv, ReportsInv, Begin \/ BeginRemote PROVE ReportsInv'
<1>1. clock \in Nat /\ UNCHANGED <<tree, clock, mtime, published, call, index>>
  BY DEF Inv, TreeSound, Begin, BeginRemote
<1>2. JobTold(job', tree, clock)
  <2>1. CASE Begin
    <3>1. PICK tier2 \in BOOLEAN, tribal \in BOOLEAN :
            job' = [stage |-> "load", db |-> [NewDB EXCEPT !.since = clock, !.enriched = tier2],
                    tier2 |-> tier2, tribal |-> tribal, todo |-> Others, read |-> None,
                    file |-> None]
      BY <2>1 DEF Begin
    <3> DEFINE db == [NewDB EXCEPT !.since = clock, !.enriched = tier2]
    <3>2. /\ IsDB(db) /\ db.rows = EmptyBag /\ db.syms = [k \in {} |-> None] /\ ~db.imported
          /\ db.since = clock
      BY DEF NewDB, IsDB
    <3> HIDE DEF db
    <3>3. Young(db, clock) /\ \A L : Exact(db, L, clock)
      BY <1>1, <3>2, NewYoung
    <3>4. Progress(job', tree, clock)
      BY <3>1 DEF Progress, Screening
    <3> QED BY <3>1, <3>3, <3>4 DEF JobTold, db
  <2>2. CASE BeginRemote
    <3>1. PICK kind \in {"remote", "incremental"} : \E todo : job' = RemoteJob(kind, todo)
      BY <2>2 DEF BeginRemote
    <3>2. PICK todo : job' = RemoteJob(kind, todo)
      BY <3>1
    <3> DEFINE db == [NewDB EXCEPT !.since = clock, !.kind = kind]
    <3>3. /\ IsDB(db) /\ db.rows = EmptyBag /\ db.syms = [k \in {} |-> None] /\ ~db.imported
          /\ db.since = clock /\ db.kind = kind
      BY DEF NewDB, IsDB
    <3>4. job' = [stage |-> "remote", todo |-> todo, db |-> db]
      BY <3>2 DEF RemoteJob
    <3> HIDE DEF db
    <3>5. Young(db, clock)
      BY <1>1, <3>3, NewYoung
    <3> QED BY <3>3, <3>4, <3>5 DEF JobTold
  <2> QED BY <2>1, <2>2
<1> QED BY <1>1, <1>2 DEF ReportsInv, TimesTold, PublishedTold, CallTold, IndexTold, Fresh

\* A warning keeps the database of its time, and ends what is claimed of it.
LEMMA WarnYoung ==
  ASSUME NEW db, IsDB(db), NEW now, Young(db, now)
  PROVE  LET new == [db EXCEPT !.kind = "degraded"]
         IN  Young(new, now) /\ new.kind = "degraded"
<1> DEFINE new == [db EXCEPT !.kind = "degraded"]
<1>1. /\ new.kind = "degraded" /\ new.rows = db.rows /\ new.since = db.since
      /\ new.imported = db.imported
  BY KindFields, EditHead
<1> HIDE DEF new
<1>2. Trimmed(new.rows, db.rows)
  BY <1>1 DEF Trimmed
<1> QED BY <1>1, <1>2, YoungAlike DEF new

LEMMA LoadReportsInv == ASSUME Inv, ReportsInv, LoadGo \/ LoadGoFails PROVE ReportsInv'
<1>1. job.stage = "load" /\ LocalSound(job, past, clock) /\ job # NoJob
  BY DEF Inv, JobSound, RemoteSound, LoadGo, LoadGoFails, NoJob
<1>2. Young(job.db, clock) /\ IsDB(job.db)
  BY <1>1 DEF ReportsInv, JobTold, LocalSound, Sound
<1>3. CASE LoadGo
  <2> DEFINE j == [job EXCEPT !.stage = "store", !.read = tree]
  <2>1. /\ j.stage = "store" /\ j.read = tree /\ j.db = job.db /\ j.todo = job.todo
    BY <1>1 DEF LocalSound
  <2>2. Only(j)
    BY <1>3 DEF LoadGo
  <2> HIDE DEF j
  <2>3. Valid(tree)
    BY DEF Inv, TreeSound, Valid
  <2>4. Progress(job, tree, clock) => Progress(j, tree, clock)
    BY <1>1, <2>1 DEF Progress, Screening
  <2>5. JobTold(j, tree, clock)
    BY <1>1, <1>2, <2>1, <2>3, <2>4 DEF ReportsInv, JobTold
  <2> QED BY <2>2, <2>5, OnlyReportsInv
<1>4. CASE LoadGoFails
  <2> DEFINE db == [job.db EXCEPT !.kind = "degraded"]
             j == [job EXCEPT !.stage = "walk", !.db = db]
  <2>0. job.file = None
    BY <1>1 DEF LocalSound
  <2>1. Young(db, clock) /\ db.kind = "degraded"
    BY <1>2, WarnYoung
  <2>2. Only(j)
    BY <1>1, <1>4 DEF LoadGoFails, LocalSound
  <2> HIDE DEF db
  <2>3. j.db = db /\ j.stage = "walk" /\ j.file = None
    BY <1>1, <2>0 DEF LocalSound
  <2> HIDE DEF j
  <2>4. JobTold(j, tree, clock)
    BY <2>1, <2>3 DEF JobTold
  <2> QED BY <2>2, <2>4, OnlyReportsInv
<1> QED BY <1>3, <1>4

\* The claims of a tree are those of its packages and of its other files.
LEMMA LocalParts ==
  ASSUME NEW t
  PROVE  /\ OfGo(t) \subseteq LocalClaims(t) /\ \A c \in OfGo(t) : Quiet(c)
         /\ \A f \in Others \cap Present(t) : OfFile(f, t[f]) \subseteq LocalClaims(t)
         /\ \A db, now : (/\ Holds(db, OfGo(t), now)
                          /\ \A f \in Others \cap Present(t) : Holds(db, OfFile(f, t[f]), now))
                            => Holds(db, LocalClaims(t), now)
<1>1. OfGo(t) \subseteq LocalClaims(t)
  BY DEF LocalClaims
<1>2. \A f \in Others \cap Present(t) : OfFile(f, t[f]) \subseteq LocalClaims(t)
  BY DEF LocalClaims
<1>3. \A c \in OfGo(t) : Quiet(c)
  BY <1>1, LocalQuiet
<1>4. \A c \in LocalClaims(t) :
        c \in OfGo(t) \/ \E f \in Others \cap Present(t) : c \in OfFile(f, t[f])
  BY DEF LocalClaims
<1>5. \A db, now : (/\ Holds(db, OfGo(t), now)
                    /\ \A f \in Others \cap Present(t) : Holds(db, OfFile(f, t[f]), now))
                      => Holds(db, LocalClaims(t), now)
  BY <1>4 DEF Holds
<1> QED BY <1>1, <1>2, <1>3, <1>5

LEMMA StoreGoReportsInv == ASSUME Inv, ReportsInv, StoreGo PROVE ReportsInv'
<1>1. job.stage = "store" /\ LocalSound(job, past, clock) /\ job # NoJob
  BY DEF Inv, JobSound, RemoteSound, StoreGo, NoJob
<1>2. IsDB(job.db) /\ job.file = None /\ job.todo \subseteq Others
  BY <1>1 DEF LocalSound, Sound, Filling
<1>3. clock \in Nat
  BY DEF Inv, TreeSound
<1>4. Young(job.db, clock) /\ Valid(job.read)
  BY <1>1 DEF ReportsInv, JobTold
<1> DEFINE cs == OfGo(job.read)
           db == Insert(job.db, cs, clock)
           j == [job EXCEPT !.stage = "walk", !.read = None, !.db = db]
<1>5. Only(j)
  BY DEF StoreGo, StoreClaims, OfGo
<1>6. IsFiniteSet(cs)
  BY <1>4, GoDeepFinite, FS_Subset DEF OfGo, FilterSensitive
<1>7. \A c \in cs : Quiet(c)
  BY LocalParts
<1> HIDE DEF cs
<1>8. Young(db, clock) /\ SameHead(db, job.db)
  BY <1>2, <1>3, <1>4, <1>6, <1>7, YoungInsert, InsertHead
<1>9. ASSUME job.db.kind = "local", job.db.since = clock
      PROVE  Exact(db, LocalClaims(tree), clock) /\ Holds(db, OfGo(tree), clock) /\ job.todo = Others
  <2>1. Exact(job.db, LocalClaims(tree), clock) /\ job.read = tree /\ job.todo = Others
    BY <1>1, <1>9 DEF ReportsInv, JobTold, Progress
  <2>2. cs \subseteq LocalClaims(tree) /\ cs = OfGo(tree)
    BY <2>1, LocalParts DEF cs
  <2> QED BY <1>2, <2>1, <2>2, InsertExact
<1> HIDE DEF db
<1>10. j.stage = "walk" /\ j.db = db /\ j.todo = job.todo /\ j.file = None /\ j.read = None
  BY <1>1, <1>2 DEF LocalSound
<1> HIDE DEF j
<1>11. JobTold(j, tree, clock)
  BY <1>8, <1>9, <1>10 DEF JobTold, Progress, SameHead, Screening
<1> QED BY <1>5, <1>11, OnlyReportsInv

LEMMA SkipOtherReportsInv == ASSUME Inv, ReportsInv, NEW f \in Others, SkipOther(f) PROVE ReportsInv'
<1>1. /\ job.stage = "walk" /\ job.file = None /\ LocalSound(job, past, clock) /\ job # NoJob
      /\ IsDB(job.db)
  BY DEF Inv, JobSound, RemoteSound, LocalSound, Sound, SkipOther, NoJob
<1>2. Young(job.db, clock)
  BY <1>1 DEF ReportsInv, JobTold
<1> DEFINE db == IF tree[f] = Absent THEN job.db ELSE [job.db EXCEPT !.kind = "degraded"]
           j == [job EXCEPT !.todo = @ \ {f}, !.db = db]
<1>3. Only(j)
  <2>1. [job.db EXCEPT !.kind = @] = job.db
    BY <1>1 DEF IsDB
  <2> QED BY <1>1, <2>1 DEF SkipOther, LocalSound
<1>4. /\ Young(db, clock)
      /\ db.kind = "local" => tree[f] = Absent /\ db = job.db
  BY <1>1, <1>2, WarnYoung
<1> HIDE DEF db
<1>5. /\ j.stage = "walk" /\ j.db = db /\ j.todo = job.todo \ {f} /\ j.file = None
      /\ j.read = job.read
  BY <1>1 DEF LocalSound
<1> HIDE DEF j
<1>6. ASSUME db.kind = "local", db.since = clock
      PROVE  Exact(db, LocalClaims(tree), clock) /\ Progress(j, tree, clock)
  <2>1. /\ Exact(job.db, LocalClaims(tree), clock) /\ Progress(job, tree, clock)
        /\ db = job.db /\ f \notin Present(tree)
    BY <1>1, <1>4, <1>6 DEF ReportsInv, JobTold, Present
  <2>2. (Others \cap Present(tree)) \ j.todo = (Others \cap Present(tree)) \ job.todo
    BY <1>5, <2>1
  <2> QED BY <1>1, <1>5, <2>1, <2>2 DEF Progress, Screening
<1>7. JobTold(j, tree, clock)
  BY <1>4, <1>5, <1>6 DEF JobTold
<1> QED BY <1>3, <1>7, OnlyReportsInv

LEMMA ReadOtherReportsInv == ASSUME Inv, ReportsInv, NEW f \in Others, ReadOther(f) PROVE ReportsInv'
<1>1. /\ job.stage = "walk" /\ job.file = None /\ f \in job.todo /\ LocalSound(job, past, clock)
      /\ job # NoJob
  BY DEF Inv, JobSound, RemoteSound, ReadOther, NoJob
<1> DEFINE j == [job EXCEPT !.todo = @ \ {f}, !.file = f, !.read = tree[f]]
<1>2. Only(j) /\ tree[f] # Absent
  BY DEF ReadOther
<1>3. tree[f] \in Contents[f] /\ tree[f] # None /\ f # None
  BY <1>2, ClaimsAssumption, ContentsAssumption DEF Inv, TreeSound, Others
<1>4. /\ j.file = f /\ j.read = tree[f] /\ j.db = job.db /\ j.todo = job.todo \ {f}
      /\ j.stage = "walk"
  BY <1>1 DEF LocalSound
<1> HIDE DEF j
<1>5. ASSUME job.db.kind = "local", job.db.since = clock
      PROVE  Exact(job.db, LocalClaims(tree), clock) /\ Progress(j, tree, clock)
  <2>1. Exact(job.db, LocalClaims(tree), clock) /\ Progress(job, tree, clock)
    BY <1>1, <1>5 DEF ReportsInv, JobTold
  <2>2. ASSUME NEW g \in (Others \cap Present(tree)) \ j.todo, g # j.file
        PROVE  Holds(job.db, OfFile(g, tree[g]), clock)
    <3>1. g \notin job.todo /\ g # job.file
      BY <1>1, <1>4, <2>2, ContentsAssumption DEF Others
    <3> QED BY <1>1, <2>1, <2>2, <3>1 DEF Progress
  <2> QED BY <1>1, <1>3, <1>4, <2>1, <2>2 DEF Progress, Screening
<1>6. JobTold(j, tree, clock)
  BY <1>1, <1>3, <1>4, <1>5 DEF ReportsInv, JobTold
<1> QED BY <1>2, <1>6, OnlyReportsInv

LEMMA StoreOtherReportsInv == ASSUME Inv, ReportsInv, StoreOther \/ StoreOtherFails PROVE ReportsInv'
<1>1. /\ job.stage = "walk" /\ job.file # None /\ job.read # None
      /\ LocalSound(job, past, clock) /\ job # NoJob /\ IsDB(job.db)
  BY DEF Inv, JobSound, RemoteSound, LocalSound, Sound, StoreOther, StoreOtherFails, NoJob
<1>2. Young(job.db, clock) /\ job.read \in Contents[job.file]
  BY <1>1 DEF ReportsInv, JobTold
<1>3. job.file \in Others /\ job.file \in Files /\ clock \in Nat /\ job.read # Absent
  BY <1>1 DEF LocalSound, HandSound, Others, Inv, TreeSound
<1>4. CASE StoreOther
  <2> DEFINE f == job.file
             cs == OfFile(f, job.read)
             db == Insert(job.db, cs, clock)
             j == [job EXCEPT !.read = None, !.db = db]
  <2>1. Only(j)
    BY <1>4 DEF StoreOther, StoreClaims, OfFile
  <2>2. IsFiniteSet(cs)
    <3>1. /\ IsFiniteSet(job.read.decls) /\ IsFiniteSet(job.read.imports)
          /\ IsFiniteSet(job.read.comments) /\ IsFiniteSet(job.read.exports)
      BY <1>2, <1>3, ClaimsAssumption, ContentsAssumption
    <3>2. IsFiniteSet(Located(TreeSitter(f, job.read)))
      BY <3>1, TreeSitterFinite
    <3> QED BY <3>2, FS_Subset DEF OfFile, FilterSensitive
  <2>3. \A c \in cs : Quiet(c)
    <3>1. cs = Stored("local", f, job.read)
      BY DEF Stored, OfFile
    <3> HIDE DEF cs, f
    <3> QED BY <3>1, StoredQuiet
  <2> HIDE DEF cs
  <2>4. Young(db, clock) /\ SameHead(db, job.db)
    BY <1>1, <1>2, <1>3, <2>2, <2>3, YoungInsert, InsertHead
  <2>5. /\ j.stage = "walk" /\ j.db = db /\ j.todo = job.todo /\ j.file = f /\ j.read = None
    BY <1>1 DEF LocalSound
  <2>6. ASSUME job.db.kind = "local", job.db.since = clock
        PROVE  Exact(db, LocalClaims(tree), clock) /\ Progress(j, tree, clock)
    <3>1. Exact(job.db, LocalClaims(tree), clock) /\ Progress(job, tree, clock)
      BY <1>1, <2>6 DEF ReportsInv, JobTold
    <3>2. job.read = tree[f] /\ f \in Others \cap Present(tree)
      BY <1>1, <1>3, <3>1 DEF Progress, Present
    <3>3. cs = OfFile(f, tree[f]) /\ cs \subseteq LocalClaims(tree)
      BY <3>2, LocalParts DEF cs
    <3>4. /\ Exact(db, LocalClaims(tree), clock) /\ Holds(db, cs, clock)
          /\ \A ds : Holds(job.db, ds, clock) => Holds(db, ds, clock)
      BY <1>1, <3>1, <3>3, InsertExact
    <3> HIDE DEF db, j
    <3>5. ASSUME NEW g \in (Others \cap Present(tree)) \ j.todo
          PROVE  Holds(db, OfFile(g, tree[g]), clock)
      <4>1. CASE g = f
        BY <3>3, <3>4, <4>1
      <4>2. CASE g # f
        <5>1. Holds(job.db, OfFile(g, tree[g]), clock)
          BY <1>1, <2>5, <3>1, <3>5, <4>2 DEF Progress
        <5> QED BY <3>4, <5>1
      <4> QED BY <4>1, <4>2
    <3>6. Holds(db, OfGo(tree), clock)
      BY <1>1, <3>1, <3>4 DEF Progress
    <3> QED BY <2>5, <3>4, <3>5, <3>6 DEF Progress, Screening
  <2> HIDE DEF db, j
  <2>7. JobTold(j, tree, clock)
    BY <2>4, <2>5, <2>6 DEF JobTold, SameHead
  <2> QED BY <2>1, <2>7, OnlyReportsInv
<1>5. CASE StoreOtherFails
  <2> DEFINE db == [job.db EXCEPT !.kind = "degraded"]
             j == [job EXCEPT !.read = None, !.file = None, !.db = db]
  <2>1. Young(db, clock) /\ db.kind = "degraded"
    BY <1>1, <1>2, WarnYoung
  <2>2. Only(j)
    BY <1>1, <1>5 DEF StoreOtherFails, LocalSound
  <2> HIDE DEF db
  <2>3. j.db = db /\ j.stage = "walk" /\ j.file = None
    BY <1>1 DEF LocalSound
  <2> HIDE DEF j
  <2>4. JobTold(j, tree, clock)
    BY <2>1, <2>3 DEF JobTold
  <2> QED BY <2>2, <2>4, OnlyReportsInv
<1> QED BY <1>4, <1>5

LEMMA HashOtherReportsInv == ASSUME Inv, ReportsInv, HashOther PROVE ReportsInv'
<1>1. /\ job.stage = "walk" /\ job.file # None /\ job.read = None
      /\ LocalSound(job, past, clock) /\ job # NoJob /\ IsDB(job.db)
  BY DEF Inv, JobSound, RemoteSound, LocalSound, Sound, HashOther, NoJob
<1>2. Young(job.db, clock)
  BY <1>1 DEF ReportsInv, JobTold
<1> DEFINE f == job.file
           marked == UpsertSource(job.db, f, tree[f], "0.1.0")
           db == IF tree[f] = Absent THEN job.db ELSE marked
           j == [job EXCEPT !.file = None, !.db = db]
<1>3. Only(j)
  BY DEF HashOther
<1>4. SameHead(marked, job.db) /\ marked.syms = job.db.syms /\ marked.rows = job.db.rows
  BY <1>1, EditHead, SourceFields
<1> HIDE DEF marked
<1>5. SameHead(db, job.db) /\ db.syms = job.db.syms /\ db.rows = job.db.rows
  BY <1>4 DEF SameHead
<1> HIDE DEF db
<1>6. Young(db, clock)
  BY <1>2, <1>5 DEF Young, SameHead
<1>7. /\ j.stage = "walk" /\ j.db = db /\ j.todo = job.todo /\ j.file = None /\ j.read = None
  BY <1>1 DEF LocalSound
<1> HIDE DEF j
<1>8. ASSUME job.db.kind = "local", job.db.since = clock
      PROVE  Exact(db, LocalClaims(tree), clock) /\ Progress(j, tree, clock)
  <2>1. Exact(job.db, LocalClaims(tree), clock) /\ Progress(job, tree, clock)
    BY <1>1, <1>8 DEF ReportsInv, JobTold
  <2>2. Exact(db, LocalClaims(tree), clock)
    BY <1>5, <2>1 DEF Exact
  <2>3. \A ds : Holds(job.db, ds, clock) => Holds(db, ds, clock)
    BY <1>5 DEF Holds
  <2>4. /\ Holds(job.db, OfGo(tree), clock)
        /\ \A g \in (Others \cap Present(tree)) \ job.todo : Holds(job.db, OfFile(g, tree[g]), clock)
    BY <1>1, <2>1 DEF Progress
  <2> QED BY <1>7, <2>2, <2>3, <2>4 DEF Progress, Screening
<1>9. JobTold(j, tree, clock)
  BY <1>5, <1>6, <1>7, <1>8 DEF JobTold, SameHead
<1> QED BY <1>3, <1>9, OnlyReportsInv

LEMMA WalkedReportsInv == ASSUME Inv, ReportsInv, Walked PROVE ReportsInv'
<1>1. /\ job.stage = "walk" /\ job.file = None /\ job.todo = {} /\ LocalSound(job, past, clock)
      /\ job # NoJob
  BY DEF Inv, JobSound, RemoteSound, Walked, NoJob
<1> DEFINE j == IF job.tier2 THEN [job EXCEPT !.stage = "generate", !.todo = ImportPaths(job.db)]
                ELSE [job EXCEPT !.stage = "seed"]
<1>2. Only(j)
  BY DEF Walked
<1>3. j.stage \in {"generate", "seed"} /\ j.db = job.db
  BY <1>1 DEF LocalSound
<1> HIDE DEF j
<1>4. ASSUME job.db.kind = "local", job.db.since = clock
      PROVE  Exact(job.db, LocalClaims(tree), clock) /\ Holds(job.db, LocalClaims(tree), clock)
  <2>1. Exact(job.db, LocalClaims(tree), clock) /\ Progress(job, tree, clock)
    BY <1>1, <1>4 DEF ReportsInv, JobTold
  <2>2. ASSUME NEW f \in Others \cap Present(tree)
        PROVE  Holds(job.db, OfFile(f, tree[f]), clock)
    <3>1. f # job.file
      BY <1>1, ContentsAssumption DEF Others
    <3> QED BY <1>1, <2>1, <3>1 DEF Progress
  <2>3. Holds(job.db, OfGo(tree), clock)
    BY <1>1, <2>1 DEF Progress
  <2> QED BY <2>1, <2>2, <2>3, LocalParts
<1>5. JobTold(j, tree, clock)
  BY <1>1, <1>3, <1>4 DEF ReportsInv, JobTold, Progress, Screening
<1> QED BY <1>2, <1>5, OnlyReportsInv

\* What the generator is told of the symbols of a path.
LEMMA MapTold ==
  ASSUME NEW db, NEW L, NEW now, Exact(db, L, now), Holds(db, L, now), NEW p
  PROVE  LET symbols == SymbolMap(db, p)
         IN  \A n \in DOMAIN symbols :
               /\ <<p, n>> \in DOMAIN db.syms /\ symbols[n].kind = db.syms[<<p, n>>].kind
               /\ symbols[n].vis = db.syms[<<p, n>>].vis
<1> DEFINE symbols == SymbolMap(db, p)
<1>1. ASSUME NEW n \in DOMAIN symbols
      PROVE  \E r \in DOMAIN db.rows : r.pred \notin SemanticOnly /\ r.path = p /\ r.name = n
  BY DEF SymbolMap, Structural, Where, Restrict
<1>2. \A n \in DOMAIN symbols : symbols[n] = db.syms[<<p, n>>]
  BY DEF SymbolMap
<1> HIDE DEF symbols
<1>3. ASSUME NEW n \in DOMAIN symbols PROVE <<p, n>> \in DOMAIN db.syms
  <2>1. PICK r \in DOMAIN db.rows : r.pred \notin SemanticOnly /\ r.path = p /\ r.name = n
    BY <1>1
  <2>2. PICK c \in L : r = Row(c, now)
    BY <2>1 DEF Exact
  <2>3. Key(c) = <<p, n>>
    BY <2>1, <2>2, RowFields DEF Key
  <2> QED BY <2>3 DEF Holds
<1> QED BY <1>2, <1>3 DEF symbols

\* An answer is quiet, and belongs to no file.
LEMMA AnswerQuiet ==
  ASSUME NEW p, NEW symbols, NEW answer \in Answers
  PROVE  LET cs == ParseResponse(p, symbols, answer)
         IN  /\ \A c \in cs : Quiet(c)
             /\ \A verdict : \A c \in Verify(cs, verdict) : Quiet(c) /\ c.file = "llm-semantic"
<1> DEFINE syms == [k \in {<<p, n>> : n \in DOMAIN symbols} |-> symbols[k[2]]]
           cs == ParseResponse(p, symbols, answer)
<1>1. \A n \in DOMAIN symbols : <<p, n>> \in DOMAIN syms /\ syms[<<p, n>>] = symbols[n]
  OBVIOUS
<1> HIDE DEF syms
<1>2. Echoes(cs, syms) /\ \A verdict : Echoes(Verify(cs, verdict), syms)
  BY <1>1, AnswerEchoes
<1> HIDE DEF cs
<1>3. \A c \in cs : Quiet(c)
  BY <1>2 DEF Echoes, Quiet, SemanticOnly
<1>4. ASSUME NEW verdict PROVE \A c \in Verify(cs, verdict) : Quiet(c) /\ c.file = "llm-semantic"
  BY <1>2 DEF Echoes, Quiet, SemanticOnly
<1> QED BY <1>3, <1>4 DEF cs

LEMMA GenerateReportsInv == ASSUME Inv, ReportsInv, NEW p, Generate(p) PROVE ReportsInv'
<1>1. /\ job.stage = "generate" /\ LocalSound(job, past, clock) /\ job # NoJob
      /\ IsDB(job.db)
  <2>1. job.stage = "generate"
    BY DEF Generate
  <2> QED BY <2>1 DEF Inv, JobSound, RemoteSound, LocalSound, Sound, NoJob
<1>2. Young(job.db, clock) /\ clock \in Nat
  BY <1>1 DEF ReportsInv, JobTold, Inv, TreeSound
<1>3. CASE Only([job EXCEPT !.todo = @ \ {p}])
  <2> DEFINE j == [job EXCEPT !.todo = @ \ {p}]
  <2>1. j.stage = "generate" /\ j.db = job.db
    BY <1>1 DEF LocalSound
  <2>2. Only(j)
    BY <1>3
  <2> HIDE DEF j
  <2>3. JobTold(j, tree, clock)
    BY <1>1, <2>1 DEF ReportsInv, JobTold, Progress
  <2> QED BY <2>2, <2>3, OnlyReportsInv
<1>4. ASSUME NEW answer \in Answers,
             NEW stored \in SUBSET ParseResponse(p, SymbolMap(job.db, p), answer),
             Only([job EXCEPT !.todo = @ \ {p}, !.db = Replace(@, p, stored, clock)])
      PROVE  ReportsInv'
  <2> DEFINE symbols == SymbolMap(job.db, p)
             db == Replace(job.db, p, stored, clock)
             j == [job EXCEPT !.todo = @ \ {p}, !.db = db]
  <2>1. Only(j)
    BY <1>4
  <2>2. IsFiniteSet(stored) /\ \A c \in stored : Quiet(c)
    BY AnswerFinite, AnswerQuiet, FS_Subset
  <2>3. Young(db, clock) /\ SameHead(db, job.db)
    BY <1>1, <1>2, <2>2, YoungReplace, ReplaceHead
  <2>4. ASSUME job.db.kind = "local", job.db.since = clock
        PROVE  Exact(db, LocalClaims(tree), clock) /\ Holds(db, LocalClaims(tree), clock)
    <3>1. /\ Exact(job.db, LocalClaims(tree), clock)
          /\ Holds(job.db, LocalClaims(tree), clock)
      BY <1>1, <2>4 DEF ReportsInv, JobTold, Progress
    <3>2. \A n \in DOMAIN symbols :
            /\ <<p, n>> \in DOMAIN job.db.syms
            /\ symbols[n].kind = job.db.syms[<<p, n>>].kind
            /\ symbols[n].vis = job.db.syms[<<p, n>>].vis
      BY <3>1, MapTold
    <3> HIDE DEF symbols
    <3>3. Echoes(ParseResponse(p, symbols, answer), job.db.syms)
      BY <3>2, AnswerEchoes
    <3>4. Echoes(stored, job.db.syms)
      BY <1>4, <3>3 DEF Echoes, symbols
    <3>5. \A c \in LocalClaims(tree) : c.pred \notin SemanticOnly
      BY LocalQuiet
    <3> QED BY <1>1, <3>1, <3>4, <3>5, ReplaceExact
  <2> HIDE DEF db
  <2>5. j.stage = "generate" /\ j.db = db
    BY <1>1 DEF LocalSound
  <2> HIDE DEF j
  <2>6. JobTold(j, tree, clock)
    BY <2>3, <2>4, <2>5 DEF JobTold, Progress, SameHead
  <2> QED BY <2>1, <2>6, OnlyReportsInv
<1> QED BY <1>3, <1>4 DEF Generate

LEMMA GateReportsInv == ASSUME Inv, ReportsInv, Gate PROVE ReportsInv'
<1>1. job.stage = "generate" /\ LocalSound(job, past, clock) /\ job # NoJob /\ IsDB(job.db)
  BY DEF Inv, JobSound, RemoteSound, LocalSound, Sound, Gate, NoJob
<1>2. Young(job.db, clock)
  BY <1>1 DEF ReportsInv, JobTold
<1> DEFINE rest == DeleteSensitive(DeleteLowConfidence(job.db.rows))
           db == [job.db EXCEPT !.rows = rest]
           j == [job EXCEPT !.stage = "seed", !.db = db]
<1>3. Only(j)
  BY <1>1 DEF Gate, LocalSound
<1>4. Trimmed(rest, job.db.rows)
  BY DeletesTrim
<1>5. ASSUME job.db.kind = "local", job.db.since = clock
      PROVE  Exact(db, LocalClaims(tree), clock) /\ Holds(db, LocalClaims(tree), clock)
  <2>1. Exact(job.db, LocalClaims(tree), clock) /\ Holds(job.db, LocalClaims(tree), clock)
    BY <1>1, <1>5 DEF ReportsInv, JobTold, Progress
  <2>2. \A c \in LocalClaims(tree) : c.pred \notin SemanticOnly /\ c.text \notin Sensitive
    BY LocalQuiet
  <2> QED BY <1>1, <2>1, <2>2, GateExact
<1> HIDE DEF rest
<1>6. SameHead(db, job.db) /\ db.rows = rest
  BY <1>1, EditHead, RowsFields
<1> HIDE DEF db
<1>7. Young(db, clock)
  BY <1>2, <1>4, <1>6, YoungAlike DEF SameHead
<1>8. j.stage = "seed" /\ j.db = db
  BY <1>1 DEF LocalSound
<1> HIDE DEF j
<1>9. JobTold(j, tree, clock)
  BY <1>5, <1>6, <1>7, <1>8 DEF JobTold, Progress, SameHead
<1> QED BY <1>3, <1>9, OnlyReportsInv

LEMMA SeedReportsInv == ASSUME Inv, ReportsInv, Seed PROVE ReportsInv'
<1>1. job.stage = "seed" /\ LocalSound(job, past, clock) /\ job # NoJob /\ IsDB(job.db)
  BY DEF Inv, JobSound, RemoteSound, LocalSound, Sound, Seed, NoJob
<1> DEFINE seeded == Present(tree) \ GeneratedNames
           sources == IF ~job.tribal THEN job.db.sources
                      ELSE [f \in seeded \cup DOMAIN job.db.sources |->
                              IF f \in seeded THEN [hash |-> tree[f], version |-> "tribal-seed"]
                              ELSE job.db.sources[f]]
           db == [job.db EXCEPT !.sources = sources]
           j == [job EXCEPT !.stage = "publish", !.db = db]
<1>2. Only(j)
  BY <1>1 DEF Seed, LocalSound
<1> HIDE DEF sources
<1>3. SameHead(db, job.db) /\ db.syms = job.db.syms /\ db.rows = job.db.rows
  BY <1>1, EditHead DEF IsDB
<1> HIDE DEF db
<1>4. j.stage = "publish" /\ j.db = db
  BY <1>1 DEF LocalSound
<1> HIDE DEF j
<1>5. Young(db, clock)
  BY <1>1, <1>3 DEF ReportsInv, JobTold, Young, SameHead
<1>6. ASSUME job.db.kind = "local", job.db.since = clock
      PROVE  Exact(db, LocalClaims(tree), clock) /\ Holds(db, LocalClaims(tree), clock)
  <2>1. Exact(job.db, LocalClaims(tree), clock) /\ Holds(job.db, LocalClaims(tree), clock)
    BY <1>1, <1>6 DEF ReportsInv, JobTold, Progress, Screening
  <2> QED BY <1>3, <2>1 DEF Exact, Holds
<1>7. JobTold(j, tree, clock)
  BY <1>3, <1>4, <1>5, <1>6 DEF JobTold, Progress, SameHead
<1> QED BY <1>2, <1>7, OnlyReportsInv

LEMMA PublishReportsInv == ASSUME Inv, ReportsInv, Publish \/ RemoteDone PROVE ReportsInv'
<1>1. /\ LocalSound(job, past, clock) \/ RemoteSound(job, past, clock)
      /\ job # NoJob /\ job.stage \in {"publish", "remote"}
  BY DEF Inv, JobSound, Publish, RemoteDone, NoJob
<1>2. IsDB(job.db) /\ (job.stage = "remote" => job.db.kind # "local")
  BY <1>1 DEF LocalSound, RemoteSound, Sound, Filling, Screening
<1>3. Young(job.db, clock) /\ clock \in Nat
  BY <1>1 DEF ReportsInv, JobTold, Inv, TreeSound
<1>4. /\ published' = [job.db EXCEPT !.done = clock] /\ job' = NoJob /\ index' = NoIndex
      /\ call' = NoCall /\ UNCHANGED <<tree, clock, mtime>>
  BY DEF Publish, RemoteDone
<1> DEFINE db == [job.db EXCEPT !.done = clock]
<1>5. /\ db.done = clock /\ db.since = job.db.since /\ db.rows = job.db.rows
      /\ db.syms = job.db.syms /\ db.kind = job.db.kind
  BY <1>2 DEF IsDB
<1> HIDE DEF db
<1>6. \A r \in DOMAIN db.rows : r.at \in Nat /\ r.at <= clock /\ Bears(tree, r)
  BY <1>3, <1>5 DEF Young, Quiet, Bears
<1>7. ASSUME db.kind = "local", clock = db.since
      PROVE  Exact(db, LocalClaims(tree), clock) /\ Holds(db, LocalClaims(tree), clock)
  <2>1. Exact(job.db, LocalClaims(tree), clock) /\ Holds(job.db, LocalClaims(tree), clock)
    BY <1>1, <1>2, <1>5, <1>7 DEF ReportsInv, JobTold, Progress, Screening
  <2> QED BY <1>5, <2>1 DEF Exact, Holds
<1>8. Counted(db.rows) /\ db.since \in Nat /\ db.since <= clock
  BY <1>3, <1>5 DEF Young
<1>9. published' = db
  BY <1>4 DEF db
<1>10. PublishedTold'
  BY <1>3, <1>4, <1>5, <1>6, <1>7, <1>8, <1>9 DEF PublishedTold, Fresh
<1> QED BY <1>4, <1>10 DEF ReportsInv, TimesTold, JobTold, CallTold, IndexTold, NoCall, NoIndex

LEMMA FailReportsInv == ASSUME ReportsInv, Fail PROVE ReportsInv'
BY OnlyReportsInv DEF Fail, JobTold

LEMMA RemoteFileReportsInv ==
  ASSUME Inv, ReportsInv, NEW f \in Files, RemoteFile(f) \/ RemoteFileFails(f) PROVE ReportsInv'
<1>1. f \in job.todo /\ RemoteSound(job, past, clock) /\ job # NoJob /\ job.stage = "remote"
  BY DEF Inv, JobSound, LocalSound, Filling, Screening, RemoteFile, RemoteFileFails, NoJob
<1>2. IsDB(job.db) /\ Young(job.db, clock) /\ clock \in Nat /\ job.db.kind \in {"remote", "incremental"}
  BY <1>1 DEF ReportsInv, JobTold, RemoteSound, Sound, Inv, TreeSound
<1>3. CASE RemoteFile(f)
  <2> DEFINE cs == Stored(job.db.kind, f, tree[f])
             mid == Insert(job.db, cs, clock)
             db == UpsertSource(mid, f, tree[f], "0.1.0")
             j == [job EXCEPT !.todo = @ \ {f}, !.db = db]
  <2>1. Only(j) /\ tree[f] # Absent
    BY <1>1, <1>2, <1>3 DEF RemoteFile, Stored
  <2>2. IsFiniteSet(cs) /\ \A c \in cs : Quiet(c)
    <3>1. Valid(tree) /\ f \in Present(tree)
      BY <2>1 DEF Inv, TreeSound, Valid, Present
    <3> QED BY <3>1, StoredFinite, StoredQuiet
  <2> HIDE DEF cs
  <2>3. IsDB(mid) /\ Young(mid, clock) /\ SameHead(mid, job.db)
    BY <1>2, <2>2, YoungInsert, InsertFields, InsertHead
  <2> HIDE DEF mid
  <2>4. SameHead(db, mid) /\ db.rows = mid.rows
    BY <2>3, EditHead, SourceFields
  <2> HIDE DEF db
  <2>5. Young(db, clock) /\ db.kind # "local"
    BY <1>2, <2>3, <2>4 DEF Young, SameHead
  <2>6. j.stage = "remote" /\ j.db = db
    BY <1>1 DEF RemoteSound
  <2> HIDE DEF j
  <2>7. JobTold(j, tree, clock)
    BY <2>5, <2>6 DEF JobTold
  <2> QED BY <2>1, <2>7, OnlyReportsInv
<1>4. CASE RemoteFileFails(f)
  <2> DEFINE j == [job EXCEPT !.todo = @ \ {f}]
  <2>1. j.stage = "remote" /\ j.db = job.db
    BY <1>1 DEF RemoteSound
  <2>2. Only(j)
    BY <1>4 DEF RemoteFileFails
  <2> HIDE DEF j
  <2>3. JobTold(j, tree, clock)
    BY <1>2, <2>1 DEF JobTold
  <2> QED BY <2>2, <2>3, OnlyReportsInv
<1> QED BY <1>3, <1>4

-----------------------------------------------------------------------------
(* The reports: the writers of the published database *)

LEMMA AskReportsInv == ASSUME ReportsInv, NEW p, Ask(p) PROVE ReportsInv'
<1>1. call' = [stage |-> "asked", path |-> p, symbols |-> SymbolMap(published, p)]
      /\ UNCHANGED <<tree, clock, mtime, published, job, index>>
  BY DEF Ask
<1>2. CallTold'
  <2> SUFFICES ASSUME published # NoDB, Fresh(published)
               PROVE  LET symbols == SymbolMap(published, p)
                      IN  \A n \in DOMAIN symbols :
                            /\ <<p, n>> \in DOMAIN published.syms
                            /\ symbols[n].kind = published.syms[<<p, n>>].kind
                            /\ symbols[n].vis = published.syms[<<p, n>>].vis
    BY <1>1 DEF CallTold, Fresh
  <2>1. Exact(published, LocalClaims(tree), clock) /\ Holds(published, LocalClaims(tree), clock)
    BY DEF ReportsInv, PublishedTold
  <2> QED BY <2>1, MapTold
<1> QED BY <1>1, <1>2 DEF ReportsInv, TimesTold, PublishedTold, IndexTold, Fresh

LEMMA CallFailsReportsInv == ASSUME ReportsInv, CallFails PROVE ReportsInv'
BY DEF CallFails, NoCall, ReportsInv, TimesTold, PublishedTold, CallTold, IndexTold, Fresh

LEMMA OpenIndexReportsInv == ASSUME Inv, ReportsInv, OpenIndex PROVE ReportsInv'
<1>1. /\ index' = [stage |-> "open", tree |-> tree, todo |-> GoFiles \cap Present(tree),
                   external |-> External]
      /\ UNCHANGED <<tree, clock, mtime, published, job, call>>
  BY DEF OpenIndex
<1>2. Valid(tree)
  BY DEF Inv, TreeSound, Valid
<1> QED BY <1>1, <1>2 DEF ReportsInv, TimesTold, PublishedTold, CallTold, IndexTold, Fresh

LEMMA CloseIndexReportsInv == ASSUME ReportsInv, CloseIndex PROVE ReportsInv'
BY DEF CloseIndex, NoIndex, ReportsInv, TimesTold, PublishedTold, CallTold, IndexTold, Fresh

\* The flags of a database leave the rest of it alone.
LEMMA FlagHead ==
  ASSUME NEW db, IsDB(db)
  PROVE  /\ SameHead([db EXCEPT !.enriched = TRUE], db)
         /\ [db EXCEPT !.enriched = TRUE].rows = db.rows
         /\ [db EXCEPT !.enriched = TRUE].syms = db.syms
         /\ [db EXCEPT !.imported = TRUE].rows = db.rows
         /\ [db EXCEPT !.imported = TRUE].imported
         /\ [db EXCEPT !.imported = TRUE].since = db.since
         /\ [db EXCEPT !.imported = TRUE].done = db.done
BY DEF IsDB, SameHead

LEMMA AnsweredReportsInv == ASSUME Inv, ReportsInv, Answered PROVE ReportsInv'
<1>1. PICK answer \in Answers :
        LET cs == ParseResponse(call.path, call.symbols, answer)
        IN  \E verdict \in [cs -> {"accept", "downgrade", "reject"}] :
              \E stored \in SUBSET Verify(cs, verdict) :
                Existing([Replace(published, call.path, stored, clock) EXCEPT !.enriched = TRUE])
  BY DEF Answered
<1>2. PICK verdict :
        \E stored \in SUBSET Verify(ParseResponse(call.path, call.symbols, answer), verdict) :
          Existing([Replace(published, call.path, stored, clock) EXCEPT !.enriched = TRUE])
  BY <1>1
<1>3. PICK stored \in SUBSET Verify(ParseResponse(call.path, call.symbols, answer), verdict) :
        Existing([Replace(published, call.path, stored, clock) EXCEPT !.enriched = TRUE])
  BY <1>2
<1> DEFINE p == call.path
           cs == ParseResponse(p, call.symbols, answer)
           db == Replace(published, p, stored, clock)
           new == [db EXCEPT !.enriched = TRUE]
<1>4. /\ published # NoDB /\ IsDB(published) /\ clock \in Nat /\ call.stage = "asked"
      /\ published' = new /\ call' = NoCall /\ UNCHANGED <<tree, clock, mtime, job, index>>
  BY <1>3 DEF Existing, Answered, Inv, PublishedSound, Sound, TreeSound
<1>5. /\ published.since \in Nat /\ published.since <= clock /\ published.done \in Nat
      /\ Counted(published.rows)
      /\ ~published.imported =>
           \A r \in DOMAIN published.rows : r.file \in Files => r.at \in Nat /\ r.at <= published.done
      /\ clock = published.since => \A r \in DOMAIN published.rows : Bears(tree, r)
  BY <1>4 DEF ReportsInv, PublishedTold
<1>6. IsFiniteSet(stored) /\ \A c \in stored : Quiet(c) /\ c.file = "llm-semantic"
  <2>1. /\ IsFiniteSet(Verify(cs, verdict))
        /\ \A c \in Verify(cs, verdict) : Quiet(c) /\ c.file = "llm-semantic"
    BY AnswerFinite, AnswerQuiet
  <2> QED BY <2>1, FS_Subset
<1>7. ASSUME Fresh(published)
      PROVE  Exact(db, LocalClaims(tree), clock) /\ Holds(db, LocalClaims(tree), clock)
  <2>1. Exact(published, LocalClaims(tree), clock) /\ Holds(published, LocalClaims(tree), clock)
    BY <1>4, <1>7 DEF ReportsInv, PublishedTold
  <2>2. \A n \in DOMAIN call.symbols :
          /\ <<p, n>> \in DOMAIN published.syms
          /\ call.symbols[n].kind = published.syms[<<p, n>>].kind
          /\ call.symbols[n].vis = published.syms[<<p, n>>].vis
    BY <1>4, <1>7 DEF ReportsInv, CallTold
  <2>3. Echoes(Verify(cs, verdict), published.syms)
    BY <2>2, AnswerEchoes
  <2>4. Echoes(stored, published.syms)
    BY <2>3 DEF Echoes
  <2>5. \A c \in LocalClaims(tree) : c.pred \notin SemanticOnly
    BY LocalQuiet
  <2> QED BY <1>4, <2>1, <2>4, <2>5, ReplaceExact
<1> HIDE DEF p, cs
<1>8. /\ IsDB(db) /\ SameHead(db, published) /\ Counted(db.rows)
      /\ \A r \in DOMAIN db.rows : r \in DOMAIN published.rows \/ \E c \in stored : r = Row(c, clock)
  BY <1>4, <1>5, <1>6, ReplaceFields, ReplaceHead, ReplaceCounted
<1> HIDE DEF db
<1>9. SameHead(new, db) /\ new.rows = db.rows /\ new.syms = db.syms
  BY <1>8, FlagHead
<1> HIDE DEF new
<1>10. ASSUME NEW c \in stored
       PROVE  Row(c, clock).file \notin Files /\ Bears(tree, Row(c, clock))
  BY <1>6, RowFields, ContentsAssumption DEF Quiet, Bears
<1>11. Exact(db, LocalClaims(tree), clock) /\ Holds(db, LocalClaims(tree), clock) =>
         Exact(new, LocalClaims(tree), clock) /\ Holds(new, LocalClaims(tree), clock)
  BY <1>9 DEF Exact, Holds
<1>12. SameHead(new, published) /\ (Fresh(new) => Fresh(published))
  BY <1>8, <1>9 DEF SameHead, Fresh
<1>13. \A r \in DOMAIN new.rows : r \in DOMAIN published.rows \/ \E c \in stored : r = Row(c, clock)
  BY <1>8, <1>9
<1>14. PublishedTold'
  <2>1. /\ published'.since \in Nat /\ published'.since <= clock /\ published'.done \in Nat
        /\ Counted(published'.rows)
    BY <1>4, <1>5, <1>8, <1>9, <1>12 DEF SameHead
  <2>2. ~published'.imported =>
          \A r \in DOMAIN published'.rows :
            r.file \in Files => r.at \in Nat /\ r.at <= published'.done
    BY <1>4, <1>5, <1>10, <1>12, <1>13 DEF SameHead
  <2>3. clock = published'.since => \A r \in DOMAIN published'.rows : Bears(tree, r)
    BY <1>4, <1>5, <1>10, <1>12, <1>13 DEF SameHead
  <2>4. Fresh(new) => Exact(new, LocalClaims(tree), clock) /\ Holds(new, LocalClaims(tree), clock)
    BY <1>7, <1>11, <1>12
  <2> QED BY <1>4, <2>1, <2>2, <2>3, <2>4 DEF PublishedTold, Fresh
<1>15. IndexTold'
  BY <1>4, <1>12 DEF ReportsInv, IndexTold, SameHead
<1> QED BY <1>4, <1>14, <1>15 DEF ReportsInv, TimesTold, CallTold, NoCall

\* A step of the importer that adds nothing untrue.
LEMMA ImportedTold ==
  ASSUME Inv, ReportsInv, published # NoDB, NEW db, IsDB(db), db.since = published.since,
         db.done = published.done, Counted(db.rows),
         clock = published.since => \A r \in DOMAIN db.rows : Bears(tree, r),
         Existing([db EXCEPT !.imported = TRUE]), UNCHANGED call,
         index'.stage = "open", index'.tree = index.tree, index'.todo \subseteq index.todo,
         index.stage = "open"
  PROVE  ReportsInv'
<1> DEFINE new == [db EXCEPT !.imported = TRUE]
<1>1. /\ new.rows = db.rows /\ new.imported /\ new.since = db.since /\ new.done = db.done
  BY FlagHead
<1>2. published' = new /\ UNCHANGED <<tree, clock, mtime, job>>
  BY DEF Existing
<1> HIDE DEF new
<1>3. /\ published.since \in Nat /\ published.since <= clock /\ published.done \in Nat
  BY DEF ReportsInv, PublishedTold
<1>4. PublishedTold'
  BY <1>1, <1>2, <1>3 DEF PublishedTold, Fresh
<1>5. IndexTold'
  BY <1>1, <1>2 DEF ReportsInv, IndexTold
<1>6. CallTold'
  BY <1>1, <1>2 DEF CallTold, Fresh
<1> QED BY <1>2, <1>4, <1>5, <1>6 DEF ReportsInv, TimesTold

LEMMA ImportDocumentReportsInv ==
  ASSUME Inv, ReportsInv, NEW f \in GoFiles, ImportDocument(f) PROVE ReportsInv'
<1>1. /\ published # NoDB /\ IsDB(published) /\ index.stage = "open" /\ f \in index.todo
      /\ UNCHANGED call /\ index' = [index EXCEPT !.todo = @ \ {f}]
      /\ index = [stage |-> "open", tree |-> index.tree, todo |-> index.todo,
                  external |-> index.external]
  BY DEF ImportDocument, Existing, Inv, PublishedSound, Sound, IndexSound
<1>2. /\ Valid(index.tree) /\ f \in Present(index.tree)
      /\ clock = published.since => index.tree = tree
  BY <1>1 DEF ReportsInv, IndexTold
<1>3. index'.stage = "open" /\ index'.tree = index.tree /\ index'.todo \subseteq index.todo
  BY <1>1
<1> DEFINE cs == DocumentClaims(index.tree, f)
           marked == UpsertSource(published, f, None, "0.1.0")
           rest == DeleteByExtractorAndFile(marked.rows, "scip", f)
           less == [marked EXCEPT !.rows = rest]
           db == Insert(less, cs, clock)
<1>4. Existing([db EXCEPT !.imported = TRUE])
  BY DEF ImportDocument, ImportDocumentInto
<1>5. IsFiniteSet(cs) /\ \A c \in cs : Bears(index.tree, c)
  BY <1>2, DocumentFinite, DocumentBears
<1> HIDE DEF cs
<1>6. IsDB(marked) /\ SameHead(marked, published) /\ marked.rows = published.rows
  BY <1>1, SourceFields, EditHead
<1> HIDE DEF marked
<1>7. Trimmed(rest, published.rows)
  BY <1>6, DeletesTrim
<1> HIDE DEF rest
<1>8. IsDB(less) /\ SameHead(less, published) /\ less.rows = rest
  BY <1>6, RowsFields, EditHead DEF SameHead
<1> HIDE DEF less
<1>9. /\ IsDB(db) /\ SameHead(db, published) /\ db.rows = InsertClaims(rest, cs, clock)
      /\ DOMAIN db.rows = DOMAIN rest \cup {Row(c, clock) : c \in cs}
  BY <1>8, InsertFields, InsertHead DEF SameHead
<1> HIDE DEF db
<1>10. Counted(db.rows)
  BY <1>1, <1>5, <1>7, <1>9, TrimmedCounted, InsertCounted DEF ReportsInv, PublishedTold
<1>11. ASSUME clock = published.since PROVE \A r \in DOMAIN db.rows : Bears(tree, r)
  <2>1. \A r \in DOMAIN rest : Bears(tree, r)
    BY <1>1, <1>7, <1>11 DEF ReportsInv, PublishedTold, Trimmed
  <2>2. ASSUME NEW c \in cs PROVE Bears(tree, Row(c, clock))
    <3>1. Bears(tree, c)
      BY <1>2, <1>5, <1>11
    <3> QED BY <3>1, RowFields DEF Bears
  <2> QED BY <1>9, <2>1, <2>2
<1> QED BY <1>1, <1>3, <1>4, <1>9, <1>10, <1>11, ImportedTold DEF SameHead

LEMMA ImportExternalReportsInv ==
  ASSUME Inv, ReportsInv, NEW e \in External, ImportExternal(e) PROVE ReportsInv'
<1>1. /\ published # NoDB /\ IsDB(published) /\ index.stage = "open" /\ UNCHANGED call
      /\ index' = [index EXCEPT !.external = @ \ {e}]
      /\ index = [stage |-> "open", tree |-> index.tree, todo |-> index.todo,
                  external |-> index.external]
  BY DEF ImportExternal, Existing, Inv, PublishedSound, Sound, IndexSound
<1>2. index'.stage = "open" /\ index'.tree = index.tree /\ index'.todo \subseteq index.todo
  BY <1>1
<1> DEFINE cs == ExternalClaims(e)
           db == Insert(published, cs, clock)
<1>3. Existing([db EXCEPT !.imported = TRUE])
  BY DEF ImportExternal
<1>4. IsFiniteSet(cs) /\ \A c \in cs : c.pred = "has_doc"
  BY ExternalQuiet
<1> HIDE DEF cs
<1>5. /\ IsDB(db) /\ SameHead(db, published) /\ db.rows = InsertClaims(published.rows, cs, clock)
      /\ DOMAIN db.rows = DOMAIN published.rows \cup {Row(c, clock) : c \in cs}
  BY <1>1, InsertFields, InsertHead
<1> HIDE DEF db
<1>6. Counted(db.rows)
  BY <1>1, <1>4, <1>5, InsertCounted DEF ReportsInv, PublishedTold
<1>7. ASSUME clock = published.since PROVE \A r \in DOMAIN db.rows : Bears(tree, r)
  <2>1. \A r \in DOMAIN published.rows : Bears(tree, r)
    BY <1>1, <1>7 DEF ReportsInv, PublishedTold
  <2>2. \A c \in cs : Bears(tree, Row(c, clock))
    BY <1>4, RowFields DEF Bears
  <2> QED BY <1>5, <2>1, <2>2
<1> QED BY <1>1, <1>2, <1>3, <1>5, <1>6, <1>7, ImportedTold DEF SameHead

\* Every step keeps the invariant of the reports.
LEMMA NextReportsInv == ASSUME Inv, ReportsInv, [Next]_vars PROVE ReportsInv'
<1>1. CASE \E f \in Files : \E u \in Contents[f] \cup {Absent} : Edit(f, u)
  BY <1>1, EditReportsInv
<1>2. CASE Local
  <2>1. CASE Begin \/ LoadGo \/ LoadGoFails \/ StoreGo
    BY <2>1, BeginReportsInv, LoadReportsInv, StoreGoReportsInv
  <2>2. CASE \E f \in Others : SkipOther(f) \/ ReadOther(f)
    BY <2>2, SkipOtherReportsInv, ReadOtherReportsInv
  <2>3. CASE StoreOther \/ StoreOtherFails \/ HashOther \/ Walked
    BY <2>3, StoreOtherReportsInv, HashOtherReportsInv, WalkedReportsInv
  <2>4. CASE \E p \in ImportPaths(job.db) : Generate(p)
    BY <2>4, GenerateReportsInv
  <2>5. CASE Gate \/ Seed \/ Publish \/ Fail
    BY <2>5, GateReportsInv, SeedReportsInv, PublishReportsInv, FailReportsInv
  <2> QED BY <1>2, <2>1, <2>2, <2>3, <2>4, <2>5 DEF Local
<1>3. CASE Remote
  BY <1>3, BeginReportsInv, RemoteFileReportsInv, PublishReportsInv DEF Remote
<1>4. CASE Writers
  <2>1. CASE \E p \in ImportPaths(published) : Ask(p)
    BY <2>1, AskReportsInv
  <2>2. CASE Answered \/ CallFails
    BY <2>2, AnsweredReportsInv, CallFailsReportsInv
  <2>3. CASE OpenIndex \/ CloseIndex
    BY <2>3, OpenIndexReportsInv, CloseIndexReportsInv
  <2>4. CASE \E f \in GoFiles : ImportDocument(f)
    BY <2>4, ImportDocumentReportsInv
  <2>5. CASE \E e \in External : ImportExternal(e)
    BY <2>5, ImportExternalReportsInv
  <2> QED BY <1>4, <2>1, <2>2, <2>3, <2>4, <2>5 DEF Writers
<1>5. CASE UNCHANGED vars
  BY <1>5 DEF vars, ReportsInv, TimesTold, PublishedTold, CallTold, IndexTold, Fresh
<1> QED BY <1>1, <1>2, <1>3, <1>4, <1>5 DEF Next

LEMMA ReportsInvHolds == Spec => []ReportsInv
<1>1. Init => ReportsInv
  BY InitReportsInv
<1>2. Inv /\ ReportsInv /\ [Next]_vars => ReportsInv'
  BY NextReportsInv
<1> QED BY <1>1, <1>2, InvHolds, PTL DEF Spec

-----------------------------------------------------------------------------
(* What the reports say *)

\* Where the clock stands, and what the tree holds.
LEMMA Moment ==
  ASSUME Inv, ReportsInv
  PROVE  /\ clock \in Nat /\ Valid(tree)
         /\ \A f \in Files : mtime[f] \in Nat /\ mtime[f] <= clock
BY DEF Inv, TreeSound, Valid, ReportsInv, TimesTold

\* The rows of a fresh database are of the model, or claims of the tree.
LEMMA FreshRows ==
  ASSUME ReportsInv, published # NoDB, Fresh(published),
         NEW r \in DOMAIN published.rows, r.pred \notin SemanticOnly
  PROVE  \E c \in LocalClaims(tree) : r = Row(c, clock)
BY DEF ReportsInv, PublishedTold, Exact

\* Verification accuses what it should, and nothing else.
LEMMA JudgesTold == ASSUME Inv, ReportsInv PROVE VerifyJudges
<1> SUFFICES ASSUME published # NoDB
             PROVE  /\ Fresh(published) =>
                         \A r \in Drifted(published) : r.pred \in SemanticOnly
                    /\ ~published.imported =>
                         \A f \in Files :
                           (mtime[f] > published.done
                              /\ \E r \in DOMAIN published.rows : r.file = f)
                             => \E r \in Drifted(published) : r.file = f
  BY DEF VerifyJudges
<1>1. ASSUME Fresh(published), NEW r \in Drifted(published), r.pred \notin SemanticOnly
      PROVE  FALSE
  <2>1. r \in DOMAIN published.rows /\ VerifyOne(r) # "none"
    BY <1>1 DEF Drifted
  <2>2. PICK c \in LocalClaims(tree) : r = Row(c, clock)
    BY <1>1, <2>1, FreshRows
  <2>3. /\ c.file \in Files /\ tree[c.file] # Absent
        /\ c.pred = "defines" => ~(c.line > tree[c.file].lines)
        /\ c.pred = "has_signature" => tree[c.file].lines # 0
    BY Moment, LocalPoints
  <2>4. r.file = c.file /\ r.pred = c.pred /\ r.line = c.line /\ r.at = clock
    BY <2>2 DEF Row
  <2>5. mtime[c.file] \in Nat /\ mtime[c.file] <= clock /\ clock \in Nat
    BY <2>3, Moment
  <2>6. ~(mtime[r.file] > r.at)
    BY <2>4, <2>5
  <2>7. VerifyOne(r) = "none"
    BY <2>3, <2>4, <2>6 DEF VerifyOne
  <2> QED BY <2>1, <2>7
<1>2. ASSUME ~published.imported, NEW f \in Files, mtime[f] > published.done,
             NEW r \in DOMAIN published.rows, r.file = f
      PROVE  r \in Drifted(published)
  <2>1. r.at \in Nat /\ r.at <= published.done /\ published.done \in Nat
    BY <1>2 DEF ReportsInv, PublishedTold
  <2>2. mtime[f] \in Nat
    BY Moment
  <2>3. mtime[r.file] > r.at
    BY <1>2, <2>1, <2>2
  <2>4. VerifyOne(r) # "none"
    BY <2>3 DEF VerifyOne
  <2> QED BY <2>4 DEF Drifted
<1> QED BY <1>1, <1>2

\* The canary of few rows fails exactly when the verification does.
LEMMA CanaryTold == ASSUME Inv, ReportsInv PROVE CanaryAgrees
<1> SUFFICES ASSUME published # NoDB, RowCount(published.rows) < SampleSize
             PROVE  \A sample \in Samples(published) :
                      CanaryFails(published, sample) <=> Drifted(published) # {}
  BY DEF CanaryAgrees
<1> DEFINE rows == published.rows
           bad == Where(rows, LAMBDA r : VerifyOne(r) # "none")
<1>1. IsFiniteSet(DOMAIN rows) /\ \A r \in DOMAIN rows : rows[r] \in Nat \ {0}
  BY DEF ReportsInv, PublishedTold, Counted
<1>2. /\ DOMAIN bad = Drifted(published) /\ DOMAIN bad \subseteq DOMAIN rows
      /\ \A r \in DOMAIN bad : bad[r] = rows[r]
  BY DEF Where, Restrict, Drifted
<1> HIDE DEF rows, bad
<1>3. RowCount(rows) \in Nat /\ (RowCount(rows) = 0 <=> DOMAIN rows = {})
  BY <1>1, SumPositive DEF RowCount
<1>4. RowCount(bad) \in Nat /\ (RowCount(bad) = 0 <=> DOMAIN bad = {})
  <2>1. IsFiniteSet(DOMAIN bad) /\ \A r \in DOMAIN bad : bad[r] \in Nat \ {0}
    BY <1>1, <1>2, FS_Subset
  <2> QED BY <2>1, SumPositive DEF RowCount
<1>5. RowCount(rows) <= SampleSize /\ RowCount(rows) < 50
  BY <1>3 DEF rows, SampleSize
<1>6. Samples(published) = {rows}
  BY <1>5 DEF Samples, rows
<1>7. CanaryFails(published, rows) <=> (RowCount(rows) > 0 /\ RowCount(bad) * 100 > 2 * RowCount(rows))
  BY DEF CanaryFails, bad
<1>8. CanaryFails(published, rows) <=> DOMAIN bad # {}
  <2>1. CASE DOMAIN bad = {}
    BY <1>3, <1>4, <1>7, <2>1
  <2>2. CASE DOMAIN bad # {}
    <3>1. RowCount(bad) >= 1 /\ RowCount(rows) > 0
      BY <1>2, <1>3, <1>4, <2>2
    <3> QED BY <1>3, <1>4, <1>5, <1>7, <2>2, <3>1
  <2> QED BY <2>1, <2>2
<1> QED BY <1>2, <1>6, <1>8

\* The symbols of a fresh database are those of claims of the tree.
LEMMA FreshSymbols ==
  ASSUME ReportsInv, published # NoDB, Fresh(published)
  PROVE  /\ \A c \in LocalClaims(tree) : Row(c, clock) \in DOMAIN published.rows
                                         /\ Key(c) \in DOMAIN published.syms
         /\ \A k \in DOMAIN published.syms :
              \E c \in LocalClaims(tree) :
                /\ Key(c) = k /\ published.syms[k].kind = KindOf(c)
                /\ published.syms[k].vis = c.vis
BY DEF ReportsInv, PublishedTold, Exact, Holds

\* The check of a README knows what the source declares.
LEMMA ReadmeTold == ASSUME Inv, ReportsInv PROVE ReadmeJudged
<1> SUFFICES ASSUME published # NoDB, Fresh(published), NEW n \in ReadmeNames
             PROVE  /\ n \in DeclaredNames =>
                         ~ReadmeUnknown(published, n) /\ ~ReadmeGone(published, n)
                    /\ n \notin DeclaredNames \cup OtherNames => ReadmeUnknown(published, n)
  BY DEF ReadmeJudged
<1>1. ASSUME n \in DeclaredNames
      PROVE  ~ReadmeUnknown(published, n) /\ ~ReadmeGone(published, n)
  <2>1. PICK f \in Present(tree) : \E d \in tree[f].decls : n = SubjectOf(f, d)
    BY <1>1 DEF DeclaredNames
  <2>2. PICK d \in tree[f].decls : n = SubjectOf(f, d)
    BY <2>1
  <2>3. PICK c \in LocalClaims(tree) : c.name = n
    BY <2>2, BaseClaim
  <2>4. Key(c) \in DOMAIN published.syms /\ Key(c)[2] = n
    BY <2>3, FreshSymbols DEF Key
  <2>5. ~ReadmeUnknown(published, n)
    BY <2>4 DEF ReadmeUnknown, Matches
  <2>6. ASSUME NEW r \in DOMAIN published.rows, r.pred = "defines"
        PROVE  r.file \in Files /\ tree[r.file] # Absent
    <3>1. r.pred \notin SemanticOnly
      BY <2>6 DEF SemanticOnly
    <3>2. PICK e \in LocalClaims(tree) : r = Row(e, clock)
      BY <3>1, FreshRows
    <3>3. e.file \in Files /\ tree[e.file] # Absent
      BY Moment, LocalPoints
    <3> QED BY <3>2, <3>3, RowFields
  <2> QED BY <2>5, <2>6 DEF ReadmeGone
<1>2. ASSUME NEW k \in DOMAIN published.syms, k[2] = n
      PROVE  n \in DeclaredNames \cup OtherNames
  <2>1. PICK c \in LocalClaims(tree) : Key(c) = k
    BY FreshSymbols
  <2>2. c.name = n
    BY <1>2, <2>1 DEF Key
  <2>3. CASE \E p \in Packages(tree) : Told(tree, p, c)
    <3>1. PICK p \in Packages(tree) : Told(tree, p, c)
      BY <2>3
    <3>2. CASE \E d \in tree[c.file].decls : OfDecl(c, c.file, d)
      <4>1. PICK d \in tree[c.file].decls : n = SubjectOf(c.file, d)
        BY <2>2, <3>2 DEF OfDecl
      <4>2. c.file \in Present(tree)
        BY <3>1 DEF Told, PackageFiles
      <4> QED BY <4>1, <4>2 DEF DeclaredNames
    <3>3. CASE OfPackage(c, p)
      BY <2>2, <3>1, <3>3 DEF OfPackage, OtherNames
    <3> QED BY <3>1, <3>2, <3>3 DEF Told
  <2>4. ASSUME NEW f \in Others \cap Present(tree), FileTold(f, tree[f], c)
        PROVE  n \in DeclaredNames \cup OtherNames
    <3>1. CASE \E d \in tree[f].decls : c.name = d.name
      <4>1. PICK d \in tree[f].decls : n = d.name
        BY <2>2, <3>1
      <4>2. SubjectOf(f, d) = d.name
        BY DEF SubjectOf, Others
      <4> QED BY <4>1, <4>2 DEF DeclaredNames
    <3>2. CASE c.name \in {f} \cup {ExtractImportPath(f, i) : i \in tree[f].imports}
                          \cup tree[f].comments \cup tree[f].exports
      BY <2>2, <3>2 DEF OtherNames
    <3> QED BY <2>4, <3>1, <3>2 DEF FileTold
  <2> QED BY <2>3, <2>4, LocalTold
<1> QED BY <1>1, <1>2 DEF ReadmeUnknown, Matches

\* A page says of interfaces what the source bears out.
LEMMA BearsTold == ASSUME ReportsInv PROVE SatisfiesTruly
<1> SUFFICES ASSUME published # NoDB, clock = published.since, NEW p,
                    NEW r \in RowsOf(published, p), r.pred = "implements", r.text # Blank
             PROVE  <<r.name, r.text>> \in Implementations(p)
  BY DEF SatisfiesTruly, Satisfactions
<1>1. r \in DOMAIN published.rows /\ r.path = p
  BY DEF RowsOf
<1>2. Bears(tree, r)
  BY <1>1 DEF ReportsInv, PublishedTold
<1>3. PICK s \in ImplementsClaims(tree) : s.path = p /\ s.name = r.name /\ s.object = r.text
  BY <1>1, <1>2 DEF Bears
<1> QED BY <1>3 DEF Implementations

\* A symbol of a page, and the declaration it stands for.
LEMMA PageSymbol ==
  ASSUME Inv, ReportsInv, published # NoDB, Fresh(published), NEW p \in Packages(tree), NEW n,
         <<p, n>> \in DOMAIN published.syms, published.syms[<<p, n>>].kind # "module"
  PROVE  \E x \in Declared(tree, p) :
           /\ n = SubjectOf(x.file, x.decl)
           /\ published.syms[<<p, n>>].kind = KindOf([kind |-> GoKind(x.decl)])
           /\ published.syms[<<p, n>>].vis = GoVisibility(x.decl)
<1>1. PICK c \in LocalClaims(tree) :
        /\ Key(c) = <<p, n>> /\ published.syms[<<p, n>>].kind = KindOf(c)
        /\ published.syms[<<p, n>>].vis = c.vis
  BY FreshSymbols
<1>2. c.path = p /\ c.name = n
  BY <1>1 DEF Key
<1>3. Told(tree, p, c)
  BY <1>2, PageTold
<1>4. c.kind # "module"
  BY <1>1 DEF KindOf, Blank
<1>5. PICK d \in tree[c.file].decls : OfDecl(c, c.file, d)
  BY <1>3, <1>4 DEF Told, OfPackage
<1> DEFINE x == [file |-> c.file, decl |-> d]
<1>6. x \in Declared(tree, p)
  BY <1>3, <1>5 DEF Told, Declared
<1>7. KindOf(c) = KindOf([kind |-> GoKind(d)])
  BY <1>5 DEF KindOf, OfDecl
<1> QED BY <1>1, <1>2, <1>5, <1>6, <1>7 DEF OfDecl

\* Every declaration has its symbol.
LEMMA PageDeclared ==
  ASSUME Inv, ReportsInv, published # NoDB, Fresh(published), NEW p \in Packages(tree),
         NEW x \in Declared(tree, p)
  PROVE  LET n == SubjectOf(x.file, x.decl)
         IN  /\ <<p, n>> \in DOMAIN published.syms
             /\ published.syms[<<p, n>>].kind = KindOf([kind |-> GoKind(x.decl)])
             /\ published.syms[<<p, n>>].vis = GoVisibility(x.decl)
             /\ \E r \in RowsOf(published, p) : r.file = x.file
<1>1. PICK f \in PackageFiles(tree, p) : \E d \in tree[f].decls : x = [file |-> f, decl |-> d]
  BY DEF Declared
<1>2. PICK d \in tree[f].decls : x = [file |-> f, decl |-> d]
  BY <1>1
<1>3. f \in GoFiles /\ f \in Present(tree) /\ Package[f] = p /\ f \in Files
  BY DEF PackageFiles, GoFiles
<1> DEFINE n == SubjectOf(f, d)
<1>4. PICK b \in LocalClaims(tree) : b.name = n /\ b.file = f /\ b.path = p
  BY <1>2, <1>3, BaseClaim
<1>5. Key(b) = <<p, n>> /\ <<p, n>> \in DOMAIN published.syms /\ Row(b, clock) \in DOMAIN published.rows
  BY <1>4, FreshSymbols DEF Key
<1>6. \E r \in RowsOf(published, p) : r.file = f
  BY <1>4, <1>5, RowFields DEF RowsOf
<1>7. PICK c \in LocalClaims(tree) :
        /\ Key(c) = <<p, n>> /\ published.syms[<<p, n>>].kind = KindOf(c)
        /\ published.syms[<<p, n>>].vis = c.vis
  BY <1>5, FreshSymbols
<1>8. c.path = p /\ c.name = n
  BY <1>7 DEF Key
<1>9. Told(tree, p, c)
  BY <1>8, PageTold
<1> DEFINE g == c.file
<1>10. g \in GoFiles /\ g \in Files /\ g \in Present(tree) /\ Package[g] = p
  BY <1>9 DEF Told, PackageFiles, GoFiles
<1>11. tree[f] \in Contents[f] /\ tree[g] \in Contents[g]
  BY <1>3, <1>10, Moment DEF Valid, Present
<1>12. n # p
  BY <1>2, <1>3, <1>11, NamesAssumption
<1>13. PICK e \in tree[g].decls : OfDecl(c, g, e)
  BY <1>8, <1>9, <1>12 DEF Told, OfPackage
<1>14. SubjectOf(g, e) = n
  BY <1>8, <1>13 DEF OfDecl
<1>15. g = f /\ e = d
  BY <1>2, <1>3, <1>10, <1>11, <1>13, <1>14, NamesAssumption
<1>16. KindOf(c) = KindOf([kind |-> GoKind(d)]) /\ c.vis = GoVisibility(d)
  BY <1>13, <1>15 DEF OfDecl, KindOf
<1> QED BY <1>2, <1>5, <1>6, <1>7, <1>16

\* The kind of a symbol tells that of its declaration.
LEMMA KindOfGo ==
  ASSUME NEW d
  PROVE  LET kind == KindOf([kind |-> GoKind(d)])
         IN  /\ (kind = "func") <=> (d.kind = "func")
             /\ (kind = "type") <=> (d.kind \in {"type", "interface"})
             /\ kind = "method" => d.kind = "method"
<1>1. KindOf([kind |-> GoKind(d)]) = IF GoKind(d) = "" THEN "var" ELSE GoKind(d)
  BY DEF KindOf, Blank
<1> QED BY <1>1 DEF GoKind, ObjectKind

\* The rows of a page that no model wrote.
LEMMA PageRows ==
  ASSUME Inv, ReportsInv, published # NoDB, Fresh(published), NEW p \in Packages(tree),
         NEW r \in RowsOf(published, p), r.pred \notin SemanticOnly
  PROVE  /\ r.file \in PackageFiles(tree, p)
         /\ r.pred = "has_kind" => r.text # "interface"
         /\ r.pred \in {"is_test", "imports", "exports"} => r.text = Blank
<1>1. r \in DOMAIN published.rows /\ r.path = p
  BY DEF RowsOf
<1>2. PICK c \in LocalClaims(tree) : r = Row(c, clock)
  BY <1>1, FreshRows
<1>3. r.path = c.path /\ r.file = c.file /\ r.pred = c.pred /\ r.text = c.text
  BY <1>2, RowFields
<1>4. Told(tree, p, c)
  BY <1>1, <1>3, PageTold
<1> QED BY <1>3, <1>4 DEF Told, Discreet

\* A page lists what its package exports.
LEMMA PageExact == ASSUME Inv, ReportsInv PROVE RenderExact
<1> SUFFICES ASSUME published # NoDB, Fresh(published), NEW p \in Packages(tree)
             PROVE  /\ ExportedFunctions(published, p) = Exported(p, {"func"}) \ TestFunctions
                    /\ Types(published, p) = Exported(p, {"type", "interface"})
                    /\ ~Enriched(published, p) =>
                         /\ {x.file : x \in Declared(tree, p)} \ TestFiles
                              \subseteq SourceFiles(published, p)
                         /\ SourceFiles(published, p) \subseteq PackageFiles(tree, p)
                    /\ ForwardDeps(published, p) = {} /\ ReverseDeps(published, p) = {}
  BY DEF RenderExact
<1> DEFINE syms == published.syms
<1>1. \A n : n \in SymbolsOf(published, p) => <<p, n>> \in DOMAIN syms
  <2> SUFFICES ASSUME NEW n \in SymbolsOf(published, p) PROVE <<p, n>> \in DOMAIN syms
    OBVIOUS
  <2>1. PICK k \in DOMAIN syms : k[1] = p /\ k[2] = n
    BY DEF SymbolsOf
  <2>2. PICK c \in LocalClaims(tree) : Key(c) = k
    BY <2>1, FreshSymbols
  <2> QED BY <2>1, <2>2 DEF Key
<1>2. \A n : <<p, n>> \in DOMAIN syms => n \in SymbolsOf(published, p)
  <2> SUFFICES ASSUME NEW n, <<p, n>> \in DOMAIN syms PROVE n \in SymbolsOf(published, p)
    OBVIOUS
  <2>1. <<p, n>>[1] = p /\ <<p, n>>[2] = n
    OBVIOUS
  <2> QED BY <2>1 DEF SymbolsOf
<1>3. ASSUME NEW kind, NEW kinds,
             \/ kind = "func" /\ kinds = {"func"}
             \/ kind = "type" /\ kinds = {"type", "interface"}
      PROVE  Rendered(published, p, kind) = Exported(p, kinds)
  <2>1. ASSUME NEW n \in Rendered(published, p, kind) PROVE n \in Exported(p, kinds)
    <3>1. /\ n \in SymbolsOf(published, p) /\ syms[<<p, n>>].kind = kind
          /\ syms[<<p, n>>].vis = "public"
      BY <2>1 DEF Rendered
    <3>2. <<p, n>> \in DOMAIN syms /\ syms[<<p, n>>].kind # "module"
      BY <1>1, <1>3, <3>1
    <3>3. PICK x \in Declared(tree, p) :
            /\ n = SubjectOf(x.file, x.decl)
            /\ syms[<<p, n>>].kind = KindOf([kind |-> GoKind(x.decl)])
            /\ syms[<<p, n>>].vis = GoVisibility(x.decl)
      BY <3>2, PageSymbol
    <3>4. x.decl.kind \in kinds
      BY <1>3, <3>1, <3>3, KindOfGo
    <3>5. x.decl.public
      BY <3>1, <3>3 DEF GoVisibility
    <3>6. n = x.decl.name
      BY <1>3, <3>3, <3>4 DEF SubjectOf
    <3> QED BY <3>4, <3>5, <3>6 DEF Exported
  <2>2. ASSUME NEW n \in Exported(p, kinds) PROVE n \in Rendered(published, p, kind)
    <3>1. PICK x \in Declared(tree, p) :
            x.decl.kind \in kinds /\ x.decl.public /\ n = x.decl.name
      BY <2>2 DEF Exported
    <3>2. SubjectOf(x.file, x.decl) = n
      BY <1>3, <3>1 DEF SubjectOf
    <3>3. /\ <<p, n>> \in DOMAIN syms
          /\ syms[<<p, n>>].kind = KindOf([kind |-> GoKind(x.decl)])
          /\ syms[<<p, n>>].vis = GoVisibility(x.decl)
      BY <3>2, PageDeclared
    <3>4. syms[<<p, n>>].kind = kind
      BY <1>3, <3>1, <3>3, KindOfGo
    <3>5. syms[<<p, n>>].vis = "public"
      BY <3>1, <3>3 DEF GoVisibility
    <3> QED BY <1>2, <3>3, <3>4, <3>5 DEF Rendered
  <2> QED BY <2>1, <2>2
<1>4. ASSUME NEW n PROVE ~IsInterface(published, p, n)
  BY PageRows DEF IsInterface, SemanticOnly
<1>5. ExportedFunctions(published, p) = Exported(p, {"func"}) \ TestFunctions
  BY <1>3 DEF ExportedFunctions
<1>6. Types(published, p) = Exported(p, {"type", "interface"})
  <2>1. Rendered(published, p, "type") = Exported(p, {"type", "interface"})
    BY <1>3
  <2>2. Types(published, p) = Rendered(published, p, "type")
    BY <1>4 DEF Types
  <2> QED BY <2>1, <2>2
<1>7. ASSUME ~Enriched(published, p)
      PROVE  /\ {x.file : x \in Declared(tree, p)} \ TestFiles \subseteq SourceFiles(published, p)
             /\ SourceFiles(published, p) \subseteq PackageFiles(tree, p)
  <2>1. \A r \in RowsOf(published, p) : r.pred \notin SemanticOnly
    BY <1>7 DEF Enriched
  <2>2. \A r \in RowsOf(published, p) :
          /\ r.file \in PackageFiles(tree, p)
          /\ ~(r.pred = "is_test" /\ r.text = "true")
    BY <2>1, PageRows DEF Blank
  <2>3. ASSUME NEW x \in Declared(tree, p), x.file \notin TestFiles
        PROVE  x.file \in SourceFiles(published, p)
    <3>1. \E r \in RowsOf(published, p) : r.file = x.file
      BY PageDeclared
    <3> QED BY <2>2, <2>3, <3>1 DEF SourceFiles, NamedFiles, IsTestFile
  <2> QED BY <2>2, <2>3 DEF SourceFiles, NamedFiles
<1>8. ForwardDeps(published, p) = {} /\ ReverseDeps(published, p) = {}
  BY PageRows DEF ForwardDeps, ReverseDeps, SemanticOnly
<1> QED BY <1>5, <1>6, <1>7, <1>8

\* What verify-claims and its canary, the check of the READMEs and the page of a
\* package (check_existing.go, verify.go, renderer.go) say of a database is so.
THEOREM ReportsHold == Spec => []ReportsTrue
<1>1. Inv /\ ReportsInv => ReportsTrue
  BY JudgesTold, CanaryTold, ReadmeTold, PageExact, BearsTold DEF ReportsTrue
<1> QED BY <1>1, InvHolds, ReportsInvHolds, PTL
=============================================================================
