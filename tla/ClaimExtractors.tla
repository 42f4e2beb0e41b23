--------------------------- MODULE ClaimExtractors ---------------------------
(***************************************************************************)
(* What the extractors claim about a source tree: the Go extractor, which  *)
(* loads whole packages, and the tree-sitter extractor, which reads one    *)
(* file at a time.                                                         *)
(*                                                                         *)
(* The content of a file is a record: its declarations, the texts of its   *)
(* comments, its import declarations with the paths in them, the names its *)
(* export statements give, whether a header marks it as generated, and its *)
(* lines.  The content is its own hash.  Names in one package are unique,  *)
(* as the Go compiler demands.                                             *)
(* Left out: truncation of long subjects, decorated definitions, which     *)
(* tree-sitter claims a second time, and the main packages that go list    *)
(* synthesises for tests.                                                  *)
(***************************************************************************)
EXTENDS Naturals, Sequences, FiniteSets

CONSTANTS
  Files,
  Absent,          \* the file does not exist
  Language,        \* [Files -> {"go", "typescript", "python", "shell"}]
  Package,         \* [Files -> import paths]: of a Go file, its package
  TestFiles,       \* files whose name is that of a test
  GeneratedNames,  \* files whose name is that of a generated file
  Sensitive        \* texts that mention a password, secret, token, ...

GoFiles == {f \in Files : Language[f] = "go"}

ASSUME FilesAssumption ==
  /\ DOMAIN Language = Files /\ DOMAIN Package = Files
  /\ TestFiles \subseteq Files /\ GeneratedNames \subseteq Files

-----------------------------------------------------------------------------
(* Claims.                                                                 *)

TreeSitterSafe == {"defines", "imports", "exports", "has_doc", "is_test",
                   "is_generated"}
DeepOnly       == {"has_kind", "implements", "has_signature", "encloses"}
SemanticOnly   == {"purpose", "usage_pattern", "complexity", "stability"}

NoScip == <<>>

\* The empty string: no text, no path, no object.
Blank == ""

\* kindToSuffix.
Suffix(kind) == CASE kind = "type" -> "type"
                  [] kind \in {"func", "method"} -> "method"
                  [] OTHER -> "term"

\* FormatGoSymbol: descriptors for the package, the owner and the name.
FormatGoSymbol(p, owner, name, kind) ==
  <<[suffix |-> "namespace", name |-> p]>>
  \o (IF owner = Blank THEN <<>> ELSE <<[suffix |-> "type", name |-> owner]>>)
  \o <<[suffix |-> Suffix(kind), name |-> name]>>

\* A name with its package or its owner before it.
Qualified(owner, name) == owner \o "." \o name

\* claimBase and the literals of the tree-sitter extractor.
Claim(ext, p, name, kind, vis, f, line, scip) ==
  [extractor |-> ext, path |-> p, name |-> name, kind |-> kind, vis |-> vis,
   file |-> f, line |-> line, scip |-> scip, pred |-> "defines", text |-> Blank,
   object |-> Blank, conf |-> 100]

Says(c, pred, text)   == [c EXCEPT !.pred = pred, !.text = text]
Names(c, pred, other) == [c EXCEPT !.pred = pred, !.object = other]
If(cond, c)           == IF cond THEN {c} ELSE {}

-----------------------------------------------------------------------------
(* The Go extractor.                                                       *)

Present(tree) == {f \in Files : tree[f] # Absent}

\* The packages of a tree: with its tests, when it has any.
Packages(tree)       == {Package[f] : f \in GoFiles \cap Present(tree)}
PackageFiles(tree, p) ==
  {f \in GoFiles \cap Present(tree) : Package[f] = p}

\* GoFiles[0]: the files of the package itself come before its tests.
FirstFile(fs) ==
  LET plain == fs \ TestFiles
  IN  CHOOSE f \in IF plain = {} THEN fs ELSE plain : TRUE

KeepsInterface(d) == d.kind
ObjectKind(d) == IF d.kind = "interface" THEN "type" ELSE d.kind
GoVisibility(d) == IF d.public THEN "public" ELSE "internal"

\* The claims about a name in package scope.
ObjectClaims(p, f, u, d) ==
  LET kind == ObjectKind(d)
      base == Claim("go-deep", p, d.name, kind, GoVisibility(d), f, d.line,
                    FormatGoSymbol(p, Blank, d.name, kind))
      package == Claim("go-deep", p, p, "module", "public", f, d.line, NoScip)
  IN  {base, Says(base, "has_kind", kind), Names(package, "encloses", d.name)}
      \cup If(kind = "func", Says(base, "has_signature", d.sig))
      \cup If(d.public, Says(base, "exports", Blank))
      \cup If(kind \in {"type", "func"} /\ d.doc # Blank,
              [Says(base, "has_doc", d.doc) EXCEPT !.conf = 85])
      \cup If(f \in TestFiles, Says(base, "is_test", Blank))
      \cup If(u.generated, Says(base, "is_generated", Blank))

\* The name a declaration goes by: a Go method's has its owner before it.
SubjectOf(f, d) == IF f \in GoFiles /\ d.kind = "method" THEN Qualified(d.owner, d.name)
                   ELSE d.name

\* The claims about a method: its subject is Owner.Name.
MethodClaims(p, f, d) ==
  LET base == Claim("go-deep", p, Qualified(d.owner, d.name), "method",
                    GoVisibility(d), f, d.line,
                    FormatGoSymbol(p, d.owner, d.name, "method"))
  IN  {base, Says(base, "has_kind", "method"),
       Says(base, "has_signature", d.sig)}
      \cup If(d.doc # Blank, [Says(base, "has_doc", d.doc) EXCEPT !.conf = 85])
      \cup If(d.public, Says(base, "exports", Blank))

\* extractPackage: one imports claim for each path any of the files imports.
PackageClaims(tree, p) ==
  LET fs     == PackageFiles(tree, p)
      module == Claim("go-deep", p, p, "module", "public", FirstFile(fs), 0,
                      NoScip)
  IN  (UNION {UNION {IF d.kind = "method" THEN MethodClaims(p, f, d)
                                          ELSE ObjectClaims(p, f, tree[f], d)
                       : d \in tree[f].decls} : f \in fs})
      \cup {Names(module, "imports", i)
              : i \in UNION {UNION {d.paths : d \in tree[f].imports} : f \in fs}}

Declared(tree, p) ==
  UNION {{[file |-> f, decl |-> d] : d \in tree[f].decls}
           : f \in PackageFiles(tree, p)}
Methods(tree, p, owner) ==
  {x.decl.name : x \in {x \in Declared(tree, p) : /\ x.decl.kind = "method"
                                                 /\ x.decl.owner = owner}}

\* extractImplements: a concrete type and an interface it satisfies, in any
\* two packages; the empty interface says nothing.
OfKind(tree, p, kind) == {x \in Declared(tree, p) : x.decl.kind = kind}
Implements(p, x, q, i) ==
  Names(Claim("go-deep", p, x.decl.name, "type", GoVisibility(x.decl), x.file,
              x.decl.line, FormatGoSymbol(p, Blank, x.decl.name, "type")),
        "implements", Qualified(q, i.decl.name))
Between(tree, p, q) ==
  UNION {{Implements(p, x, q, i) : i \in OfKind(tree, q, "interface")}
           : x \in OfKind(tree, p, "type")}
Pairs(tree) ==
  UNION {UNION {Between(tree, p, q) : q \in Packages(tree)} : p \in Packages(tree)}

Satisfied(tree, c) ==
  \E q \in Packages(tree) : \E i \in Declared(tree, q) :
    /\ i.decl.kind = "interface"
    /\ c.object = Qualified(q, i.decl.name)
    /\ i.decl.methods # {}
    /\ i.decl.methods \subseteq Methods(tree, c.path, c.name)

ImplementsClaims(tree) == {c \in Pairs(tree) : Satisfied(tree, c)}

\* GoDeepExtractor.Extract on the root of the tree.
GoDeep(tree) ==
  (UNION {PackageClaims(tree, p) : p \in Packages(tree)})
  \cup ImplementsClaims(tree)

-----------------------------------------------------------------------------
(* The tree-sitter extractor.                                              *)

FastName(f) == "tree-sitter-" \o Language[f]

\* The name of an extractor of files is nobody else's.
ASSUME ExtractorsAssumption ==
  \A f \in Files : FastName(f) \notin {"go-deep", "llm-semantic", "scip"}

\* Only Go and Python names tell who may see them.
InferVisibility(f, d) ==
  IF d.public \/ Language[f] \notin {"go", "python"} THEN "public"
  ELSE "internal"

\* NodeMapping: a Go interface is a type declaration.
FastKind(f, d) ==
  IF Language[f] = "go" /\ d.kind = "interface" THEN "type" ELSE d.kind

\* extractImportPath: a Go declaration joins all the paths it lists.
ExtractImportPath(f, d) ==
  IF Language[f] = "go" THEN d.joined ELSE CHOOSE p \in d.paths : TRUE

\* extractName: the subject of an import is the imported path, that of a
\* comment its text, and a method goes by its own name, whatever type it
\* belongs to.
ExtractName(f, pred, x) ==
  CASE pred = "imports" -> ExtractImportPath(f, x)
    [] pred \in {"has_doc", "exports"} -> x
    [] OTHER -> x.name

\* The nodes the tables of the language map to a predicate.
Nodes(f, u) ==
  [defines |-> u.decls, imports |-> u.imports, has_doc |-> u.comments,
   exports |-> IF Language[f] = "typescript" THEN u.exports ELSE {}]

\* buildClaim.
BuildClaim(f, pred, x) ==
  LET name == ExtractName(f, pred, x)
      made == pred = "defines"
  IN  [Claim(FastName(f), Blank, name, IF made THEN FastKind(f, x) ELSE Blank,
             IF made THEN InferVisibility(f, x) ELSE "public", f,
             IF made THEN x.line ELSE 1, NoScip)
         EXCEPT !.pred = pred,
                !.object = IF pred \in {"imports", "exports"} THEN name ELSE Blank,
                !.text = IF pred = "has_doc" THEN x ELSE Blank]

\* extractFromBytes: the caller gives the subjects their path.
TreeSitter(f, u) ==
  LET module == Claim(FastName(f), Blank, f, "module", "public", f, 0, NoScip)
  IN  (UNION {{BuildClaim(f, pred, x) : x \in Nodes(f, u)[pred]}
                : pred \in DOMAIN Nodes(f, u)})
      \cup If(f \in TestFiles, Says(module, "is_test", Blank))
      \cup If(u.generated, Says(module, "is_generated", Blank))

\* ValidateTreeSitterClaims: one claim out of its reach fails the file.
Validated(cs) == \A c \in cs : c.pred \in TreeSitterSafe

\* The callers locate the subjects of tree-sitter at the path of the file.
Located(cs) ==
  {IF c.path = Blank THEN [c EXCEPT !.path = c.file] ELSE c : c \in cs}

\* ExtractFileBytes with the registry of a remote extraction, where
\* tree-sitter reads Go too.
ExtractFileBytes(f, u) ==
  LET cs == TreeSitter(f, u)
  IN  IF f \in GeneratedNames \/ ~Validated(cs) THEN {} ELSE Located(cs)

-----------------------------------------------------------------------------

DropsSubject(cs) ==
  {c \in cs : ~\E d \in cs : d.name = c.name /\ d.text \in Sensitive}
\* FilterSensitiveClaims: only the text of a claim is looked at.
FilterSensitive(cs) == {c \in cs : c.text \notin Sensitive}
=============================================================================
