------------------------------ MODULE DocDrift ------------------------------
(***************************************************************************)
(* Documentation drift: a repository is edited and committed while the     *)
(* commands that read it report which documents and claims it outdated.    *)
(*   - livedocs check (check/check.go over drift/drift.go) and livedocs    *)
(*     audit compare the symbols a document names with the exports of its  *)
(*     own directory;                                                      *)
(*   - the pre-commit form, check --manifest (check/manifest.go), only     *)
(*     matches changed paths against a stored manifest;                    *)
(*   - livedocs diff looks for documents near what changed;                *)
(*   - livedocs prbot (prbot, anchor) invalidates the claims of changed    *)
(*     files; and                                                          *)
(*   - livedocs verify (aicontext) looks for the paths that AI context     *)
(*     files name.                                                         *)
(* Only the manifest and the claims persist between commands; a report is  *)
(* a function of the state.  A path is the tuple of its components, a      *)
(* directory exists when something is below it, and which deleted and      *)
(* added files git pairs up as renames is left open (Renames).             *)
(***************************************************************************)
EXTENDS Naturals, FiniteSets, SequencesExt

CONSTANTS
    Files,       \* the code files there may be, as tuples of components
    Docs,        \* the markdown files
    Checked,     \* the documents livedocs check looks at by default
    Changelogs,  \* the documents livedocs diff leaves out
    Ext,         \* Ext[f]: the extension of file f
    Contents,    \* what a code file may hold: [syms, ok], ok when it parses
    Texts,       \* what a document may hold: [refs, pkgs]
    Bare,        \* Bare[s]: the name of s without its receiver
    AiClaims,    \* what AI context files claim: [kind, value, dir]
    Gone,        \* no such file
    NoCommit,    \* no such commit
    Start,       \* the tree of the first commit
    MaxEdits     \* bound: edits of the working tree

Trees == [code : [Files -> Contents \cup {Gone}], docs : [Docs -> Texts \cup {Gone}]]

\* A path has components, and a document names finitely many things.
ASSUME DocDriftAssumption ==
    /\ \A path \in Files \cup Docs : path \in Seq(Range(path)) \ {<<>>}
    /\ \A c \in AiClaims : /\ c.value \in Seq(Range(c.value)) \ {<<>>}
                          /\ c.dir \in Seq(Range(c.dir))
    /\ \A t \in Texts : IsFiniteSet(t.refs) /\ IsFiniteSet(t.pkgs)
    /\ Checked \subseteq Docs /\ Changelogs \subseteq Docs
    /\ Files \cap Docs = {}
    /\ Gone \notin Contents \cup Texts
    /\ Start \in Trees /\ NoCommit \notin Trees
    /\ MaxEdits \in Nat

VARIABLES
    work,      \* the working tree: [code, docs]
    head,      \* the tree of HEAD
    prev,      \* the tree of HEAD~1
    manifest,  \* .livedocs/manifest: the pairs of a pattern and a document
    claimed,   \* the files the claims database holds claims of
    edits      \* edits so far

vars == <<work, head, prev, manifest, claimed, edits>>

-----------------------------------------------------------------------------
(* The tree. *)

Dir(path) == Front(path)
FilesOf(tree) == {f \in Files : tree.code[f] # Gone}
DocsOf(tree) == {d \in Docs : tree.docs[d] # Gone}
PathsOf(tree) == FilesOf(tree) \cup DocsOf(tree)

\* The directories above a path, the root <<>> included.
Above == [path \in Files \cup Docs |-> {SubSeq(path, 1, n) : n \in 0 .. Len(path) - 1}]
DirsOf(tree) == (UNION {Above[p] : p \in PathsOf(tree)}) \cup {<<>>}

-----------------------------------------------------------------------------
(* drift.Detect *)

InDir(tree, dir, ext) == {f \in FilesOf(tree) : Dir(f) = dir /\ Ext[f] = ext}

\* One Go file that does not parse costs the directory all its Go exports;
\* the other languages are read file by file.
ExtractGoExports(tree, dir) ==
    LET go == InDir(tree, dir, ".go")
    IN  IF \A f \in go : tree.code[f].ok
        THEN UNION {tree.code[f].syms : f \in go}
        ELSE {}

ExtractPythonExports(tree, dir) ==
    UNION {tree.code[f].syms : f \in InDir(tree, dir, ".py")}

ExtractTypeScriptExports(tree, dir) ==
    UNION {tree.code[f].syms : f \in InDir(tree, dir, ".ts")}

\* The extensions read; those of TypeScript are one.
Read == {".go", ".py", ".ts"}

\* An extractor that fails contributes nothing, and the error is dropped.
ExtractCodeExports(tree, dir) ==
    ExtractGoExports(tree, dir) \cup ExtractPythonExports(tree, dir)
        \cup ExtractTypeScriptExports(tree, dir)

CodeSetFull(tree, dir) == ExtractCodeExports(tree, dir)

\* A method is also known by its bare name.
CodeSet(tree, dir) ==
    LET exports == ExtractCodeExports(tree, dir)
    IN  exports \cup {Bare[s] : s \in exports}

\* What ExtractReadmeSymbols finds in a document.
ReadmeSymbols(tree, d) == tree.docs[d].refs
PkgPaths(tree, d) == tree.docs[d].pkgs

\* The stale symbol references of a document, judged against a directory.
Stale(tree, d, dir) == ReadmeSymbols(tree, d) \ CodeSet(tree, dir)

Undocumented(tree, d, dir) ==
    {s \in ExtractCodeExports(tree, dir) :
        {s, Bare[s]} \cap ReadmeSymbols(tree, d) = {}}

\* Package paths are resolved below the document's own directory.
StalePackages(tree, d) ==
    {p \in PkgPaths(tree, d) : Dir(d) \o p \notin DirsOf(tree)}

-----------------------------------------------------------------------------
(* livedocs check and livedocs audit *)

FindDocFiles(tree) == DocsOf(tree) \cap Checked

DriftsIn(tree, d) == Stale(tree, d, Dir(d)) # {} \/ StalePackages(tree, d) # {}

PathFound(tree, path) == path \in PathsOf(tree) \cup DirsOf(tree)

\* The search of last resort: any file or directory that ends in the path.
SuffixFound(tree, path) ==
    \E p \in PathsOf(tree) \cup DirsOf(tree) : IsSuffix(path, p)

verifyFilePathDirect(tree, c) ==
    PathFound(tree, c.value) \/ PathFound(tree, c.dir \o c.value)

verifyFilePath(tree, c) ==
    \/ PathFound(tree, c.value)
    \/ PathFound(tree, c.dir \o c.value)
    \/ SuffixFound(tree, c.value)

\* A package of the module must be a directory; one of another module is
\* never found stale.
verifyPackageRef(tree, c) == c.kind = "package" => c.value \in DirsOf(tree)

Verify(tree) ==
    {c \in AiClaims :
        CASE c.kind = "path"    -> ~ verifyFilePath(tree, c)
          [] c.kind = "package" -> ~ verifyPackageRef(tree, c)
          [] OTHER              -> FALSE}

\* Without a document only the AI context files are looked at.
HasDriftDocsOnly(tree) ==
    /\ FindDocFiles(tree) # {}
    /\ \/ \E d \in FindDocFiles(tree) : DriftsIn(tree, d)
       \/ Verify(tree) # {}

\* The exit status of livedocs check: undocumented exports do not count.
HasDrift(tree) ==
    \/ \E d \in FindDocFiles(tree) : DriftsIn(tree, d)
    \/ Verify(tree) # {}

IsFresh(tree, d) ==
    Cardinality(Stale(tree, d, Dir(d))) + Cardinality(StalePackages(tree, d)) = 0

FilesWithDrift(tree) == {d \in FindDocFiles(tree) : ~ IsFresh(tree, d)}

-----------------------------------------------------------------------------
(* git *)

\* What git sees of the working tree: a file HEAD does not have is untracked.
Tracked ==
    [code |-> [f \in Files |-> IF head.code[f] = Gone THEN Gone ELSE work.code[f]],
     docs |-> [d \in Docs |-> IF head.docs[d] = Gone THEN Gone ELSE work.docs[d]]]

Lost(from, to) == FilesOf(from) \ FilesOf(to)
New(from, to) == FilesOf(to) \ FilesOf(from)

\* The renames git may report: it pairs deleted with added files one to one,
\* by a similarity that nothing here depends on, or not at all.
Renames(from, to) ==
    {rs \in SUBSET (Lost(from, to) \X New(from, to)) :
        \A r, s \in rs : r # s => r[1] # s[1] /\ r[2] # s[2]}

\* git diff --name-status with the renames rs: what ParseNameStatus returns.
DiffBetween(from, to, rs) ==
    LET old == {r[1] : r \in rs}
        new == {r[2] : r \in rs}
        change(f, s) == [status |-> s, path |-> f, old |-> <<>>]
        kept == {f \in FilesOf(from) \cap FilesOf(to) : from.code[f] # to.code[f]}
    IN  {change(f, "D") : f \in Lost(from, to) \ old}
        \cup {change(f, "A") : f \in New(from, to) \ new}
        \cup {change(f, "M") : f \in kept}
        \cup {[status |-> "R", path |-> r[2], old |-> r[1]] : r \in rs}

ChangedPaths(changes) == {c.path : c \in {x \in changes : x.status # "D"}}

DeletedPathsOnly(changes) == {c.path : c \in {x \in changes : x.status = "D"}}

\* The old path of a rename no longer exists either.
DeletedPaths(changes) ==
    {c.path : c \in {x \in changes : x.status = "D"}}
    \cup {c.old : c \in {x \in changes : x.status = "R"}}

-----------------------------------------------------------------------------
(* check --manifest *)

discoverExtensions(tree, dir) == {Ext[f] : f \in {g \in FilesOf(tree) : Dir(g) = dir}}

\* One entry for every document and every extension beside it; the pattern
\* is the directory and the extension, and * does not match a separator.
GenerateManifest(tree) ==
    UNION {{<<[dir |-> Dir(d), ext |-> e], d>> : e \in discoverExtensions(tree, Dir(d))} :
             d \in DocsOf(tree)}

Matches(pattern, f) == Dir(f) = pattern.dir /\ Ext[f] = pattern.ext

AffectedDocs(changed) == {e[2] : e \in {x \in manifest : \E f \in changed : Matches(x[1], f)}}

GitChangedFilesHead(rs) ==
    IF prev = NoCommit THEN {}
    ELSE {c.path : c \in DiffBetween(head, Tracked, {})}

\* git diff --name-only HEAD~1 names a rename by its new path only; with no
\* HEAD~1 the fallback compares the index with HEAD.
GitChangedFiles(rs) ==
    IF prev = NoCommit THEN {}
    ELSE {c.path : c \in DiffBetween(prev, Tracked, rs)}

RunManifest(rs) == AffectedDocs(GitChangedFiles(rs))

-----------------------------------------------------------------------------
(* livedocs diff: documents beside what changed, and one level up *)

NearDirs(changed, deleted) ==
    {Dir(f) : f \in changed}
    \cup {Front(Dir(f)) : f \in {g \in changed : Len(Dir(g)) >= 2}}
    \cup {Dir(f) : f \in deleted}

\* The documents are judged as the working tree has them.
findAffectedDocs(changed, deleted) ==
    {d \in DocsOf(work) \ Changelogs :
        /\ Dir(d) \in NearDirs(changed, deleted)
        /\ \/ Stale(work, d, Dir(d)) # {}
           \/ Undocumented(work, d, Dir(d)) # {}
           \/ StalePackages(work, d) # {}}

RunDiff(rs) ==
    LET changes == DiffBetween(prev, head, rs)
    IN  findAffectedDocs(ChangedPaths(changes), DeletedPaths(changes))

-----------------------------------------------------------------------------
(* livedocs prbot over a name-status diff: whole-file anchors *)

InvalidateNew(changes) ==
    [f \in claimed |->
        IF \E c \in changes : c.status = "D" /\ c.path = f THEN "invalid"
        ELSE IF \E c \in changes : c.status # "D" /\ f = c.path THEN "stale"
        ELSE "valid"]

\* A renamed file's claims are stale under its old path and its new one.
Invalidate(changes) ==
    [f \in claimed |->
        IF \E c \in changes : c.status = "D" /\ c.path = f THEN "invalid"
        ELSE IF \E c \in changes : c.status # "D" /\ f \in {c.path, c.old} THEN "stale"
        ELSE "valid"]

Analyze(rs) == Invalidate(DiffBetween(prev, head, rs))

-----------------------------------------------------------------------------
(* Actions *)

Init ==
    /\ work = Start /\ head = Start /\ prev = NoCommit
    /\ manifest = {}
    /\ claimed = {}
    /\ edits = 0

Edit(tree) ==
    /\ edits < MaxEdits
    /\ tree # work
    /\ edits' = edits + 1
    /\ work' = tree
    /\ UNCHANGED <<head, prev, manifest, claimed>>

WriteFile(f) == \E c \in Contents : Edit([work EXCEPT !.code[f] = c])

RemoveFile(f) == Edit([work EXCEPT !.code[f] = Gone])

MoveFile(f, g) ==
    /\ work.code[f] # Gone /\ work.code[g] = Gone
    /\ Edit([work EXCEPT !.code[g] = work.code[f], !.code[f] = Gone])

WriteDoc(d) == \E t \in Texts \cup {Gone} : Edit([work EXCEPT !.docs[d] = t])

\* git add -A and git commit.
Commit ==
    /\ work # head
    /\ prev' = head /\ head' = work
    /\ UNCHANGED <<work, manifest, claimed, edits>>

\* livedocs check --update-manifest
UpdateManifest ==
    /\ manifest' = GenerateManifest(work)
    /\ UNCHANGED <<work, head, prev, claimed, edits>>

\* livedocs extract makes the claims of the files that are there.
Extract ==
    /\ claimed' = {f \in FilesOf(work) : work.code[f].syms # {}}
    /\ UNCHANGED <<work, head, prev, manifest, edits>>

Next ==
    \/ \E f \in Files : WriteFile(f)
    \/ \E f \in Files : RemoveFile(f)
    \/ \E f, g \in Files : MoveFile(f, g)
    \/ \E d \in Docs : WriteDoc(d)
    \/ Commit
    \/ UpdateManifest
    \/ Extract

Spec == Init /\ [][Next]_vars

-----------------------------------------------------------------------------
(* Properties *)

\* Every variable stays in its type; the manifest only holds patterns of a
\* directory some document is in.
TypeOK ==
    /\ work \in Trees /\ head \in Trees /\ prev \in Trees \cup {NoCommit}
    /\ \A e \in manifest : e[2] \in Docs /\ e[1].dir = Dir(e[2]) /\ e[1].ext \in {Ext[f] : f \in Files}
    /\ claimed \subseteq Files
    /\ edits \in 0 .. MaxEdits

\* The references of an unchanged document that are stale in one tree and
\* were not in another.
NewlyStale(from, to, d) ==
    IF from.docs[d] = Gone \/ from.docs[d] # to.docs[d] THEN {}
    ELSE Stale(to, d, Dir(d)) \ Stale(from, d, Dir(d))

\* The pre-commit check is a promise to a team that never runs the full one:
\* while the manifest covers the files of HEAD~1, a document that the last
\* commit or the edits since made stale is flagged, whatever the change was,
\* unless git reports it as a rename to a path the document's patterns do
\* not match (check/manifest.go RunManifest, GitChangedFiles).
HookCatches ==
    prev # NoCommit =>
        \A d \in Docs :
            NewlyStale(prev, Tracked, d) # {} /\ GenerateManifest(prev) \subseteq manifest =>
                \A rs \in Renames(prev, Tracked) :
                    \/ d \in RunManifest(rs)
                    \/ \E r \in rs :
                           /\ Dir(r[1]) = Dir(d)
                           /\ ~ Matches([dir |-> Dir(d), ext |-> Ext[r[1]]], r[2])

\* livedocs diff reports every document the diffed commit made stale and the
\* working tree still has so, renames out of its directory included; it only
\* leaves out changelogs (cmd/livedocs/diff.go findAffectedDocs).
DiffCatches ==
    prev # NoCommit =>
        \A d \in Docs \ Changelogs :
            NewlyStale(prev, head, d) \cap NewlyStale(prev, work, d) # {} =>
                \A rs \in Renames(prev, head) : d \in RunDiff(rs)

\* The PR bot invalidates exactly the claims of the paths whose content the
\* diff changed, and calls them invalid, not stale, exactly when the file is
\* gone and not renamed (anchor.Invalidate over gitdiff.ParseNameStatus).
PrbotExact ==
    prev # NoCommit =>
        \A rs \in Renames(prev, head) :
            /\ {f \in claimed : Analyze(rs)[f] # "valid"} = {f \in claimed : prev.code[f] # head.code[f]}
            /\ {f \in claimed : Analyze(rs)[f] = "invalid"}
                 = {f \in claimed \cap Lost(prev, head) : \A r \in rs : r[1] # f}

\* A reference is only reported stale against a symbol that a file read in the
\* directory does define, by its full or its bare name, when that file is Go
\* and some Go file beside it does not parse (drift.ExtractCodeExports drops
\* the error of the whole language).
StaleExplained ==
    \A d \in DocsOf(work) : \A s \in Stale(work, d, Dir(d)) :
        \A f \in {g \in FilesOf(work) : Dir(g) = Dir(d) /\ Ext[g] \in Read} :
            (\E t \in work.code[f].syms : s \in {t, Bare[t]}) =>
                /\ Ext[f] = ".go"
                /\ \E g \in InDir(work, Dir(d), ".go") : ~ work.code[g].ok

\* A path an AI context file names is reported stale exactly when nothing in
\* the tree ends in it: the two direct lookups never decide otherwise, and a
\* file that moved with its last components is never reported
\* (aicontext.verifyFilePath).
AiExact ==
    \A c \in AiClaims :
        c.kind = "path" =>
            (~ verifyFilePath(work, c) <=>
                \A p \in PathsOf(work) : \A q \in {p} \cup Above[p] : ~ IsSuffix(c.value, q))

\* livedocs check fails exactly when livedocs audit finds a file that is not
\* fresh or livedocs verify fails, also in a repository whose documents are
\* all gone (check.runWithTargets, audit.buildSummary, buildVerifyReport).
AuditAgrees ==
    HasDrift(work) <=> FilesWithDrift(work) # {} \/ Verify(work) # {}

\* What check, audit and verify report is there, and they agree on whether
\* there is anything to report.
ReportsAgree == StaleExplained /\ AiExact /\ AuditAgrees
=============================================================================
