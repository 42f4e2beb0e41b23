--------------------------- MODULE DocDriftProofs ---------------------------
(***************************************************************************)
(* Proofs about DocDrift, for any files, documents and contents, and any   *)
(* number of edits and commits.  What a command reports is a function of   *)
(* the trees, so beside the types the theorems need no invariant; they     *)
(* rest on which trees two commands compare.                               *)
(***************************************************************************)
EXTENDS DocDrift, FiniteSetTheorems, SequenceTheorems, TLAPS

-----------------------------------------------------------------------------
(* Types *)

LEMMA InitTyped == Init => TypeOK
  BY DocDriftAssumption DEF Init, TypeOK

LEMMA EditTyped ==
  ASSUME TypeOK, NEW tree \in Trees, Edit(tree)
  PROVE  TypeOK'
<1>1. edits + 1 \in 0 .. MaxEdits
  BY DocDriftAssumption DEF TypeOK, Edit
<1> QED BY <1>1 DEF TypeOK, Edit

LEMMA WriteFileTyped ==
  ASSUME TypeOK, NEW f \in Files, WriteFile(f)
  PROVE  TypeOK'
<1>1. PICK c \in Contents : Edit([work EXCEPT !.code[f] = c])
  BY DEF WriteFile
<1>2. [work EXCEPT !.code[f] = c] \in Trees
  BY DEF TypeOK, Trees
<1> QED BY <1>1, <1>2, EditTyped

LEMMA RemoveFileTyped ==
  ASSUME TypeOK, NEW f \in Files, RemoveFile(f)
  PROVE  TypeOK'
<1>1. [work EXCEPT !.code[f] = Gone] \in Trees
  BY DEF TypeOK, Trees
<1> QED BY <1>1, EditTyped DEF RemoveFile

LEMMA MoveFileTyped ==
  ASSUME TypeOK, NEW f \in Files, NEW g \in Files, MoveFile(f, g)
  PROVE  TypeOK'
<1>1. [work EXCEPT !.code[g] = work.code[f], !.code[f] = Gone] \in Trees
  BY DEF TypeOK, Trees
<1> QED BY <1>1, EditTyped DEF MoveFile

LEMMA WriteDocTyped ==
  ASSUME TypeOK, NEW d \in Docs, WriteDoc(d)
  PROVE  TypeOK'
<1>1. PICK t \in Texts \cup {Gone} : Edit([work EXCEPT !.docs[d] = t])
  BY DEF WriteDoc
<1>2. [work EXCEPT !.docs[d] = t] \in Trees
  BY DEF TypeOK, Trees
<1> QED BY <1>1, <1>2, EditTyped

\* The manifest of a tree names its documents, by their own directories.
LEMMA ManifestTyped ==
  ASSUME NEW tree, NEW e \in GenerateManifest(tree)
  PROVE  e[2] \in Docs /\ e[1].dir = Dir(e[2]) /\ e[1].ext \in {Ext[f] : f \in Files}
<1>1. PICK d \in DocsOf(tree) :
        e \in {<<[dir |-> Dir(d), ext |-> x], d>> : x \in discoverExtensions(tree, Dir(d))}
  BY DEF GenerateManifest
<1>2. PICK x \in discoverExtensions(tree, Dir(d)) : e = <<[dir |-> Dir(d), ext |-> x], d>>
  BY <1>1
<1>3. e[2] = d /\ e[1] = [dir |-> Dir(d), ext |-> x]
  BY <1>2
<1>4. x \in {Ext[f] : f \in Files}
  BY <1>2 DEF discoverExtensions, FilesOf
<1> QED BY <1>3, <1>4 DEF DocsOf

LEMMA NextTyped == TypeOK /\ [Next]_vars => TypeOK'
<1> SUFFICES ASSUME TypeOK, [Next]_vars PROVE TypeOK'
  OBVIOUS
<1>1. CASE \E f \in Files : WriteFile(f)
  BY <1>1, WriteFileTyped
<1>2. CASE \E f \in Files : RemoveFile(f)
  BY <1>2, RemoveFileTyped
<1>3. CASE \E f, g \in Files : MoveFile(f, g)
  BY <1>3, MoveFileTyped
<1>4. CASE \E d \in Docs : WriteDoc(d)
  BY <1>4, WriteDocTyped
<1>5. CASE Commit
  BY <1>5 DEF Commit, TypeOK
<1>6. CASE UpdateManifest
  BY <1>6, ManifestTyped DEF UpdateManifest, TypeOK
<1>7. CASE Extract
  BY <1>7 DEF Extract, TypeOK, FilesOf
<1>8. CASE UNCHANGED vars
  BY <1>8 DEF vars, TypeOK
<1> QED BY <1>1, <1>2, <1>3, <1>4, <1>5, <1>6, <1>7, <1>8 DEF Next

\* Every variable stays in its type, and every pattern of the manifest is of the
\* directory of its document (check/manifest.go GenerateManifest).
THEOREM TypeCorrect == Spec => []TypeOK
  BY InitTyped, NextTyped, PTL DEF Spec

-----------------------------------------------------------------------------
(* What two trees have in common *)

\* Where the code of a directory is the same, so are its exports.
LEMMA SameExports ==
  ASSUME NEW t, NEW u, NEW dir,
         \A f \in Files : Dir(f) = dir => t.code[f] = u.code[f]
  PROVE  CodeSet(t, dir) = CodeSet(u, dir)
<1>1. ASSUME NEW ext PROVE InDir(t, dir, ext) = InDir(u, dir, ext)
  BY DEF InDir, FilesOf
<1>2. ASSUME NEW ext, NEW f \in InDir(u, dir, ext) PROVE t.code[f] = u.code[f]
  BY DEF InDir, FilesOf
<1>3. ExtractGoExports(t, dir) = ExtractGoExports(u, dir)
  BY <1>1, <1>2 DEF ExtractGoExports
<1>4. ExtractPythonExports(t, dir) = ExtractPythonExports(u, dir)
  BY <1>1, <1>2 DEF ExtractPythonExports
<1>5. ExtractTypeScriptExports(t, dir) = ExtractTypeScriptExports(u, dir)
  BY <1>1, <1>2 DEF ExtractTypeScriptExports
<1> QED BY <1>3, <1>4, <1>5 DEF CodeSet, ExtractCodeExports

\* A symbol that a directory no longer exports was in a file that changed.
LEMMA ChangedFile ==
  ASSUME NEW t, NEW u, NEW dir, CodeSet(t, dir) # CodeSet(u, dir)
  PROVE  \E f \in Files : Dir(f) = dir /\ t.code[f] # u.code[f]
  BY SameExports

\* A reference that became stale names a symbol its directory lost, in a document
\* that did not change.
LEMMA LostSymbol ==
  ASSUME NEW from, NEW to, NEW d \in Docs, NEW s \in NewlyStale(from, to, d)
  PROVE  /\ from.docs[d] # Gone /\ from.docs[d] = to.docs[d]
         /\ s \in Stale(to, d, Dir(d))
         /\ s \in CodeSet(from, Dir(d)) /\ s \notin CodeSet(to, Dir(d))
<1>1. from.docs[d] # Gone /\ from.docs[d] = to.docs[d]
  BY DEF NewlyStale
<1>2. s \in Stale(to, d, Dir(d)) \ Stale(from, d, Dir(d))
  BY <1>1 DEF NewlyStale
<1> QED BY <1>1, <1>2 DEF Stale, ReadmeSymbols

-----------------------------------------------------------------------------
(* What git reports *)

\* The diff lists f as deleted; as the old path of a rename; under its own path with
\* another status.
ListedDeleted(from, to, rs, f) ==
  [status |-> "D", path |-> f, old |-> <<>>] \in DiffBetween(from, to, rs)

ListedRenamed(from, to, rs, f) ==
  \E r \in rs :
    r[1] = f /\ [status |-> "R", path |-> r[2], old |-> f] \in DiffBetween(from, to, rs)

ListedPresent(from, to, rs, f) ==
  \E c \in DiffBetween(from, to, rs) : c.status # "D" /\ c.path = f

\* A lost file that no rename starts from is listed as deleted.
LEMMA LostListed ==
  ASSUME NEW from, NEW to, NEW rs, NEW f \in Lost(from, to), \A r \in rs : r[1] # f
  PROVE  ListedDeleted(from, to, rs, f)
  BY DEF DiffBetween, ListedDeleted

\* A change of a file shows as a deletion or the old path of a rename, or under
\* its own path with another status.
LEMMA ChangeReported ==
  ASSUME NEW from, NEW to, NEW rs \in Renames(from, to), NEW f \in Files,
         from.code[f] # to.code[f]
  PROVE  \/ ListedDeleted(from, to, rs, f)
         \/ ListedRenamed(from, to, rs, f)
         \/ ListedPresent(from, to, rs, f)
<1>1. CASE f \in Lost(from, to)
  <2>1. CASE \A r \in rs : r[1] # f
    BY <1>1, <2>1, LostListed
  <2>2. CASE \E r \in rs : r[1] = f
    <3>1. PICK r \in rs : r[1] = f
      BY <2>2
    <3>2. [status |-> "R", path |-> r[2], old |-> r[1]] \in DiffBetween(from, to, rs)
      BY DEF DiffBetween
    <3> QED BY <3>1, <3>2 DEF ListedRenamed
  <2> QED BY <2>1, <2>2
<1>2. CASE f \in New(from, to)
  <2>1. CASE \A r \in rs : r[2] # f
    <3> DEFINE c == [status |-> "A", path |-> f, old |-> <<>>]
    <3>1. c \in DiffBetween(from, to, rs)
      BY <1>2, <2>1 DEF DiffBetween
    <3>2. c.status # "D" /\ c.path = f
      OBVIOUS
    <3> HIDE DEF c
    <3> QED BY <3>1, <3>2 DEF ListedPresent
  <2>2. CASE \E r \in rs : r[2] = f
    <3>1. PICK r \in rs : r[2] = f
      BY <2>2
    <3> DEFINE c == [status |-> "R", path |-> r[2], old |-> r[1]]
    <3>2. c \in DiffBetween(from, to, rs)
      BY DEF DiffBetween
    <3>3. c.status # "D" /\ c.path = f
      BY <3>1
    <3> HIDE DEF c
    <3> QED BY <3>2, <3>3 DEF ListedPresent
  <2> QED BY <2>1, <2>2
<1>3. CASE f \notin Lost(from, to) /\ f \notin New(from, to)
  <2>1. f \in FilesOf(from) \cap FilesOf(to)
    BY <1>3 DEF Lost, New, FilesOf
  <2> DEFINE c == [status |-> "M", path |-> f, old |-> <<>>]
  <2>2. c \in DiffBetween(from, to, rs)
    BY <2>1 DEF DiffBetween
  <2>3. c.status # "D" /\ c.path = f
    OBVIOUS
  <2> HIDE DEF c
  <2> QED BY <2>2, <2>3 DEF ListedPresent
<1> QED BY <1>1, <1>2, <1>3

\* And nothing else is reported: what is listed changed.
LEMMA OnlyChanges ==
  ASSUME NEW from, NEW to, NEW rs \in Renames(from, to),
         NEW c \in DiffBetween(from, to, rs)
  PROVE  \/ /\ c.status = "D" /\ c.old = <<>>
            /\ c.path \in Lost(from, to) /\ \A r \in rs : r[1] # c.path
         \/ /\ c.status = "A" /\ c.old = <<>> /\ c.path \in New(from, to)
         \/ /\ c.status = "M" /\ c.old = <<>>
            /\ c.path \in FilesOf(from) \cap FilesOf(to)
            /\ from.code[c.path] # to.code[c.path]
         \/ /\ c.status = "R" /\ c.path \in New(from, to) /\ c.old \in Lost(from, to)
            /\ \E r \in rs : c.old = r[1] /\ c.path = r[2]
<1> DEFINE change(f, s) == [status |-> s, path |-> f, old |-> <<>>]
<1>1. CASE c \in {change(f, "D") : f \in Lost(from, to) \ {r[1] : r \in rs}}
  BY <1>1
<1>2. CASE c \in {change(f, "A") : f \in New(from, to) \ {r[2] : r \in rs}}
  BY <1>2
<1>3. CASE c \in {change(f, "M") :
                    f \in {f \in FilesOf(from) \cap FilesOf(to) : from.code[f] # to.code[f]}}
  BY <1>3
<1>4. CASE c \in {[status |-> "R", path |-> r[2], old |-> r[1]] : r \in rs}
  <2>1. PICK r \in rs : c = [status |-> "R", path |-> r[2], old |-> r[1]]
    BY <1>4
  <2>2. r \in Lost(from, to) \X New(from, to)
    BY DEF Renames
  <2> QED BY <2>1, <2>2
<1> QED BY <1>1, <1>2, <1>3, <1>4 DEF DiffBetween

\* A path that is lost or new changed, and no other listed path is empty.
LEMMA Differs ==
  ASSUME NEW from, NEW to, NEW f \in Lost(from, to) \cup New(from, to)
  PROVE  f \in Files /\ from.code[f] # to.code[f]
  BY DEF Lost, New, FilesOf

-----------------------------------------------------------------------------
(* livedocs diff *)

\* A directory with a changed file is one where documents are looked for.
LEMMA ChangeIsNear ==
  ASSUME NEW from, NEW to, NEW rs \in Renames(from, to), NEW f \in Files,
         from.code[f] # to.code[f]
  PROVE  LET changes == DiffBetween(from, to, rs)
         IN  Dir(f) \in NearDirs(ChangedPaths(changes), DeletedPaths(changes))
<1> DEFINE changes == DiffBetween(from, to, rs)
<1>1. f \in ChangedPaths(changes) \cup DeletedPaths(changes)
  <2>1. CASE ListedDeleted(from, to, rs, f)
    BY <2>1 DEF ListedDeleted, DeletedPaths
  <2>2. CASE ListedRenamed(from, to, rs, f)
    BY <2>2 DEF ListedRenamed, DeletedPaths
  <2>3. CASE ListedPresent(from, to, rs, f)
    BY <2>3 DEF ListedPresent, ChangedPaths
  <2> HIDE DEF changes
  <2> QED BY <2>1, <2>2, <2>3, ChangeReported
<1> QED BY <1>1 DEF NearDirs

LEMMA DiffCovers == DiffCatches
<1> SUFFICES ASSUME prev # NoCommit, NEW d \in Docs \ Changelogs,
                    NEW s \in NewlyStale(prev, head, d) \cap NewlyStale(prev, work, d),
                    NEW rs \in Renames(prev, head)
             PROVE  d \in RunDiff(rs)
  BY DEF DiffCatches
<1>1. CodeSet(prev, Dir(d)) # CodeSet(head, Dir(d))
  BY LostSymbol
<1>2. PICK f \in Files : Dir(f) = Dir(d) /\ prev.code[f] # head.code[f]
  BY <1>1, ChangedFile
<1> DEFINE changes == DiffBetween(prev, head, rs)
<1>3. Dir(d) \in NearDirs(ChangedPaths(changes), DeletedPaths(changes))
  BY <1>2, ChangeIsNear
<1>4. work.docs[d] # Gone /\ Stale(work, d, Dir(d)) # {}
  BY LostSymbol
<1>5. d \in DocsOf(work) \ Changelogs
  BY <1>4 DEF DocsOf
<1> QED BY <1>3, <1>4, <1>5 DEF RunDiff, findAffectedDocs

\* livedocs diff reports every document the diffed commit made stale and the
\* working tree still has so (cmd/livedocs/diff.go findAffectedDocs).
THEOREM DiffHolds == Spec => []DiffCatches
  BY DiffCovers, PTL

-----------------------------------------------------------------------------
(* check --manifest *)

\* A symbol a directory lost was lost in files of an extension it had: of that
\* extension some file changed.
LEMMA LostInExtension ==
  ASSUME NEW t, NEW u, NEW dir, NEW s \in CodeSet(t, dir), s \notin CodeSet(u, dir)
  PROVE  \E f \in Files : /\ Dir(f) = dir /\ t.code[f] # u.code[f]
                          /\ Ext[f] \in discoverExtensions(t, dir)
<1> DEFINE Has(x) == s = x \/ s = Bare[x]
<1>1. PICK x \in ExtractCodeExports(t, dir) : Has(x)
  BY DEF CodeSet
<1>2. x \notin ExtractCodeExports(u, dir)
  BY <1>1 DEF CodeSet
<1> HIDE DEF Has
<1>3. ASSUME NEW f \in Files, Dir(f) = dir, NEW g \in FilesOf(t), Dir(g) = dir,
             Ext[g] = Ext[f]
      PROVE  Ext[f] \in discoverExtensions(t, dir)
  BY <1>3 DEF discoverExtensions
<1>4. CASE x \in ExtractGoExports(t, dir)
  <2> DEFINE goes(tree) == InDir(tree, dir, ".go")
  <2>1. PICK g \in goes(t) : x \in t.code[g].syms
    BY <1>4 DEF ExtractGoExports
  <2>2. \A f \in goes(t) : t.code[f].ok
    BY <1>4 DEF ExtractGoExports
  <2>3. g \in FilesOf(t) /\ g \in Files /\ Dir(g) = dir /\ Ext[g] = ".go"
    BY <2>1 DEF InDir, FilesOf
  <2>4. CASE \A f \in goes(u) : u.code[f].ok
    <3>1. g \notin goes(u) \/ x \notin u.code[g].syms
      BY <1>2, <2>4 DEF ExtractCodeExports, ExtractGoExports
    <3>2. t.code[g] # u.code[g]
      BY <2>1, <2>3, <3>1 DEF InDir, FilesOf
    <3> QED BY <1>3, <2>3, <3>2
  <2>5. CASE \E f \in goes(u) : ~ u.code[f].ok
    <3>1. PICK f \in goes(u) : ~ u.code[f].ok
      BY <2>5
    <3>2. f \in Files /\ Dir(f) = dir /\ Ext[f] = ".go" /\ u.code[f] # Gone
      BY <3>1 DEF InDir, FilesOf
    <3>3. t.code[f] # u.code[f]
      BY <2>2, <3>1, <3>2 DEF InDir, FilesOf
    <3> QED BY <1>3, <2>3, <3>2, <3>3
  <2> QED BY <2>4, <2>5
<1>5. CASE x \in ExtractPythonExports(t, dir)
  <2>1. PICK g \in InDir(t, dir, ".py") : x \in t.code[g].syms
    BY <1>5 DEF ExtractPythonExports
  <2>2. g \in FilesOf(t) /\ g \in Files /\ Dir(g) = dir /\ Ext[g] = ".py"
    BY <2>1 DEF InDir, FilesOf
  <2>3. g \notin InDir(u, dir, ".py") \/ x \notin u.code[g].syms
    BY <1>2 DEF ExtractCodeExports, ExtractPythonExports
  <2>4. t.code[g] # u.code[g]
    BY <2>1, <2>2, <2>3 DEF InDir, FilesOf
  <2> QED BY <1>3, <2>2, <2>4
<1>6. CASE x \in ExtractTypeScriptExports(t, dir)
  <2>1. PICK g \in InDir(t, dir, ".ts") : x \in t.code[g].syms
    BY <1>6 DEF ExtractTypeScriptExports
  <2>2. g \in FilesOf(t) /\ g \in Files /\ Dir(g) = dir /\ Ext[g] = ".ts"
    BY <2>1 DEF InDir, FilesOf
  <2>3. g \notin InDir(u, dir, ".ts") \/ x \notin u.code[g].syms
    BY <1>2 DEF ExtractCodeExports, ExtractTypeScriptExports
  <2>4. t.code[g] # u.code[g]
    BY <2>1, <2>2, <2>3 DEF InDir, FilesOf
  <2> QED BY <1>3, <2>2, <2>4
<1> QED BY <1>1, <1>4, <1>5, <1>6 DEF ExtractCodeExports

\* The manifest of a tree has a pattern for each extension beside a document.
LEMMA Patterned ==
  ASSUME NEW tree, NEW d \in DocsOf(tree), NEW ext \in discoverExtensions(tree, Dir(d))
  PROVE  <<[dir |-> Dir(d), ext |-> ext], d>> \in GenerateManifest(tree)
  BY DEF GenerateManifest

LEMMA HookCovers == HookCatches
<1> SUFFICES ASSUME prev # NoCommit, NEW d \in Docs,
                    NEW s \in NewlyStale(prev, Tracked, d),
                    GenerateManifest(prev) \subseteq manifest,
                    NEW rs \in Renames(prev, Tracked)
             PROVE  \/ d \in RunManifest(rs)
                    \/ \E r \in rs :
                         /\ Dir(r[1]) = Dir(d)
                         /\ ~ Matches([dir |-> Dir(d), ext |-> Ext[r[1]]], r[2])
  <2> HIDE DEF Tracked
  <2> QED BY DEF HookCatches
<1> DEFINE now == Tracked
<1> HIDE DEF now
<1>1. PICK f \in Files : /\ Dir(f) = Dir(d) /\ prev.code[f] # now.code[f]
                         /\ Ext[f] \in discoverExtensions(prev, Dir(d))
  BY LostSymbol, LostInExtension DEF now
<1>2. d \in DocsOf(prev)
  BY LostSymbol DEF DocsOf
<1> DEFINE pattern == [dir |-> Dir(d), ext |-> Ext[f]]
<1>3. <<pattern, d>> \in manifest
  BY <1>1, <1>2, Patterned
<1>4. ASSUME NEW g \in GitChangedFiles(rs), Matches(pattern, g)
      PROVE  d \in RunManifest(rs)
  <2> DEFINE e == <<pattern, d>>
  <2>1. e \in {x \in manifest : \E h \in GitChangedFiles(rs) : Matches(x[1], h)}
    BY <1>3, <1>4
  <2>2. e[2] = d
    OBVIOUS
  <2> HIDE DEF e
  <2> QED BY <2>1, <2>2 DEF RunManifest, AffectedDocs
<1>5. Matches(pattern, f)
  BY <1>1 DEF Matches
<1>6. GitChangedFiles(rs) = {c.path : c \in DiffBetween(prev, now, rs)}
  BY DEF GitChangedFiles, now
<1> HIDE DEF pattern
<1>7. CASE ListedDeleted(prev, now, rs, f)
  BY <1>4, <1>5, <1>6, <1>7 DEF ListedDeleted
<1>8. CASE ListedPresent(prev, now, rs, f)
  BY <1>4, <1>5, <1>6, <1>8 DEF ListedPresent
<1>9. CASE ListedRenamed(prev, now, rs, f)
  <2>1. PICK r \in rs :
          r[1] = f /\ [status |-> "R", path |-> r[2], old |-> f] \in DiffBetween(prev, now, rs)
    BY <1>9 DEF ListedRenamed
  <2>2. r[2] \in GitChangedFiles(rs)
    BY <1>6, <2>1
  <2>3. CASE Matches(pattern, r[2])
    BY <1>4, <2>2, <2>3
  <2>4. CASE ~ Matches(pattern, r[2])
    BY <1>1, <2>1, <2>4 DEF pattern
  <2> QED BY <2>3, <2>4
<1>10. rs \in Renames(prev, now)
  BY DEF now
<1>11. prev.code[f] # now.code[f]
  BY <1>1
<1>12. \/ ListedDeleted(prev, now, rs, f)
       \/ ListedRenamed(prev, now, rs, f)
       \/ ListedPresent(prev, now, rs, f)
  BY <1>10, <1>11, ChangeReported
<1> QED BY <1>7, <1>8, <1>9, <1>12

\* The pre-commit check flags every document that the last commit or the edits since
\* made stale, unless git reports a rename out of its patterns
\* (check/manifest.go RunManifest, GitChangedFiles).
THEOREM HookHolds == Spec => []HookCatches
  BY HookCovers, PTL

-----------------------------------------------------------------------------
(* livedocs prbot *)

\* Which claims are invalid or stale, in terms of the two trees.
LEMMA Judged ==
  ASSUME TypeOK, NEW from, NEW to, NEW rs \in Renames(from, to), NEW f \in claimed
  PROVE  LET now == Invalidate(DiffBetween(from, to, rs))[f]
         IN  /\ now # "valid" <=> from.code[f] # to.code[f]
             /\ now = "invalid" <=> f \in Lost(from, to) /\ \A r \in rs : r[1] # f
<1> DEFINE changes == DiffBetween(from, to, rs)
           gone == \E c \in changes : c.status = "D" /\ c.path = f
           touched == \E c \in changes : c.status # "D" /\ f \in {c.path, c.old}
<1>1. f \in Files /\ f # <<>>
  BY DocDriftAssumption DEF TypeOK
<1>2. Invalidate(changes)[f] = IF gone THEN "invalid" ELSE IF touched THEN "stale" ELSE "valid"
  BY DEF Invalidate
<1>3. gone <=> f \in Lost(from, to) /\ \A r \in rs : r[1] # f
  <2>1. ASSUME gone PROVE f \in Lost(from, to) /\ \A r \in rs : r[1] # f
    <3>1. PICK c \in changes : c.status = "D" /\ c.path = f
      BY <2>1
    <3> QED BY <3>1, OnlyChanges
  <2>2. ASSUME f \in Lost(from, to), \A r \in rs : r[1] # f PROVE gone
    <3> DEFINE c == [status |-> "D", path |-> f, old |-> <<>>]
    <3>2. c \in changes
      BY <2>2, LostListed DEF ListedDeleted
    <3>3. c.status = "D" /\ c.path = f
      OBVIOUS
    <3> QED BY <3>2, <3>3
  <2> QED BY <2>1, <2>2
<1>4. ASSUME gone \/ touched PROVE from.code[f] # to.code[f]
  <2>1. \E c \in changes : f \in {c.path, c.old}
    <3>1. CASE gone
      BY <3>1
    <3>2. CASE touched
      BY <3>2
    <3> QED BY <1>4, <3>1, <3>2
  <2>2. PICK c \in changes : f \in {c.path, c.old}
    BY <2>1
  <2> QED BY <1>1, <2>2, OnlyChanges, Differs
<1>5. ASSUME from.code[f] # to.code[f] PROVE gone \/ touched
  <2>1. CASE ListedRenamed(from, to, rs, f)
    <3>1. PICK r \in rs : [status |-> "R", path |-> r[2], old |-> f] \in changes
      BY <2>1 DEF ListedRenamed
    <3> DEFINE c == [status |-> "R", path |-> r[2], old |-> f]
    <3>2. c \in changes /\ c.status # "D" /\ c.old = f
      BY <3>1
    <3> HIDE DEF c
    <3> QED BY <3>2
  <2>2. CASE ListedDeleted(from, to, rs, f)
    <3> DEFINE c == [status |-> "D", path |-> f, old |-> <<>>]
    <3>1. c \in changes /\ c.status = "D" /\ c.path = f
      BY <2>2 DEF ListedDeleted
    <3> HIDE DEF c
    <3> QED BY <3>1
  <2>3. CASE ListedPresent(from, to, rs, f)
    BY <2>3 DEF ListedPresent
  <2> HIDE DEF gone, touched
  <2> QED BY <1>1, <1>5, <2>1, <2>2, <2>3, ChangeReported
<1> HIDE DEF gone, touched, changes
<1> QED BY <1>2, <1>3, <1>4, <1>5 DEF changes

LEMMA PrbotJudges == TypeOK => PrbotExact
<1> SUFFICES ASSUME TypeOK, prev # NoCommit, NEW rs \in Renames(prev, head)
             PROVE  /\ {f \in claimed : Analyze(rs)[f] # "valid"}
                         = {f \in claimed : prev.code[f] # head.code[f]}
                    /\ {f \in claimed : Analyze(rs)[f] = "invalid"}
                         = {f \in claimed \cap Lost(prev, head) : \A r \in rs : r[1] # f}
  BY DEF PrbotExact
<1> QED BY Judged DEF Analyze

\* The PR bot invalidates exactly the claims of what the diff changed
\* (anchor.Invalidate over gitdiff.ParseNameStatus).
THEOREM PrbotHolds == Spec => []PrbotExact
  BY TypeCorrect, PrbotJudges, PTL

-----------------------------------------------------------------------------
(* livedocs check, audit and verify *)

\* A symbol defined in a file that is read is exported, unless the file is Go and
\* one beside it does not parse.
LEMMA Exported ==
  ASSUME NEW tree, NEW f \in FilesOf(tree), Ext[f] \in Read, NEW x \in tree.code[f].syms,
         Ext[f] = ".go" => \A g \in InDir(tree, Dir(f), ".go") : tree.code[g].ok
  PROVE  x \in ExtractCodeExports(tree, Dir(f))
<1>1. f \in InDir(tree, Dir(f), Ext[f])
  BY DEF InDir
<1>2. CASE Ext[f] = ".go"
  BY <1>1, <1>2 DEF ExtractCodeExports, ExtractGoExports
<1>3. CASE Ext[f] = ".py"
  BY <1>1, <1>3 DEF ExtractCodeExports, ExtractPythonExports
<1>4. CASE Ext[f] = ".ts"
  BY <1>1, <1>4 DEF ExtractCodeExports, ExtractTypeScriptExports
<1> QED BY <1>2, <1>3, <1>4 DEF Read

LEMMA StaleIsExplained == StaleExplained
<1> SUFFICES ASSUME NEW d \in DocsOf(work), NEW s \in Stale(work, d, Dir(d)),
                    NEW f \in {g \in FilesOf(work) : Dir(g) = Dir(d) /\ Ext[g] \in Read},
                    NEW x \in work.code[f].syms, s \in {x, Bare[x]},
                    Ext[f] = ".go" => \A g \in InDir(work, Dir(d), ".go") : work.code[g].ok
             PROVE  FALSE
  BY DEF StaleExplained
<1>1. x \in ExtractCodeExports(work, Dir(d))
  BY Exported
<1>2. s \in CodeSet(work, Dir(d))
  BY <1>1 DEF CodeSet
<1> QED BY <1>2 DEF Stale

\* A path ends in itself, and so does one built from it.
LEMMA EndsIn ==
  ASSUME NEW E, NEW s \in Seq(E), NEW u \in Seq(E)
  PROVE  IsSuffix(s, u \o s)
<1> DEFINE t == u \o s
           rs == Reverse(s)
           rt == Reverse(t)
<1>1. /\ t \in Seq(E) /\ Len(t) = Len(u) + Len(s)
      /\ \A i \in 1 .. Len(t) : t[i] = IF i <= Len(u) THEN u[i] ELSE s[i - Len(u)]
  BY ConcatProperties
<1> HIDE DEF t
<1>2. rs \in Seq(E) /\ Len(rs) = Len(s)
  BY DEF Reverse
<1>3. rt \in Seq(E) /\ Len(rt) = Len(t)
  BY <1>1 DEF Reverse
<1>4. ASSUME NEW i \in 1 .. Len(s) PROVE rs[i] = rt[i]
  <2>1. i \in 1 .. Len(t) /\ Len(t) - i + 1 \in 1 .. Len(t) /\ ~ (Len(t) - i + 1 <= Len(u))
    BY <1>1
  <2>2. rt[i] = t[Len(t) - i + 1]
    BY <2>1 DEF Reverse
  <2>3. Len(t) - i + 1 - Len(u) = Len(s) - i + 1
    BY <1>1
  <2>4. t[Len(t) - i + 1] = s[Len(s) - i + 1]
    BY <1>1, <2>1, <2>3
  <2>5. rs[i] = s[Len(s) - i + 1]
    BY DEF Reverse
  <2> QED BY <2>2, <2>4, <2>5
<1> HIDE DEF rs, rt
<1>5. SubSeq(rs, 1, Len(rs)) = SubSeq(rt, 1, Len(rs))
  <2>1. Len(rs) \in Nat /\ Len(rt) \in Nat /\ Len(rs) <= Len(rt)
    BY <1>1, <1>2, <1>3
  <2> QED BY <1>2, <1>4, <2>1
<1> QED BY <1>1, <1>2, <1>3, <1>5 DEF IsSuffix, IsPrefix, rs, rt, t

\* The paths and directories of a tree are its paths and what is above them.
LEMMA PathsAbove ==
  ASSUME NEW tree, NEW q, q # <<>>
  PROVE  q \in PathsOf(tree) \cup DirsOf(tree)
           <=> \E p \in PathsOf(tree) : q \in {p} \cup Above[p]
  BY DEF DirsOf

\* A path that a direct lookup finds is one that the search finds.
LEMMA DirectIsSuffix ==
  ASSUME NEW tree, NEW c \in AiClaims, verifyFilePath(tree, c)
  PROVE  \E q \in PathsOf(tree) \cup DirsOf(tree) : IsSuffix(c.value, q) /\ q # <<>>
<1> DEFINE E == Range(c.value) \cup Range(c.dir)
<1>1. c.value \in Seq(E) /\ c.dir \in Seq(E) /\ c.value # <<>>
  BY DocDriftAssumption
<1> HIDE DEF E
<1>2. <<>> \in Seq(E) /\ <<>> \o c.value = c.value
  BY <1>1
<1>3. IsSuffix(c.value, c.value) /\ IsSuffix(c.value, c.dir \o c.value)
  BY <1>1, <1>2, EndsIn
<1>4. c.dir \o c.value # <<>>
  BY <1>1
<1>5. ~ IsSuffix(c.value, <<>>)
  <2>1. Len(Reverse(c.value)) = Len(c.value) /\ Len(Reverse(<<>>)) = 0
    BY <1>1 DEF Reverse
  <2>2. Len(c.value) > 0
    BY <1>1
  <2> QED BY <2>1, <2>2 DEF IsSuffix, IsPrefix
<1> QED BY <1>1, <1>3, <1>4, <1>5 DEF verifyFilePath, PathFound, SuffixFound

LEMMA AiJudged == AiExact
<1> SUFFICES ASSUME NEW c \in AiClaims
             PROVE  verifyFilePath(work, c)
                      <=> \E p \in PathsOf(work) : \E q \in {p} \cup Above[p] : IsSuffix(c.value, q)
  BY DEF AiExact
<1>1. ASSUME verifyFilePath(work, c)
      PROVE  \E p \in PathsOf(work) : \E q \in {p} \cup Above[p] : IsSuffix(c.value, q)
  BY <1>1, DirectIsSuffix, PathsAbove
<1>2. ASSUME NEW p \in PathsOf(work), NEW q \in {p} \cup Above[p], IsSuffix(c.value, q)
      PROVE  verifyFilePath(work, c)
  <2>1. q \in PathsOf(work) \cup DirsOf(work)
    BY DEF DirsOf
  <2> QED BY <1>2, <2>1 DEF verifyFilePath, SuffixFound
<1> QED BY <1>1, <1>2

\* A document is fresh when nothing in it is stale, and what a document names can
\* be counted.
LEMMA FreshExactly ==
  ASSUME TypeOK, NEW d \in FindDocFiles(work)
  PROVE  IsFresh(work, d) <=> ~ DriftsIn(work, d)
<1>1. work.docs[d] \in Texts
  BY DEF TypeOK, Trees, FindDocFiles, DocsOf
<1>2. IsFiniteSet(Stale(work, d, Dir(d))) /\ IsFiniteSet(StalePackages(work, d))
  BY <1>1, DocDriftAssumption, FS_Subset DEF Stale, StalePackages, ReadmeSymbols, PkgPaths
<1> DEFINE m == Cardinality(Stale(work, d, Dir(d)))
           n == Cardinality(StalePackages(work, d))
<1>3. m \in Nat /\ n \in Nat
  BY <1>2, FS_CardinalityType
<1>4. (m = 0 <=> Stale(work, d, Dir(d)) = {}) /\ (n = 0 <=> StalePackages(work, d) = {})
  BY <1>2, FS_EmptySet
<1>5. m + n = 0 <=> m = 0 /\ n = 0
  BY <1>3
<1> QED BY <1>4, <1>5 DEF IsFresh, DriftsIn

LEMMA AuditJudged == TypeOK => AuditAgrees
  BY FreshExactly DEF AuditAgrees, HasDrift, FilesWithDrift

\* What check, audit and verify report is there, and they agree on whether there is
\* anything to report (drift.ExtractCodeExports, aicontext.verifyFilePath,
\* check.runWithTargets, audit.buildSummary).
THEOREM ReportsHold == Spec => []ReportsAgree
<1>1. TypeOK => ReportsAgree
  BY StaleIsExplained, AiJudged, AuditJudged DEF ReportsAgree
<1> QED BY <1>1, TypeCorrect, PTL
=============================================================================
