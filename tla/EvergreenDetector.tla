------------------------- MODULE EvergreenDetector --------------------------
(***************************************************************************)
(* What an evergreen document cites and when a citation has drifted: the   *)
(* manifest the deep-search executor builds from the two tool replies      *)
(* (executors/deepsearch_mcp.go) and the detector that compares it with    *)
(* the claims database (detector.go).                                      *)
(*                                                                         *)
(* A place is a cited (repo, file, line range); the claims map a place to  *)
(* the symbol there, or to NoSymbol.  A symbol is its ID with its          *)
(* signature and its body hash, 0 for a hash the manifest does not have.   *)
(***************************************************************************)
EXTENDS Naturals, FiniteSets, SequencesExt

NoSymbol == [id |-> 0, sig |-> 0, body |-> 0]

\* A precise citation of a place; "was" is the symbol it was resolved to.
Cited(place, was) == [fuzzy |-> FALSE, place |-> place, was |-> was]
\* A repository named in prose: no location, no symbol.
Fuzzy(repo) == [fuzzy |-> TRUE, place |-> repo, was |-> NoSymbol]

-----------------------------------------------------------------------------
\* The executor.  A reply has a share link or not; with one, the read tool
\* fails or returns markdown.  sources: the blob links of the markdown, in
\* order, "malformed" for one the link grammar turns away.

\* One fuzzy entry per repository named.
FuzzyManifestFromProse(repos) ==
  [i \in 1 .. Cardinality(repos) |-> Fuzzy(SetToSeq(repos)[i])]

\* The first link of every place.
ParseMarkdownSources(sources) ==
  FoldLeft(LAMBDA places, link : IF link = "malformed" \/ Contains(places, link)
                                 THEN places ELSE Append(places, link),
           <<>>, sources)

\* Mutant: prose is searched only when there is nothing to read.
EntriesOfRead(reply) ==
  IF ~reply.link \/ ~reply.read THEN FuzzyManifestFromProse(reply.prose)
  ELSE LET places == ParseMarkdownSources(reply.sources)
       IN [i \in DOMAIN places |-> Cited(places[i], NoSymbol)]

\* Citations, else repositories of the markdown, else those of the answer.
Entries(reply) ==
  LET places == ParseMarkdownSources(reply.sources)
  IN IF ~reply.link \/ ~reply.read THEN FuzzyManifestFromProse(reply.prose)
     ELSE IF places # <<>> THEN [i \in DOMAIN places |-> Cited(places[i], NoSymbol)]
     ELSE IF reply.markdown # {} THEN FuzzyManifestFromProse(reply.markdown)
     ELSE FuzzyManifestFromProse(reply.prose)

\* The symbol IDs, when the executor has a claims reader; the deep-search
\* executor records no hashes, an adapter's may (hashes).
Resolve(entries, reader, claims, hashes) ==
  [i \in DOMAIN entries |->
     IF entries[i].fuzzy \/ reader # "up" THEN entries[i]
     ELSE LET now == claims[entries[i].place]
          IN [entries[i] EXCEPT !.was = IF hashes THEN now
                                        ELSE [NoSymbol EXCEPT !.id = now.id]]]

-----------------------------------------------------------------------------
\* The detector

\* The symbol with this ID, wherever it is now: GetSymbol.
SymbolOf(claims, id) ==
  LET at == {p \in DOMAIN claims : claims[p].id = id}
  IN IF at = {} THEN NoSymbol ELSE claims[CHOOSE p \in at : TRUE]

Moved(was, now) == was # 0 /\ now # 0 /\ was # now

\* Mutant: a body that moved hides a signature that moved.
BodyFirst(was, now) ==
  IF Moved(was.body, now.body) THEN {<<"warm", "body">>}
  ELSE IF Moved(was.sig, now.sig) THEN {<<"hot", "signature">>}
  ELSE {}

\* The early cutoff: a signature that moved is hot whatever the body did.
ClassifyBySymbolID(was, now) ==
  IF Moved(was.sig, now.sig) THEN {<<"hot", "signature">>}
  ELSE IF Moved(was.body, now.body) THEN {<<"warm", "body">>}
  ELSE {}

\* Mutant: another symbol at the cited range is taken for the cited one.
RenameForgiven(entry, claims) ==
  IF claims[entry.place].id # 0 THEN {} ELSE {<<"orphaned", "deleted">>}

\* Renamed when another symbol is at the cited range.
ClassifyMissingSymbol(entry, claims) ==
  IF claims[entry.place].id \notin {0, entry.was.id}
  THEN {<<"orphaned", "renamed">>} ELSE {<<"orphaned", "deleted">>}

\* Without a symbol ID only an empty place is drift.
ClassifyByLocation(entry, claims) ==
  IF claims[entry.place].id = 0 THEN {<<"orphaned", "deleted">>} ELSE {}

ClassifyEntry(entry, claims) ==
  IF entry.fuzzy THEN {}
  ELSE IF entry.was.id = 0 THEN ClassifyByLocation(entry, claims)
  ELSE LET now == SymbolOf(claims, entry.was.id)
       IN IF now = NoSymbol THEN ClassifyMissingSymbol(entry, claims)
          ELSE ClassifyBySymbolID(entry.was, now)

\* Document-scoped; maxAge 0 switches it off.
ClassifyAge(age, maxAge) ==
  IF maxAge > 0 /\ age > maxAge THEN {<<"cold", "age">>} ELSE {}

SeverityRank == [orphaned |-> 0, hot |-> 1, warm |-> 2, cold |-> 3]

\* The findings, each with its entry's index (0: the document), most severe
\* first and in manifest order.  Without a reader only the age is looked at; a
\* reader that fails on an entry to be checked fails the whole call.
Detect(manifest, reader, claims, age, maxAge) ==
  LET ofEntries == IF reader = "none" THEN {}
                   ELSE UNION {{<<f[1], f[2], i>> : f \in ClassifyEntry(manifest[i], claims)}
                               : i \in DOMAIN manifest}
      ofAge == {<<f[1], f[2], 0>> : f \in ClassifyAge(age, maxAge)}
      found == ofEntries \cup ofAge
      Before(f, g) == \/ SeverityRank[f[1]] < SeverityRank[g[1]]
                      \/ f[1] = g[1] /\ f[3] < g[3]
      Sorted(s) == \A j, k \in DOMAIN s : j < k => Before(s[j], s[k])
  IN IF reader = "down" /\ \E i \in DOMAIN manifest : ~manifest[i].fuzzy
     THEN [failed |-> TRUE, findings |-> <<>>]
     ELSE [failed |-> FALSE, findings |-> CHOOSE s \in SetToSeqs(found) : Sorted(s)]
=============================================================================
