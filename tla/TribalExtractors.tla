-------------------------- MODULE TribalExtractors ---------------------------
(***************************************************************************)
(* What the deterministic extractors find in a checkout: the rationale of  *)
(* a file's last commit that says something (commit_rationale.go), who     *)
(* owns its lines (blame.go), its markers (inline_marker.go), and the      *)
(* owners CODEOWNERS names for a pattern (codeowners.go).  A body is a     *)
(* text, or for blame the lines each author owns; a hash is what was       *)
(* hashed.                                                                 *)
(***************************************************************************)
EXTENDS Naturals, FiniteSets, SequencesExt

CONSTANTS
  File,      \* the file-level symbol
  Log,       \* git log of the file, latest first: [sha, msg, type, long]
  Blame,     \* git blame of the file, by line: [sha, author, at]
  Markers,   \* its TODO, FIXME, HACK...: [line, text]
  Rules      \* lines of CODEOWNERS: [pattern, owners, at]

ASSUME ExtractorsAssumption == Blame \in Seq(Range(Blame))

\* A row of tribal_evidence.
Row(ref, type, hash) == [ref |-> ref, type |-> type, hash |-> hash]

\* A fact an extractor hands to the store.
Found(subject, text, hash, ev) ==
  [subject |-> subject, text |-> text, hash |-> hash, ev |-> ev]

TrivialTypes == {"chore", "ci", "docs", "style"}

\* A message of more than 20 characters, whose type is not a trivial one; a
\* message without a type will do.
NonTrivial(commit) == commit.long /\ commit.type \notin TrivialTypes

\* The latest such commit, if there is one.
CommitRationale ==
  LET telling == {i \in 1 .. Len(Log) : NonTrivial(Log[i])}
  IN {Found(File, Log[i].msg, Log[i].msg,
            {Row(Log[i].sha, "commit_msg", Log[i].msg)}) :
        i \in {j \in telling : \A k \in telling : j <= k}}

\* The lines of an author, and the latest commit among them.
LinesOf(author) == {i \in 1 .. Len(Blame) : Blame[i].author = author}
LatestSHA(author) ==
  LET latest == {i \in LinesOf(author) :
                   \A j \in LinesOf(author) : Blame[j].at <= Blame[i].at}
  IN Blame[CHOOSE i \in latest : \A j \in latest : i <= j].sha

\* One fact for the file, with a row for each author.
Ownership ==
  LET authors == {Blame[i].author : i \in 1 .. Len(Blame)}
      body == [a \in authors |-> Cardinality(LinesOf(a))]
      shas == [i \in 1 .. Len(Blame) |-> Blame[i].sha]
  IN IF Blame = <<>> THEN {}
     ELSE {Found(File, body, shas, {Row(LatestSHA(a), "blame", shas) : a \in authors})}

MarkerFacts ==
  {Found(File, m.text, m.text, {Row(m.line, "inline_marker", m.text)}) : m \in Markers}

\* Each rule is a fact about its pattern; every rule of one CODEOWNERS file has
\* the same source reference.
Codeowners ==
  {Found(r.pattern, r.owners, r.owners, {Row(r.at, "codeowners", r.owners)}) : r \in Rules}

Extracted == CommitRationale \cup Ownership \cup MarkerFacts \cup Codeowners
=============================================================================
