-------------------------- MODULE EvergreenRefresh --------------------------
(***************************************************************************)
(* Saved deep-search documents (evergreen/): the SQLite store with its     *)
(* revision history (sqlite_store.go), the refresh tool (mcptools.go) and  *)
(* the two-level rate limit in front of the executor (ratelimiter.go).     *)
(*                                                                         *)
(* A refresh reads the document, asks the limiter, runs the executor for   *)
(* as long as that takes, and saves its copy of the document back whole:   *)
(* status changes, deletions and other refreshes land in between.  A store *)
(* call is one transaction.  The answer of an executor run is its number;  *)
(* answers keeps the manifest it came with.  Meanwhile the code moves on   *)
(* under the claims database the detector compares with.  A refresh the    *)
(* store or the orphan guard turns away, a dry run and a status call       *)
(* change nothing and are no step.                                         *)
(*                                                                         *)
(* History variables (not in the code): stored, overtaken, ran, refills    *)
(* and the fields seen and reply of an answer.                             *)
(***************************************************************************)
EXTENDS EvergreenDetector

CONSTANTS
  Docs,          \* document IDs that may be minted
  Clients,       \* concurrent refresh calls
  Sessions,      \* MCP sessions; a CLI process is a session of its own
  SessionOf,     \* [Clients -> Sessions]
  DocBurst,      \* bucket of a (session, document) pair
  SessionBurst,  \* bucket of a session
  MaxRevisions,  \* revisions kept per document
  Places,        \* cited source ranges
  Repos,         \* repositories a prose answer may name
  Replies,       \* what the deep-search tools may reply
  MaxAge,        \* max_age_days of every document, 0 for none
  MaxRuns,       \* bound: executor runs in a behaviour
  MaxRefills,    \* bound: refills of each kind of bucket
  MaxEdits,      \* bound: changes of the claims
  Sites          \* the settings a behaviour may start in, each with bounds of
                 \* its own

ASSUME EvergreenAssumption ==
  /\ IsFiniteSet(Clients) /\ IsFiniteSet(Places)
  /\ SessionOf \in [Clients -> Sessions]
  /\ DocBurst \in Nat \ {0}
  /\ SessionBurst \in Nat \ {0}
  /\ MaxRevisions \in Nat \ {0}
  /\ MaxRuns \in Nat
  /\ MaxRefills \in Nat
  /\ MaxAge \in Nat
  /\ MaxEdits \in Nat
  /\ Replies \subseteq
       [link : BOOLEAN, read : BOOLEAN, sources : Seq(Places \cup {"malformed"}),
        markdown : SUBSET Repos, prose : SUBSET Repos]
  /\ IsFiniteSet(Repos)
  /\ "malformed" \notin Places \cup Repos
  /\ Sites \subseteq
       [docs : Nat, calls : Nat, runs : 0 .. MaxRuns, refills : 0 .. MaxRefills,
        edits : 0 .. MaxEdits, reader : {"none", "up"}, hashes : BOOLEAN,
        replies : SUBSET Replies]

VARIABLES
  row,            \* deep_search_documents: the row of a document, or NoRow
  revisions,      \* deep_search_document_revisions: the rows of a document
  minted,         \* IDs NewDocumentID returned
  call,           \* the refresh each client runs
  docTokens,      \* perDoc buckets
  sessionTokens,  \* perSession buckets
  answers,        \* the manifest of each executor run, oldest first
  claims,         \* the symbol the claims database has at each place
  age,            \* days since last_refreshed_at
  edits,          \* changes of the claims so far
  site,           \* the setting of the behaviour
  stored,         \* every answer the row had since it was inserted
  overtaken,      \* calls whose document was marked orphaned, or deleted,
                  \* after they had read it
  ran,            \* executor runs of each pair and of each session
  refills         \* refills of each kind of bucket

vars == <<row, revisions, minted, call, docTokens, sessionTokens, answers,
          claims, age, edits, site, stored, overtaken, ran, refills>>

store == <<row, revisions, minted, stored, overtaken, age>>
limits == <<docTokens, sessionTokens, ran, refills, site>>
code == <<claims, edits>>

RunNumbers == 1 .. MaxRuns
\* "fresh" stands for every status but orphaned: the code tells only that one.
Statuses == {"fresh", "orphaned"}
Rows == [answer : RunNumbers, status : Statuses]
NoRow == [answer |-> 0, status |-> "none"]
Revisions == [num : Nat \ {0}, answer : RunNumbers]

Calls == [at : {"session", "document", "executor"}, doc : Docs, ack : BOOLEAN,
          answer : {0}]
    \cup [at : {"save"}, doc : Docs, ack : BOOLEAN, answer : RunNumbers]
NoCall == [at |-> "idle"]

\* IDs are not used again: every edit may mint one.
Symbols == [id : 1 .. Cardinality(Places) + MaxEdits, sig : 1 .. 2, body : 1 .. 2]
Claims == [Places -> Symbols \cup {NoSymbol}]
FirstId == CHOOSE f \in Injection(Places, 1 .. Cardinality(Places)) : TRUE
runs == Len(answers)

Answered ==
  {[manifest |-> Resolve(Entries(reply), reader, seen, hashes), seen |-> seen,
    reply |-> reply] :
     reply \in Replies, reader \in {"none", "up", "down"}, seen \in Claims,
     hashes \in BOOLEAN}

TypeOK ==
  /\ row \in [Docs -> Rows \cup {NoRow}]
  /\ revisions \in [Docs -> SUBSET Revisions]
  /\ stored \in [Docs -> Seq(RunNumbers)]
  /\ minted \subseteq Docs
  /\ call \in [Clients -> Calls \cup {NoCall}]
  /\ docTokens \in [Sessions -> [Docs -> 0 .. DocBurst]]
  /\ sessionTokens \in [Sessions -> 0 .. SessionBurst]
  /\ answers \in Seq(Answered)
  /\ runs <= MaxRuns
  /\ claims \in Claims
  /\ age \in [Docs -> 0 .. MaxAge + 1]
  /\ edits \in 0 .. MaxEdits
  /\ site \in Sites
  /\ overtaken \in [orphaned : SUBSET Clients, deleted : SUBSET Clients]
  /\ ran \in [doc : [Sessions -> [Docs -> Nat]], session : [Sessions -> Nat]]
  /\ refills \in [doc : 0 .. MaxRefills, session : 0 .. MaxRefills]

Init ==
  /\ row = [d \in Docs |-> NoRow]
  /\ revisions = [d \in Docs |-> {}]
  /\ minted = {}
  /\ call = [c \in Clients |-> NoCall]
  /\ docTokens = [s \in Sessions |-> [d \in Docs |-> DocBurst]]
  /\ sessionTokens = [s \in Sessions |-> SessionBurst]
  /\ answers = <<>>
  /\ claims = [p \in Places |-> [id |-> FirstId[p], sig |-> 1, body |-> 1]]
  /\ age = [d \in Docs |-> 0]
  /\ edits = 0
  /\ site \in Sites
  /\ stored = [d \in Docs |-> <<>>]
  /\ overtaken = [orphaned |-> {}, deleted |-> {}]
  /\ ran = [doc |-> [s \in Sessions |-> [d \in Docs |-> 0]],
            session |-> [s \in Sessions |-> 0]]
  /\ refills = [doc |-> 0, session |-> 0]

Stored(d) == row[d] # NoRow
Idle(c) == call[c] = NoCall
Under(d) == {c \in Clients : ~Idle(c) /\ call[c].doc = d}
Ends(c) == call' = [call EXCEPT ![c] = NoCall]
Goes(c, at) == call' = [call EXCEPT ![c].at = at]

-----------------------------------------------------------------------------
\* The store

\* COALESCE(MAX(revision_num), 0) over the rows of a document.
Highest(revs) == Max({0} \cup {r.num : r \in revs})

\* The revisions numbered within MaxRevisions of the highest number.
Pruned(revs) == {r \in revs : r.num + MaxRevisions > Highest(revs)}

\* captureRevision: the row about to be overwritten is the next revision.
CaptureRevision(d) ==
  LET next == [num |-> Highest(revisions[d]) + 1, answer |-> row[d].answer]
  IN IF Stored(d) THEN Pruned(revisions[d] \cup {next}) ELSE revisions[d]

\* Mutant: INSERT OR REPLACE, whose delete cascades to the revisions.
SaveReplaces(d, answer) ==
  /\ revisions' = [revisions EXCEPT ![d] = {}]
  /\ row' = [row EXCEPT ![d] = [answer |-> answer, status |-> "fresh"]]
  /\ stored' = [stored EXCEPT ![d] = Append(@, answer)]
  /\ age' = [age EXCEPT ![d] = 0]

\* Save: the revision is captured and every column of the row is written.
Save(d, answer) ==
  /\ revisions' = [revisions EXCEPT ![d] = CaptureRevision(d)]
  /\ row' = [row EXCEPT ![d] = [answer |-> answer, status |-> "fresh"]]
  /\ stored' = [stored EXCEPT ![d] = Append(@, answer)]
  /\ age' = [age EXCEPT ![d] = 0]

\* The executor answers.  Its claims reader may fail on the citations: they
\* then stay without a symbol.
Answers(reply) ==
  /\ runs < site.runs
  /\ \E reader \in {site.reader} \cup (IF site.reader = "up" THEN {"down"} ELSE {}) :
       answers' = Append(answers,
         [manifest |-> Resolve(Entries(reply), reader, claims, site.hashes),
          seen |-> claims, reply |-> reply])

\* livedocs evergreen save: the executor answers, then a new ID is saved.
SaveNew(d) ==
  /\ d \notin minted
  /\ Cardinality(minted) < site.docs
  /\ \E reply \in site.replies : Answers(reply)
  /\ minted' = minted \cup {d}
  /\ Save(d, runs + 1)
  /\ UNCHANGED <<call, overtaken, limits, code>>

\* The revision rows go with the document row (ON DELETE CASCADE).
Delete(d) ==
  /\ Stored(d)
  /\ row' = [row EXCEPT ![d] = NoRow]
  /\ revisions' = [revisions EXCEPT ![d] = {}]
  /\ stored' = [stored EXCEPT ![d] = <<>>]
  /\ overtaken' = [overtaken EXCEPT !.deleted = @ \cup Under(d)]
  /\ UNCHANGED <<minted, call, answers, age, limits, code>>

\* UpdateStatus, called by whoever runs the detector.
UpdateStatus(d, status) ==
  /\ Stored(d)
  /\ row' = [row EXCEPT ![d].status = status]
  /\ overtaken' = IF status = "orphaned"
                  THEN [overtaken EXCEPT !.orphaned = @ \cup Under(d)]
                  ELSE overtaken
  /\ UNCHANGED <<revisions, minted, stored, call, answers, age, limits, code>>

-----------------------------------------------------------------------------
\* evergreen_refresh

\* Mutant: the orphan guard is left to the caller.
LoadUnguarded(c, d, ack) ==
  /\ Idle(c)
  /\ Stored(d)
  /\ call' = [call EXCEPT ![c] =
                [at |-> "session", doc |-> d, ack |-> ack, answer |-> 0]]
  /\ overtaken' = [overtaken EXCEPT !.orphaned = @ \ {c}, !.deleted = @ \ {c}]
  /\ Cardinality({b \in Clients : ~Idle(b)}) < site.calls
  /\ UNCHANGED <<row, revisions, minted, stored, age, answers, limits, code>>

\* Mutant: a document that is not found is taken for a new one.
LoadOrNew(c, d, ack) ==
  /\ Idle(c)
  /\ row[d].status = "orphaned" => ack
  /\ call' = [call EXCEPT ![c] =
                [at |-> "session", doc |-> d, ack |-> ack, answer |-> 0]]
  /\ overtaken' = [overtaken EXCEPT !.orphaned = @ \ {c}, !.deleted = @ \ {c}]
  /\ Cardinality({b \in Clients : ~Idle(b)}) < site.calls
  /\ UNCHANGED <<row, revisions, minted, stored, age, answers, limits, code>>

\* The document is loaded and passes the orphan guard.
Load(c, d, ack) ==
  /\ Idle(c)
  /\ Stored(d)
  /\ row[d].status = "orphaned" => ack
  /\ call' = [call EXCEPT ![c] =
                [at |-> "session", doc |-> d, ack |-> ack, answer |-> 0]]
  /\ overtaken' = [overtaken EXCEPT !.orphaned = @ \ {c}, !.deleted = @ \ {c}]
  /\ Cardinality({b \in Clients : ~Idle(b)}) < site.calls
  /\ UNCHANGED <<row, revisions, minted, stored, age, answers, limits, code>>

\* The session bucket is asked first.
AllowSession(c) ==
  LET s == SessionOf[c]
  IN /\ call[c].at = "session"
     /\ \/ /\ sessionTokens[s] > 0
           /\ sessionTokens' = [sessionTokens EXCEPT ![s] = @ - 1]
           /\ Goes(c, "document")
        \/ /\ sessionTokens[s] = 0
           /\ Ends(c)
           /\ UNCHANGED sessionTokens
     /\ UNCHANGED <<store, docTokens, ran, refills, site, answers, code>>

\* Mutant: the bucket of the pair is shared with nobody: asked, never charged.
AllowDocumentFree(c) ==
  LET s == SessionOf[c]
      d == call[c].doc
  IN /\ call[c].at = "document"
     /\ docTokens[s][d] > 0
     /\ ran' = [ran EXCEPT !.doc[s][d] = @ + 1, !.session[s] = @ + 1]
     /\ Goes(c, "executor")
     /\ UNCHANGED <<store, docTokens, sessionTokens, refills, site, answers, code>>

\* Then the bucket of the session and document; the session's token is gone
\* either way.
AllowDocument(c) ==
  LET s == SessionOf[c]
      d == call[c].doc
  IN /\ call[c].at = "document"
     /\ \/ /\ docTokens[s][d] > 0
           /\ docTokens' = [docTokens EXCEPT ![s][d] = @ - 1]
           /\ ran' = [ran EXCEPT !.doc[s][d] = @ + 1, !.session[s] = @ + 1]
           /\ Goes(c, "executor")
        \/ /\ docTokens[s][d] = 0
           /\ Ends(c)
           /\ UNCHANGED <<docTokens, ran>>
     /\ UNCHANGED <<store, sessionTokens, refills, site, answers, code>>

Execute(c) ==
  /\ call[c].at = "executor"
  /\ \E reply \in site.replies : Answers(reply)
  /\ call' = [call EXCEPT ![c].at = "save", ![c].answer = runs + 1]
  /\ UNCHANGED <<store, limits, code>>

\* The executor fails: nothing is written.
ExecuteFails(c) ==
  /\ call[c].at = "executor"
  /\ Ends(c)
  /\ UNCHANGED <<store, limits, answers, code>>

\* The copy read at the start is saved with the new answer, fresh.
SaveRefreshed(c) ==
  /\ call[c].at = "save"
  /\ Save(call[c].doc, call[c].answer)
  /\ Ends(c)
  /\ UNCHANGED <<minted, overtaken, limits, answers, code>>

\* The save transaction fails and is rolled back.
SaveFails(c) ==
  /\ call[c].at = "save"
  /\ Ends(c)
  /\ UNCHANGED <<store, limits, answers, code>>

\* Time passes for the buckets of the pairs, or for those of the sessions.
RefillDocs ==
  /\ refills.doc < site.refills
  /\ refills' = [refills EXCEPT !.doc = @ + 1]
  /\ docTokens' = [s \in Sessions |-> [d \in Docs |->
                     IF docTokens[s][d] < DocBurst THEN docTokens[s][d] + 1
                     ELSE DocBurst]]
  /\ UNCHANGED <<store, call, answers, sessionTokens, ran, site, code>>

RefillSessions ==
  /\ refills.session < site.refills
  /\ refills' = [refills EXCEPT !.session = @ + 1]
  /\ sessionTokens' = [s \in Sessions |->
                         IF sessionTokens[s] < SessionBurst
                         THEN sessionTokens[s] + 1 ELSE SessionBurst]
  /\ UNCHANGED <<store, call, answers, docTokens, ran, site, code>>

\* An extraction changes the claims of a place: its symbol goes, another takes
\* its place, it moves to an empty one, or its hashes move.
Extract(p) ==
  /\ edits < site.edits
  /\ edits' = edits + 1
  /\ \/ claims' = [claims EXCEPT ![p] = NoSymbol]
     \/ claims' = [claims EXCEPT ![p] =
                     [id |-> Cardinality(Places) + edits + 1, sig |-> 1, body |-> 1]]
     \/ \E q \in Places : /\ claims[q] = NoSymbol
                         /\ claims' = [claims EXCEPT ![q] = claims[p], ![p] = NoSymbol]
     \/ /\ claims[p] # NoSymbol
        /\ \E sig, body \in 1 .. 2 :
             claims' = [claims EXCEPT ![p].sig = sig, ![p].body = body]
  /\ claims' # claims
  /\ UNCHANGED <<store, call, answers, limits>>

\* A day passes; ages beyond MaxAge are all alike.
Day ==
  /\ site.edits > 0
  /\ age' = [d \in Docs |-> IF Stored(d) /\ age[d] <= MaxAge THEN age[d] + 1 ELSE age[d]]
  /\ age' # age
  /\ UNCHANGED <<row, revisions, minted, stored, overtaken, call, answers, limits, code>>

Refresh(c) ==
  \/ \E d \in Docs, ack \in BOOLEAN : Load(c, d, ack)
  \/ AllowSession(c) \/ AllowDocument(c)
  \/ Execute(c) \/ ExecuteFails(c)
  \/ SaveRefreshed(c) \/ SaveFails(c)

Next ==
  \/ \E d \in Docs : SaveNew(d) \/ Delete(d)
  \/ \E d \in Docs, status \in Statuses : UpdateStatus(d, status)
  \/ \E c \in Clients : Refresh(c)
  \/ RefillDocs
  \/ RefillSessions
  \/ \E p \in Places : Extract(p)
  \/ Day

Spec == Init /\ [][Next]_vars

-----------------------------------------------------------------------------
\* Properties

\* No answer a document had is lost before it is MaxRevisions answers old:
\* the row has the last answer stored and the revisions the ones before it,
\* in order and numbered from the insert on, whatever refreshes, deletions
\* and failures interleave (sqlite_store.go:156-217, 222-279).
HistoryKept ==
  \A d \in Docs :
    LET n == Len(stored[d])
        kept == {k \in 1 .. n - 1 : k + MaxRevisions > n - 1}
    IN IF n = 0 THEN ~Stored(d) /\ revisions[d] = {}
       ELSE /\ row[d].answer = stored[d][n]
            /\ revisions[d] = {[num |-> k, answer |-> stored[d][k]] : k \in kept}

\* What a human or another process did to a document is undone only by a refresh
\* that had read the document before: an orphaned document is answered anew only
\* when a human acknowledged it, and a deleted one does not come back
\* (mcptools.go:207-214, 241-243).
LateOnly ==
  [][\A c \in Clients : SaveRefreshed(c) =>
       /\ row[call[c].doc].status = "orphaned" => call[c].ack \/ c \in overtaken.orphaned
       /\ ~Stored(call[c].doc) => c \in overtaken.deleted]_vars

\* The executor is run no more often than the two buckets allow, concurrent
\* calls and failed runs included (ratelimiter.go:129-142).
Quota ==
  \A s \in Sessions :
    /\ \A d \in Docs : ran.doc[s][d] <= DocBurst + refills.doc
    /\ ran.session[s] <= SessionBurst + refills.session

\* What evergreen_status reports of a document.
Status(d, reader) ==
  LET answer == answers[row[d].answer]
  IN Detect(answer.manifest, reader, claims, age[d], MaxAge)

\* The findings tell what happened to the cited symbols since the answer was
\* resolved, however the claims moved before, while or after it was saved: a
\* symbol that is gone is orphaned whatever is at its place now, one whose
\* recorded signature moved is hot, one whose body alone moved is warm and one
\* that did not move is not reported; orphans come first
\* (detector.go:22-35, 127-207).
DriftJudged ==
  \A d \in Docs : Stored(d) /\ site.reader = "up" =>
    LET answer == answers[row[d].answer]
        status == Status(d, "up")
        Severities(i) == {f[1] : f \in {g \in ToSet(status.findings) : g[3] = i}}
        Symbol(i) == answer.manifest[i].was.id
        Then(i) == SymbolOf(answer.seen, Symbol(i))
        Now(i) == SymbolOf(claims, Symbol(i))
    IN /\ ~status.failed
       /\ \A i \in DOMAIN answer.manifest :
            ~answer.manifest[i].fuzzy /\ Symbol(i) # 0 =>
              Severities(i) =
                IF Now(i) = NoSymbol THEN {"orphaned"}
                ELSE IF ~site.hashes \/ Now(i) = Then(i) THEN {}
                ELSE IF Now(i).sig # Then(i).sig THEN {"hot"} ELSE {"warm"}
       /\ \A j, k \in DOMAIN status.findings :
            j < k /\ status.findings[k][1] = "orphaned" =>
              status.findings[j][1] = "orphaned"

\* A document says what it depends on as long as anything it was answered with
\* names it, and nothing else: an empty manifest would hide all drift
\* (deepsearch_mcp.go:146-151).
CitationsKept ==
  \A n \in 1 .. runs :
    LET reply == answers[n].reply
        manifest == answers[n].manifest
        read == reply.link /\ reply.read
        named == reply.prose \cup (IF read THEN reply.markdown \cup ToSet(reply.sources)
                                   ELSE {})
    IN /\ manifest = <<>> =>
            /\ reply.prose = {}
            /\ read => reply.markdown = {} /\ ToSet(reply.sources) \subseteq {"malformed"}
       /\ \A i \in DOMAIN manifest : manifest[i].place \in named \ {"malformed"}

\* Drift shows: the citations are kept and judged for what they were.
DriftSeen == CitationsKept /\ DriftJudged
=============================================================================
