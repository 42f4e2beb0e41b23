---------------------------- MODULE TribalFacts -----------------------------
(***************************************************************************)
(* The life of a tribal fact in one claims database: db/tribal.go and      *)
(* db/tribal_upsert.go, the commands that correct, supersede and delete    *)
(* facts (cmd/livedocs/tribal_cmd.go), the extraction that runs the        *)
(* deterministic extractors (cmd/livedocs/extract_cmd.go), the tools that  *)
(* propose, report and serve facts (mcpserver/tribal_*.go), and the passes *)
(* that look for drift (drift/tribal.go, with its liveness cache) and      *)
(* verify again (drift/tribal_reverify.go).                                *)
(*                                                                         *)
(* A command or tool call is a few transactions; others run between them,  *)
(* and it may stop after any of them.  A fact's ID is its place in facts.  *)
(* Cluster is what normalize.ScrubAndHash and the kind make of a body:     *)
(* texts that differ in wording only share one.  A hash is the text or the *)
(* comment it was computed from.                                           *)
(*                                                                         *)
(* History variables (not in the code): unrecorded, turned, rejections.    *)
(***************************************************************************)
EXTENDS TribalExtractors

CONSTANTS
  Procs,         \* commands, tool calls and passes running at a time
  Texts,         \* fact bodies
  Cluster,       \* cluster keys of the bodies that normalisation touches
  Subjects,      \* symbols facts are attached to
  Inside,        \* [Subjects -> files in the directory of the symbol's package]
  Refs,          \* review comments
  Reasons,       \* reasons facts are reported for: among Labels
  Changes,       \* what is done to facts: among Corrections
  Signed,        \* whether proposals are signed: among BOOLEAN
  Passes,        \* passes that run: among "drift" and "reverify"
  MaxEntries,    \* livenessCacheMaxEntries
  ProbeBudget,   \* LivenessCache.Budget
  SampleSize,    \* ReverifyOptions.SampleSize
  VerifyBudget,  \* ReverifyOptions.Budget
  MaxFacts,      \* bound: rows of tribal_facts
  MaxOps         \* bound: operations started

\* What may be recorded about a fact: corrections, and reports of its users.
Corrections == {"correct", "delete", "supersede"}
Labels == Corrections \cup {"wrong", "stale", "misleading", "offensive"}

ASSUME FactsAssumption ==
  /\ MaxEntries \in Nat \ {0}
  /\ ProbeBudget \in Nat \ {0}
  /\ SampleSize \in Nat \ {0}
  /\ VerifyBudget \in Nat \ {0}
  /\ MaxFacts \in Nat
  /\ MaxOps \in Nat
  /\ Reasons \subseteq Labels
  /\ Changes \subseteq Corrections
  /\ Signed \subseteq BOOLEAN /\ Passes \subseteq {"drift", "reverify"}
  /\ IsFiniteSet(Texts) /\ IsFiniteSet(Subjects) /\ IsFiniteSet(Refs)

VARIABLES
  facts,       \* tribal_facts with their evidence rows, by ID
  labels,      \* corrections and feedback of a fact, by action and reason
  op,          \* what each process is doing, with its locals
  ops,         \* operations started
  upstream,    \* what the review host has for a comment now
  cache,       \* LivenessCache: entries in order of use, the latest first
  probes,      \* LivenessCache.calls
  unrecorded,  \* facts an operation retired and then stopped
  turned,      \* comments that were edited or removed at some time
  rejections   \* facts a verifier rejected

vars == <<facts, labels, op, ops, upstream, cache, probes,
          unrecorded, turned, rejections>>
world == <<upstream, cache, probes, turned>>

Statuses == {"active", "stale", "quarantined", "superseded", "deleted"}
Withdrawals == {"superseded", "deleted"}

Ids == 1 .. Len(facts)
Idle == [kind |-> "idle"]
Is(p, kinds, at) == op[p].kind \in kinds /\ op[p].at = at

\* The process goes on to another step of its operation, or is done with it.
Goes(p, at) == op' = [op EXCEPT ![p].at = at]
Ends(p) == op' = [op EXCEPT ![p] = Idle]

Init ==
  /\ facts = <<>>
  /\ labels = [f \in 1 .. MaxFacts |-> [l \in Labels |-> 0]]
  /\ op = [p \in Procs |-> Idle]
  /\ ops = 0
  /\ upstream = [r \in Refs |-> "same"]
  /\ cache = <<>>
  /\ probes = 0
  /\ unrecorded = {}
  /\ turned = {}
  /\ rejections = {}

Starts(p, o) ==
  /\ op[p] = Idle
  /\ ops < MaxOps
  /\ ops' = ops + 1
  /\ op' = [op EXCEPT ![p] = o]

-----------------------------------------------------------------------------
\* The store

\* ScrubAndHash: a body without its mentions, line references, final punctuation
\* and case.  The lines an author owns keep their figures.
ScrubAndHash(text) == IF text \in DOMAIN Cluster THEN Cluster[text] ELSE text

\* The fact UpsertTribalFact merges into: same subject, kind and cluster.
Twin(subject, text) ==
  {f \in Ids : /\ facts[f].subject = subject
               /\ ScrubAndHash(facts[f].text) = ScrubAndHash(text)}

\* Mutant: a merge takes over the status of the fact that was written.
MergeActivates(f, new) ==
  LET rows == {e \in new.ev : e.ref \notin {d.ref : d \in facts[f].ev}}
  IN facts' = [facts EXCEPT
                 ![f].ev = @ \cup rows,
                 ![f].corr = IF rows = {} THEN @ ELSE @ + 1,
                 ![f].aged = IF rows = {} THEN @ ELSE FALSE,
                 ![f].status = new.status]

\* Mutant: a merge counts whether or not it brought evidence.
MergeCounts(f, new) ==
  LET rows == {e \in new.ev : e.ref \notin {d.ref : d \in facts[f].ev}}
  IN facts' = [facts EXCEPT ![f].ev = @ \cup rows,
                            ![f].corr = @ + 1,
                            ![f].aged = FALSE]

\* Mutant: a merge rewrites the body with the newest wording.
MergeRewrites(f, new) ==
  LET rows == {e \in new.ev : e.ref \notin {d.ref : d \in facts[f].ev}}
  IN facts' = [facts EXCEPT
                 ![f].ev = @ \cup rows,
                 ![f].text = new.text,
                 ![f].corr = IF rows = {} THEN @ ELSE @ + 1,
                 ![f].aged = IF rows = {} THEN @ ELSE FALSE]

\* The evidence the fact does not have yet is added; if there is any, the fact is
\* corroborated once and verified anew.  Nothing else of the row changes.
Merge(f, new) ==
  LET rows == {e \in new.ev : e.ref \notin {d.ref : d \in facts[f].ev}}
  IN facts' = [facts EXCEPT
                 ![f].ev = @ \cup rows,
                 ![f].corr = IF rows = {} THEN @ ELSE @ + 1,
                 ![f].aged = IF rows = {} THEN @ ELSE FALSE]

\* Mutant: the cluster is not looked up.
UpsertInserts(new) ==
  /\ Len(facts) < MaxFacts
  /\ facts' = Append(facts, new)

\* UpsertTribalFact, one transaction: the first fact of the cluster takes the
\* evidence, or the fact is inserted.
Upsert(new) ==
  \/ \E f \in Twin(new.subject, new.text) :
       /\ \A g \in Twin(new.subject, new.text) : f <= g
       /\ Merge(f, new)
  \/ /\ Twin(new.subject, new.text) = {}
     /\ Len(facts) < MaxFacts
     /\ facts' = Append(facts, new)

\* UpdateFactStatus: by ID, whatever the status is by now.
SetStatus(f, status) == facts' = [facts EXCEPT ![f].status = status]

\* InsertTribalCorrection and InsertTribalFeedback: one more row.
Label(f, l) == labels' = [labels EXCEPT ![f][l] = @ + 1]

Fact(subject, text, status, llm, corr, hash, ev) ==
  [subject |-> subject, text |-> text, status |-> status, llm |-> llm,
   corr |-> corr, hash |-> hash, ev |-> ev, aged |-> FALSE, downs |-> 0]

-----------------------------------------------------------------------------
\* Mining, and proposals that create

\* A comment was classified: its fact goes in, attached to the file.
Mine(subject, text, ref) ==
  /\ ops < MaxOps
  /\ ops' = ops + 1
  /\ Upsert(Fact(subject, text, "active", TRUE, 1, ref,
                 {Row(ref, "pr_comment", ref)}))
  /\ UNCHANGED <<labels, op, world, unrecorded, rejections>>

\* runTribalExtraction stores what it found fact by fact, in a database that may
\* have been mined before; one that is refused is left out.
Extract(found) ==
  /\ ops < MaxOps
  /\ ops' = ops + 1
  /\ Upsert(Fact(found.subject, found.text, "active", FALSE, 1, found.hash, found.ev))
  /\ UNCHANGED <<labels, op, world, unrecorded, rejections>>

\* The fact tribal_propose_fact writes.  The hash of the evidence is whatever the
\* proposer states; the staleness hash is that of the body.
Proposed(subject, text, signed, ref, hash) ==
  Fact(subject, text, IF signed THEN "active" ELSE "quarantined", FALSE, 1,
       text, {Row(ref, "runbook", hash)})

Propose(subject, text, signed, ref, hash) ==
  /\ ops < MaxOps
  /\ ops' = ops + 1
  /\ Upsert(Proposed(subject, text, signed, ref, hash))
  /\ UNCHANGED <<labels, op, world, unrecorded, rejections>>

-----------------------------------------------------------------------------
\* Corrections: the commands, and proposals that correct or supersede

\* createReplacementFact: text in place of the original, as corroborated as it was.
Replacement(f, text, action) ==
  LET original == facts[f]
  IN Fact(original.subject, text, "active", FALSE, original.corr, text,
          {Row(<<action, f>>, "correction", text)})

\* What the last step of an operation is to insert is settled when it begins.
Change(action, f, new) ==
  [kind |-> action, at |-> IF action = "correct" THEN "record" ELSE "mark",
   fact |-> f, new |-> new]

\* livedocs tribal correct and supersede read the fact, whatever its status.
Command(p, action, f, text) ==
  /\ Starts(p, Change(action, f, Replacement(f, text, action)))
  /\ UNCHANGED <<facts, labels, world, unrecorded, rejections>>

\* tribal_propose_fact with a fact_id, signed or not.
ProposeChange(p, action, f, subject, text, signed, ref, hash) ==
  /\ Starts(p, Change(action, f, Proposed(subject, text, signed, ref, hash)))
  /\ UNCHANGED <<facts, labels, world, unrecorded, rejections>>

\* livedocs tribal delete: nothing is to replace the fact.
Delete(p, f) ==
  /\ Starts(p, Change("delete", f, Idle))
  /\ UNCHANGED <<facts, labels, world, unrecorded, rejections>>

\* First the status, so that the fact is served no more.
Mark(p) ==
  /\ Is(p, {"supersede", "delete"}, "mark")
  /\ SetStatus(op[p].fact,
               IF op[p].kind = "delete" THEN "deleted" ELSE "superseded")
  /\ Goes(p, "record")
  /\ UNCHANGED <<labels, ops, world, unrecorded, rejections>>

\* Mutant: the correction row is left out when the fact is replaced.
RecordDeletes(p) ==
  /\ Is(p, Corrections, "record")
  /\ IF op[p].kind = "delete"
     THEN Label(op[p].fact, "delete") ELSE UNCHANGED labels
  /\ IF op[p].kind = "delete" THEN Ends(p) ELSE Goes(p, "replace")
  /\ UNCHANGED <<facts, ops, world, unrecorded, rejections>>

\* Then the correction row; a deletion is done with it.
Record(p) ==
  /\ Is(p, Corrections, "record")
  /\ Label(op[p].fact, op[p].kind)
  /\ IF op[p].kind = "delete" THEN Ends(p) ELSE Goes(p, "replace")
  /\ UNCHANGED <<facts, ops, world, unrecorded, rejections>>

\* Last the replacement, which may merge into any fact of its cluster.
Replace(p) ==
  /\ Is(p, Corrections, "replace")
  /\ Upsert(op[p].new)
  /\ Ends(p)
  /\ UNCHANGED <<labels, ops, world, unrecorded, rejections>>

\* tribal_report_fact: a feedback row for a fact that exists.
Report(f, reason) ==
  /\ ops < MaxOps
  /\ ops' = ops + 1
  /\ Label(f, reason)
  /\ UNCHANGED <<facts, op, world, unrecorded, rejections>>

-----------------------------------------------------------------------------
\* Drift: evidence hashes, then the comments themselves

\* A row was computed from something else than the fact.
EvidenceHashChanged(fact) == \E e \in fact.ev : e.hash # fact.hash
Comments(fact) == {e.ref : e \in {d \in fact.ev : d.type = "pr_comment"}}

\* The active facts with their evidence; those already stale stay as they are, and
\* the rest is not asked for.
CheckTribal(p) ==
  LET active == {f \in Ids : facts[f].status = "active"}
      Check(f) == [fact |-> f, changed |-> EvidenceHashChanged(facts[f]),
                   refs |-> Comments(facts[f])]
  IN \E order \in [1 .. Cardinality(active) -> active] :
       /\ active # {}
       /\ \A i, j \in DOMAIN order : i < j => order[i] < order[j]
       /\ Starts(p, [kind |-> "drift", at |-> "check", ref |-> Idle,
                     todo |-> [i \in 1 .. Cardinality(active) |-> Check(order[i])]])
       /\ UNCHANGED <<facts, labels, world, unrecorded, rejections>>

Job(p) == Head(op[p].todo)
\* On to the next fact of the pass.
Next1(p) ==
  IF Len(op[p].todo) = 1 THEN Ends(p)
  ELSE op' = [op EXCEPT ![p].todo = Tail(@), ![p].at = "check"]
Stale(p) == SetStatus(Job(p).fact, "stale") /\ Next1(p)
\* A probe that found the comment as it was, or found out nothing.
Sound(p) == op' = [op EXCEPT ![p].todo[1].refs = @ \ {op[p].ref},
                             ![p].at = "check"]

\* The status is written by ID: by now it may be another one.
CheckEvidence(p) ==
  /\ Is(p, {"drift"}, "check")
  /\ Job(p).changed
  /\ Stale(p)
  /\ UNCHANGED <<labels, ops, world, unrecorded, rejections>>

CheckDone(p) ==
  /\ Is(p, {"drift"}, "check")
  /\ ~Job(p).changed /\ Job(p).refs = {}
  /\ Next1(p)
  /\ UNCHANGED <<facts, labels, ops, world, unrecorded, rejections>>

Cached(ref) == {i \in 1 .. Len(cache) : cache[i].ref = ref}
Fresh(ref) == \E i \in Cached(ref) : cache[i].fresh
Without(ref) ==
  IF Cached(ref) = {} THEN cache
  ELSE RemoveAt(cache, CHOOSE i \in Cached(ref) : TRUE)

\* put: to the front; a new entry drops the last one of a full cache.
Put(entry) ==
  cache' = IF Cached(entry.ref) = {} /\ Len(cache) >= MaxEntries
           THEN <<entry>> \o Front(cache)
           ELSE <<entry>> \o Without(entry.ref)

\* What the answer means for the fact.
Judge(p, state) ==
  IF state = "same" THEN Sound(p) /\ UNCHANGED facts ELSE Stale(p)

\* A fresh entry answers, and moves to the front.
ProbeCached(p, ref) ==
  /\ Is(p, {"drift"}, "check")
  /\ ~Job(p).changed /\ ref \in Job(p).refs
  /\ \E i \in Cached(ref) :
       /\ cache[i].fresh
       /\ cache' = <<cache[i]>> \o Without(ref)
       /\ IF cache[i].state = "same"
          THEN /\ op' = [op EXCEPT ![p].todo[1].refs = @ \ {ref}]
               /\ UNCHANGED facts
          ELSE Stale(p)
  /\ UNCHANGED <<labels, ops, upstream, probes, turned, unrecorded, rejections>>

\* Mutant: without quota the comment counts as gone.
ProbeExhaustedClosed(p, ref) ==
  /\ Is(p, {"drift"}, "check")
  /\ ~Job(p).changed /\ ref \in Job(p).refs
  /\ ~Fresh(ref) /\ probes >= ProbeBudget
  /\ cache' = Without(ref)
  /\ Stale(p)
  /\ UNCHANGED <<labels, ops, upstream, probes, turned, unrecorded, rejections>>

\* The budget is spent: the comment counts as live.
ProbeExhausted(p, ref) ==
  /\ Is(p, {"drift"}, "check")
  /\ ~Job(p).changed /\ ref \in Job(p).refs
  /\ ~Fresh(ref) /\ probes >= ProbeBudget
  /\ cache' = Without(ref)
  /\ op' = [op EXCEPT ![p].todo[1].refs = @ \ {ref}]
  /\ UNCHANGED <<facts, labels, ops, upstream, probes, turned, unrecorded,
                 rejections>>

\* An expired entry is dropped, the call is counted, the host is asked.
ProbeCalls(p, ref) ==
  /\ Is(p, {"drift"}, "check")
  /\ ~Job(p).changed /\ ref \in Job(p).refs
  /\ ~Fresh(ref) /\ probes < ProbeBudget
  /\ cache' = Without(ref)
  /\ probes' = probes + 1
  /\ op' = [op EXCEPT ![p].at = "probing", ![p].ref = ref]
  /\ UNCHANGED <<facts, labels, ops, upstream, turned, unrecorded, rejections>>

\* The answer is cached and judged.
ProbeAnswered(p) ==
  /\ Is(p, {"drift"}, "probing")
  /\ Put([ref |-> op[p].ref, state |-> upstream[op[p].ref], fresh |-> TRUE])
  /\ Judge(p, upstream[op[p].ref])
  /\ UNCHANGED <<labels, ops, upstream, probes, turned, unrecorded, rejections>>

\* A transport error is not cached and says nothing.
ProbeFails(p) ==
  /\ Is(p, {"drift"}, "probing")
  /\ Sound(p)
  /\ UNCHANGED <<facts, labels, ops, world, unrecorded, rejections>>

-----------------------------------------------------------------------------
\* Verification again

\* GetActiveLLMFactsOlderThan.
Eligible == {f \in Ids : /\ facts[f].status = "active"
                         /\ facts[f].llm /\ facts[f].aged}

\* The oldest are sampled; those of one age come in any order.
ReverifyTribal(p) ==
  \E sample \in SUBSET Eligible :
    /\ sample # {}
    /\ Cardinality(sample) = Cardinality(Eligible)
         \/ Cardinality(sample) = SampleSize
    /\ Cardinality(sample) <= SampleSize
    /\ Starts(p, [kind |-> "reverify", at |-> "verify", calls |-> 0,
                  todo |-> sample, downs |-> [f \in sample |-> facts[f].downs]])
    /\ UNCHANGED <<facts, labels, world, unrecorded, rejections>>

\* The verdict is applied by ID; a downgrade multiplies the confidence it read.
Verify(p, f, verdict) ==
  /\ Is(p, {"reverify"}, "verify")
  /\ f \in op[p].todo
  /\ op[p].calls < VerifyBudget
  /\ facts' = CASE verdict = "accept" -> [facts EXCEPT ![f].aged = FALSE]
                [] verdict = "downgrade" ->
                     [facts EXCEPT ![f].downs = op[p].downs[f] + 1]
                [] verdict = "reject" -> [facts EXCEPT ![f].status = "stale"]
  /\ rejections' = IF verdict = "reject" THEN rejections \cup {f}
                   ELSE rejections
  /\ IF op[p].todo = {f} THEN Ends(p)
     ELSE op' = [op EXCEPT ![p].todo = @ \ {f}, ![p].calls = @ + 1]
  /\ UNCHANGED <<labels, ops, world, unrecorded>>

VerifyExhausted(p) ==
  /\ Is(p, {"reverify"}, "verify")
  /\ op[p].calls >= VerifyBudget
  /\ Ends(p)
  /\ UNCHANGED <<facts, labels, ops, world, unrecorded, rejections>>

-----------------------------------------------------------------------------
\* What happens around the operations

\* An error or a crash ends an operation after any of its steps.
Abandon(p) ==
  /\ op[p] # Idle
  /\ Ends(p)
  /\ unrecorded' = IF Is(p, {"supersede", "delete"}, "record")
                   THEN unrecorded \cup {op[p].fact} ELSE unrecorded
  /\ UNCHANGED <<facts, labels, ops, world, rejections>>

\* Upstream, a comment is edited or removed.
Turn(ref) ==
  /\ "drift" \in Passes
  /\ upstream[ref] = "same"
  /\ \E state \in {"edited", "gone"} : upstream' = [upstream EXCEPT ![ref] = state]
  /\ turned' = turned \cup {ref}
  /\ UNCHANGED <<facts, labels, op, ops, cache, probes, unrecorded, rejections>>

\* A day and MaxAge go by.
TimePasses ==
  /\ Passes # {}
  /\ facts' = [f \in Ids |-> [facts[f] EXCEPT !.aged = TRUE]]
  /\ cache' = [i \in 1 .. Len(cache) |-> [cache[i] EXCEPT !.fresh = FALSE]]
  /\ UNCHANGED <<labels, op, ops, upstream, probes, turned, unrecorded,
                 rejections>>

Store ==
  \/ \E subject \in Subjects, text \in Texts, ref \in Refs :
       \/ Mine(subject, text, ref)
       \/ \E signed \in Signed, hash \in {text, ref} :
            Propose(subject, text, signed, ref, hash)
  \/ \E found \in Extracted : Extract(found)
  \/ \E f \in Ids, reason \in Reasons : Report(f, reason)

Correct(p) ==
  \/ \E f \in Ids :
       \/ "delete" \in Changes /\ Delete(p, f)
       \/ \E action \in Changes \ {"delete"}, text \in Texts :
            \/ Command(p, action, f, text)
            \/ \E subject \in Subjects, signed \in Signed, ref \in Refs :
                 ProposeChange(p, action, f, subject, text, signed, ref, text)
  \/ Mark(p) \/ Record(p) \/ Replace(p)

Drift(p) ==
  \/ "drift" \in Passes /\ CheckTribal(p)
  \/ CheckEvidence(p) \/ CheckDone(p)
  \/ \E ref \in Refs : \/ ProbeCached(p, ref) \/ ProbeExhausted(p, ref)
                      \/ ProbeCalls(p, ref)
  \/ ProbeAnswered(p) \/ ProbeFails(p)

Reverify(p) ==
  \/ "reverify" \in Passes /\ ReverifyTribal(p)
  \/ VerifyExhausted(p)
  \/ \E f \in Ids, verdict \in {"accept", "downgrade", "reject"} :
       Verify(p, f, verdict)

Next ==
  \/ Store
  \/ \E p \in Procs : Correct(p) \/ Drift(p) \/ Reverify(p) \/ Abandon(p)
  \/ \E ref \in Refs : Turn(ref)
  \/ TimePasses

Spec == Init /\ [][Next]_vars

-----------------------------------------------------------------------------
\* What the tools answer

\* appendFilteredFact: gated unless the caller gave a confidence of its own.
Servable(f, gated) ==
  /\ facts[f].status = "active"
  /\ gated /\ facts[f].llm => facts[f].corr >= 2

\* queryTribalFactsForSymbol: the facts of the symbol; when it has none at all, not
\* even one that is filtered out, those of the files around it.
Raw(subject) ==
  LET own == {f \in Ids : facts[f].subject = subject}
  IN IF own # {} THEN own
     ELSE {f \in Ids : facts[f].subject \in Inside[subject]}
Served(subject, gated) == {f \in Raw(subject) : Servable(f, gated)}

\* GetS4GateStats: the correction rows of some labels, numbered, and their number.
Labelled == {f \in Ids : \E l \in Labels : labels[f][l] > 0}
RowsOf(kinds) ==
  UNION {{x} \X (1 .. labels[x[1]][x[2]]) : x \in Ids \X kinds}
Total(kinds) == Cardinality(RowsOf(kinds))
Hallucinations == Total({"wrong", "delete", "supersede"})

\* Mutant: superseded facts are left out of the rate.
RateDeletes ==
  IF Total({"wrong", "delete"}) < Cardinality(Labelled)
  THEN Total({"wrong", "delete"}) ELSE Cardinality(Labelled)

\* The hallucination rate is HallucinationRate / Cardinality(Labelled), capped at 1.
HallucinationRate ==
  IF Hallucinations < Cardinality(Labelled)
  THEN Hallucinations ELSE Cardinality(Labelled)

-----------------------------------------------------------------------------
\* Properties

TypeOK ==
  /\ Len(facts) <= MaxFacts
  /\ \A f \in Ids :
       /\ facts[f].subject \in Subjects \cup {found.subject : found \in Extracted}
       /\ facts[f].text \in Texts \cup {found.text : found \in Extracted}
       /\ facts[f].status \in Statuses
       /\ facts[f].llm \in BOOLEAN /\ facts[f].aged \in BOOLEAN
       /\ facts[f].corr \in Nat \ {0} /\ facts[f].downs \in Nat
       /\ facts[f].ev # {}
  /\ \A p \in Procs : op[p].kind \in Corrections \cup {"idle", "drift", "reverify"}
  /\ ops \in 0 .. MaxOps
  /\ probes \in 0 .. ProbeBudget
  /\ upstream \in [Refs -> {"same", "edited", "gone"}]
  /\ unrecorded \subseteq Ids /\ rejections \subseteq Ids
  /\ turned = {r \in Refs : upstream[r] # "same"}

\* A symbol has one fact of a cluster, however mining, proposals and replacements
\* interleave: what says the same thing again corroborates it.  UpsertTribalFact.
OnePerCluster ==
  \A f, g \in Ids :
    /\ facts[f].subject = facts[g].subject
    /\ ScrubAndHash(facts[f].text) = ScrubAndHash(facts[g].text)
    => f = g

\* What a model wrote passes the gate only after a second source said it too: its
\* evidence has two references.  appendFilteredFact, mergeEvidence.
GateEarned ==
  \A subject \in Subjects : \A f \in Served(subject, TRUE) :
    facts[f].llm => Cardinality({e.ref : e \in facts[f].ev}) >= 2

\* Whatever withdrew a fact left its correction row, unless it stopped between its
\* two steps.  tribal supersede and delete, tribal_propose_fact.
RetiredRecorded ==
  \A f \in Ids :
    facts[f].status \in Withdrawals =>
      \/ \E l \in {"supersede", "delete"} : labels[f][l] > 0
      \/ f \in unrecorded
      \/ \E p \in Procs : Is(p, {"supersede", "delete"}, "record")
                         /\ op[p].fact = f

\* The hallucination rate never understates: every fact reported wrong or withdrawn
\* on record counts, beside the facts with other labels.  GetS4GateStats.
RateHonest ==
  Cardinality({f \in Ids : \E l \in {"wrong", "supersede", "delete"} :
                 labels[f][l] > 0}) <= HallucinationRate

\* No withdrawal is lost to the statistics.
WithdrawnCounted == RetiredRecorded /\ RateHonest

\* A fact keeps the wording, the hash, the source and the evidence it was written
\* with, and its corroboration rises by one, with evidence it did not have.  One that
\* left service never comes back by itself: not by new evidence, not by a late pass.
FactsEndure ==
  [][\A f \in Ids :
       LET old == facts[f]
           new == facts'[f]
       IN /\ new.text = old.text /\ new.hash = old.hash
          /\ new.llm = old.llm /\ new.subject = old.subject
          /\ old.ev \subseteq new.ev
          /\ \/ new.corr = old.corr /\ new.ev = old.ev
             \/ /\ new.corr = old.corr + 1
                /\ \E e \in new.ev : \A d \in old.ev : d.ref # e.ref
          /\ old.status # "active" => new.status # "active"]_vars

\* A fact goes stale only for a reason: its evidence was computed from something
\* else, one of its comments was edited or removed, or a verifier rejected it.  Lost
\* answers and a spent budget are no reason.  CheckSourceRefLive fails open.
StaleForReason ==
  [][\A f \in Ids :
       facts[f].status # "stale" /\ facts'[f].status = "stale" =>
         \/ EvidenceHashChanged(facts[f])
         \/ Comments(facts[f]) \cap turned # {}
         \/ f \in rejections']_vars
=============================================================================
