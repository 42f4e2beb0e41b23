------------------------- MODULE TribalFactsProofs --------------------------
(***************************************************************************)
(* Proofs about TribalFacts, for any texts, symbols, comments and          *)
(* findings, any number of processes, facts and operations, every cache    *)
(* size and every budget.                                                  *)
(***************************************************************************)
EXTENDS TribalFacts, FiniteSetTheorems, SequenceTheorems, TLAPS

-----------------------------------------------------------------------------
(* Lists, most recently used first *)

\* A part of a list.
LEMMA Part ==
  ASSUME NEW E, NEW s \in Seq(E), NEW m \in Nat, NEW n \in Nat,
         0 < m, m <= n + 1, n <= Len(s),
         NEW k, k = n - m + 1, NEW p, p = SubSeq(s, m, n)
  PROVE  p \in Seq(E) /\ Len(p) = k /\ \A j \in 1 .. k : p[j] = s[m + j - 1]
<1>1. \A j \in m .. n : s[j] \in E
  OBVIOUS
<1> QED BY <1>1, SubSeqProperties

\* A list without its i-th entry.
LEMMA RemovedAt ==
  ASSUME NEW E, NEW s \in Seq(E), NEW i \in 1 .. Len(s)
  PROVE  /\ RemoveAt(s, i) \in Seq(E)
         /\ Len(RemoveAt(s, i)) = Len(s) - 1
         /\ \A j \in 1 .. Len(s) - 1 :
              RemoveAt(s, i)[j] = IF j < i THEN s[j] ELSE s[j + 1]
<1> DEFINE l == SubSeq(s, 1, i - 1)
           r == SubSeq(s, i + 1, Len(s))
<1>1. RemoveAt(s, i) = l \o r
  BY DEF RemoveAt
<1> HIDE DEF l, r
<1>2. l \in Seq(E) /\ Len(l) = i - 1 /\ \A j \in 1 .. i - 1 : l[j] = s[j]
  BY Part DEF l
<1>3. r \in Seq(E) /\ Len(r) = Len(s) - i /\ \A j \in 1 .. Len(s) - i : r[j] = s[i + j]
  BY Part DEF r
<1>4. l \o r \in Seq(E) /\ Len(l \o r) = Len(l) + Len(r)
  BY <1>2, <1>3, ConcatProperties
<1>5. ASSUME NEW j \in 1 .. Len(s) - 1
      PROVE  (l \o r)[j] = IF j < i THEN s[j] ELSE s[j + 1]
  <2>0. l \in Seq(E) /\ r \in Seq(E) /\ j \in 1 .. Len(l) + Len(r)
    BY <1>2, <1>3
  <2>1. (l \o r)[j] = IF j <= Len(l) THEN l[j] ELSE r[j - Len(l)]
    BY <2>0, ConcatProperties
  <2>2. CASE j < i
    <3>1. j \in 1 .. i - 1 /\ j <= i - 1
      BY <2>2
    <3> QED BY <1>2, <2>1, <2>2, <3>1
  <2>3. CASE ~(j < i)
    <3> DEFINE k == j - (i - 1)
    <3>1. Len(s) \in Nat /\ i \in Nat /\ j \in Nat
      OBVIOUS
    <3>2. k \in 1 .. Len(s) - i /\ i + k = j + 1 /\ ~(j <= i - 1)
      BY <2>3, <3>1
    <3> HIDE DEF k
    <3>3. (l \o r)[j] = r[k] /\ r[k] = s[i + k]
      BY <1>2, <1>3, <2>1, <3>2 DEF k
    <3> QED BY <2>3, <3>2, <3>3
  <2> QED BY <2>2, <2>3
<1> QED BY <1>1, <1>2, <1>3, <1>4, <1>5

\* A list without its last entry.
LEMMA FrontOf ==
  ASSUME NEW E, NEW s \in Seq(E), Len(s) > 0
  PROVE  /\ Front(s) \in Seq(E)
         /\ Len(Front(s)) = Len(s) - 1
         /\ \A j \in 1 .. Len(s) - 1 : Front(s)[j] = s[j]
         /\ Last(s) = s[Len(s)]
         /\ Last(s) \in E
<1>1. \E n \in Nat : Len(s) = n + 1
  <2>1. Len(s) \in Nat /\ Len(s) - 1 \in Nat /\ Len(s) = (Len(s) - 1) + 1
    OBVIOUS
  <2> QED BY <2>1
<1> PICK n \in Nat : Len(s) = n + 1
  BY <1>1
<1> DEFINE p == SubSeq(s, 1, n)
<1>2. Len(s) - 1 = n
  OBVIOUS
<1>3. Front(s) = p /\ Last(s) = s[Len(s)]
  BY <1>2 DEF Front, Last
<1> HIDE DEF p
<1>4. p \in Seq(E) /\ Len(p) = n /\ \A j \in 1 .. n : p[j] = s[j]
  BY Part DEF p
<1> QED BY <1>2, <1>3, <1>4

\* A list with an entry pushed to its front.
LEMMA Pushed ==
  ASSUME NEW E, NEW s \in Seq(E), NEW e \in E
  PROVE  /\ <<e>> \o s \in Seq(E)
         /\ Len(<<e>> \o s) = Len(s) + 1
         /\ (<<e>> \o s)[1] = e
         /\ \A j \in 1 .. Len(s) : (<<e>> \o s)[j + 1] = s[j]
OBVIOUS

-----------------------------------------------------------------------------
\* What the columns of a fact hold.
Names == Subjects \cup {found.subject : found \in Extracted}
Bodies == Texts \cup {found.text : found \in Extracted}
Hashes == Texts \cup Refs \cup {found.hash : found \in Extracted}
CommentRows == {Row(ref, "pr_comment", ref) : ref \in Refs}
RunbookRows == {Row(ref, "runbook", hash) : ref \in Refs, hash \in Texts \cup Refs}
CorrectionRows == {Row(<<action, f>>, "correction", text) :
                     action \in Corrections, f \in Nat, text \in Texts}
FoundRows == UNION {found.ev : found \in Extracted}
Rows == CommentRows \cup RunbookRows \cup CorrectionRows \cup FoundRows
Evidence == {ev \in SUBSET Rows : ev # {} /\ IsFiniteSet(ev)}
FactSet ==
  [subject : Names, text : Bodies, status : Statuses, llm : BOOLEAN,
   corr : Nat \ {0}, hash : Hashes, ev : Evidence, aged : BOOLEAN, downs : Nat]

\* What is inserted: in service or not yet, and a model's fact has one source.
NewFacts == {x \in FactSet : /\ x.status \in {"active", "quarantined"}
                             /\ x.llm => x.corr = 1}

\* What a process is doing.
PendingOp == [kind : Corrections, at : {"mark", "record", "replace"}, fact : Nat,
              new : NewFacts \cup {Idle}]
JobSet == [fact : Nat, changed : BOOLEAN, refs : SUBSET {e.ref : e \in Rows}]
DriftOp == [kind : {"drift"}, at : {"check", "probing"}, ref : Refs \cup {Idle},
            todo : Seq(JobSet)]
ReverifyOp == [kind : {"reverify"}, at : {"verify"}, calls : Nat,
               todo : SUBSET Nat, downs : UNION {[S -> Nat] : S \in SUBSET Nat}]
OpSet == {Idle} \cup PendingOp \cup DriftOp \cup ReverifyOp

\* An operation refers to facts there are.
Refers(o, ids) ==
  /\ o.kind \in Corrections =>
       /\ o.fact \in ids
       /\ o.kind # "delete" => o.new \in NewFacts
       /\ o.at = "replace" => o.kind # "delete"
  /\ o.kind = "drift" =>
       /\ o.todo # <<>>
       /\ o.at = "probing" => o.ref \in Refs
       /\ \A i \in 1 .. Len(o.todo) : o.todo[i].fact \in ids
  /\ o.kind = "reverify" =>
       /\ o.todo \subseteq ids
       /\ o.downs \in [DOMAIN o.downs -> Nat]
       /\ o.todo \subseteq DOMAIN o.downs

States == {"same", "edited", "gone"}
LivenessEntry == [ref : Refs, state : States, fresh : BOOLEAN]

Typed ==
  /\ facts \in Seq(FactSet)
  /\ Len(facts) <= MaxFacts
  /\ labels \in [1 .. MaxFacts -> [Labels -> Nat]]
  /\ op \in [Procs -> OpSet]
  /\ \A p \in Procs : Refers(op[p], Ids)
  /\ ops \in 0 .. MaxOps
  /\ upstream \in [Refs -> States]
  /\ cache \in Seq(LivenessEntry)
  /\ probes \in 0 .. ProbeBudget
  /\ unrecorded \subseteq Ids
  /\ turned = {r \in Refs : upstream[r] # "same"}
  /\ rejections \subseteq Ids

-----------------------------------------------------------------------------
\* What goes into the store

LEMMA FiniteImage ==
  ASSUME NEW S, IsFiniteSet(S), NEW f
  PROVE  IsFiniteSet({f[x] : x \in S})
<1> DEFINE T == {f[x] : x \in S}
           g == [x \in S |-> f[x]]
<1>1. g \in [S -> T] /\ \A t \in T : \E x \in S : g[x] = t
  OBVIOUS
<1>2. g \in Surjection(S, T)
  BY <1>1 DEF Surjection
<1> HIDE DEF g
<1> QED BY <1>2, FS_Surjection

\* Every finding has evidence, and finitely much of it.
LEMMA FoundEvidence ==
  ASSUME NEW found \in Extracted
  PROVE  found.ev # {} /\ IsFiniteSet(found.ev)
<1>1. \A e : IsFiniteSet({e}) /\ {e} # {}
  BY FS_Singleton
<1>2. CASE found \in CommitRationale
  <2>1. PICK c : found.ev = {Row(Log[c].sha, "commit_msg", Log[c].msg)}
    BY <1>2 DEF CommitRationale, Found
  <2> QED BY <1>1, <2>1
<1>3. CASE found \in MarkerFacts
  <2>1. PICK m \in Markers : found.ev = {Row(m.line, "inline_marker", m.text)}
    BY <1>3 DEF MarkerFacts, Found
  <2> QED BY <1>1, <2>1
<1>4. CASE found \in Codeowners
  <2>1. PICK r \in Rules : found.ev = {Row(r.at, "codeowners", r.owners)}
    BY <1>4 DEF Codeowners, Found
  <2> QED BY <1>1, <2>1
<1>5. CASE found \in Ownership
  <2> DEFINE lines == 1 .. Len(Blame)
             author == [i \in lines |-> Blame[i].author]
             authors == {Blame[i].author : i \in lines}
             shas == [i \in lines |-> Blame[i].sha]
             row == [a \in authors |-> Row(LatestSHA(a), "blame", shas)]
  <2>1. Blame # <<>> /\ found.ev = {row[a] : a \in authors}
    <3> DEFINE ev == {Row(LatestSHA(a), "blame", shas) : a \in authors}
               body == [a \in authors |-> Cardinality(LinesOf(a))]
    <3>1. Blame # <<>> /\ found = Found(File, body, shas, ev)
      BY <1>5 DEF Ownership
    <3>2. ev = {row[a] : a \in authors}
      OBVIOUS
    <3> HIDE DEF ev, body, shas, authors, row
    <3> QED BY <3>1, <3>2 DEF Found
  <2>2. Len(Blame) \in Nat /\ Len(Blame) # 0
    BY <2>1, ExtractorsAssumption
  <2>3. IsFiniteSet(lines) /\ 1 \in lines
    BY <2>2, FS_Interval
  <2>4. authors = {author[i] : i \in lines} /\ Blame[1].author \in authors
    BY <2>3
  <2> HIDE DEF lines, author, authors, row
  <2>5. IsFiniteSet(authors) /\ authors # {}
    BY <2>3, <2>4, FiniteImage
  <2>6. found.ev # {}
    BY <2>1, <2>5
  <2>7. IsFiniteSet(found.ev)
    BY <2>1, <2>5, FiniteImage
  <2> QED BY <2>6, <2>7
<1> QED BY <1>2, <1>3, <1>4, <1>5 DEF Extracted

\* One row is evidence.
LEMMA OneRow ==
  ASSUME NEW e \in Rows
  PROVE  {e} \in Evidence
BY FS_Singleton DEF Evidence

LEMMA FoundFact ==
  ASSUME NEW found \in Extracted
  PROVE  Fact(found.subject, found.text, "active", FALSE, 1, found.hash, found.ev)
           \in NewFacts
<1>1. found.ev \in Evidence
  BY FoundEvidence DEF Evidence, Rows, FoundRows
<1>2. found.subject \in Names /\ found.text \in Bodies /\ found.hash \in Hashes
  BY DEF Names, Bodies, Hashes
<1> QED BY <1>1, <1>2 DEF Fact, NewFacts, FactSet, Statuses

LEMMA MinedFact ==
  ASSUME NEW subject \in Subjects, NEW text \in Texts, NEW ref \in Refs
  PROVE  Fact(subject, text, "active", TRUE, 1, ref, {Row(ref, "pr_comment", ref)})
           \in NewFacts
<1>1. {Row(ref, "pr_comment", ref)} \in Evidence
  BY OneRow DEF Rows, CommentRows
<1>2. subject \in Names /\ text \in Bodies /\ ref \in Hashes
  BY DEF Names, Bodies, Hashes
<1> QED BY <1>1, <1>2 DEF Fact, NewFacts, FactSet, Statuses

LEMMA ProposedFact ==
  ASSUME NEW subject \in Subjects, NEW text \in Texts, NEW signed \in BOOLEAN,
         NEW ref \in Refs, NEW hash \in Texts \cup Refs
  PROVE  Proposed(subject, text, signed, ref, hash) \in NewFacts
<1>1. {Row(ref, "runbook", hash)} \in Evidence
  BY OneRow DEF Rows, RunbookRows
<1>2. subject \in Names /\ text \in Bodies /\ text \in Hashes
  BY DEF Names, Bodies, Hashes
<1> QED BY <1>1, <1>2 DEF Proposed, Fact, NewFacts, FactSet, Statuses

LEMMA ReplacementFact ==
  ASSUME Typed, NEW f \in Ids, NEW text \in Texts, NEW action \in Corrections
  PROVE  Replacement(f, text, action) \in NewFacts
<1>1. facts[f] \in FactSet /\ f \in Nat
  BY DEF Typed, Ids
<1>2. {Row(<<action, f>>, "correction", text)} \in Evidence
  <2>1. Row(<<action, f>>, "correction", text) \in CorrectionRows
    <3>1. \E a \in Corrections, g \in Nat, t \in Texts :
            Row(<<action, f>>, "correction", text) = Row(<<a, g>>, "correction", t)
      BY <1>1, Zenon
    <3> QED BY <3>1 DEF CorrectionRows
  <2> QED BY <2>1, OneRow DEF Rows
<1>3. text \in Bodies /\ text \in Hashes
  BY DEF Bodies, Hashes
<1>4. facts[f].subject \in Names /\ facts[f].corr \in Nat \ {0}
  BY <1>1 DEF FactSet
<1> QED BY <1>2, <1>3, <1>4 DEF Replacement, Fact, NewFacts, FactSet, Statuses

-----------------------------------------------------------------------------
\* What the operations of the store do to facts

\* A fact keeps what it was written with; evidence is only added, and counts.
Kept(old, new) ==
  /\ new.text = old.text /\ new.hash = old.hash
  /\ new.llm = old.llm /\ new.subject = old.subject
  /\ old.ev \subseteq new.ev
  /\ \/ new.corr = old.corr /\ new.ev = old.ev
     \/ /\ new.corr = old.corr + 1
        /\ \E e \in new.ev : \A d \in old.ev : d.ref # e.ref

LEMMA Merged ==
  ASSUME Typed, NEW f \in Ids, NEW new \in NewFacts, Merge(f, new)
  PROVE  /\ facts' \in Seq(FactSet) /\ Len(facts') = Len(facts)
         /\ \A g \in Ids : /\ Kept(facts[g], facts'[g])
                           /\ facts'[g].status = facts[g].status
                           /\ facts'[g].downs = facts[g].downs
<1> DEFINE old == facts[f]
           rows == {e \in new.ev : e.ref \notin {d.ref : d \in old.ev}}
           merged == [old EXCEPT !.ev = @ \cup rows,
                                 !.corr = IF rows = {} THEN @ ELSE @ + 1,
                                 !.aged = IF rows = {} THEN @ ELSE FALSE]
<1>1. old \in FactSet /\ new \in FactSet /\ facts \in Seq(FactSet)
  BY DEF Typed, Ids, NewFacts
<1>2. facts' = [facts EXCEPT ![f] = merged]
  BY DEF Merge
<1>3. old.ev \in Evidence /\ new.ev \in Evidence
  BY <1>1 DEF FactSet
<1>4. old.ev \cup rows \in Evidence
  <2>1. rows \in SUBSET new.ev /\ IsFiniteSet(new.ev)
    BY <1>3 DEF Evidence
  <2>2. IsFiniteSet(rows)
    BY <2>1, FS_Subset
  <2>3. IsFiniteSet(old.ev \cup rows)
    BY <2>2, <1>3, FS_Union DEF Evidence
  <2> QED BY <2>1, <2>3, <1>3 DEF Evidence
<1>5. \A e \in rows : \A d \in old.ev : d.ref # e.ref
  OBVIOUS
<1>6. rows = {} => old.ev \cup rows = old.ev
  OBVIOUS
<1> HIDE DEF rows
<1>7. merged \in FactSet /\ Kept(old, merged)
      /\ merged.status = old.status /\ merged.downs = old.downs
  <2>1. merged \in FactSet
    <3> DEFINE m1 == [old EXCEPT !.ev = @ \cup rows]
               m2 == [m1 EXCEPT !.corr = IF rows = {} THEN @ ELSE @ + 1]
    <3>1. m1 \in FactSet
      BY <1>1, <1>4 DEF FactSet
    <3>2. m1.corr = old.corr /\ m1.aged = old.aged
      BY <1>1 DEF FactSet
    <3>3. merged = [m2 EXCEPT !.aged = IF rows = {} THEN @ ELSE FALSE]
      BY <3>1, <3>2 DEF FactSet
    <3> HIDE DEF m1
    <3>4. m2 \in FactSet
      BY <3>1 DEF FactSet
    <3> HIDE DEF m2, merged
    <3> QED BY <3>3, <3>4 DEF FactSet
  <2>2. /\ merged.text = old.text /\ merged.hash = old.hash
        /\ merged.llm = old.llm /\ merged.subject = old.subject
        /\ merged.status = old.status /\ merged.downs = old.downs
        /\ merged.ev = old.ev \cup rows
        /\ merged.corr = IF rows = {} THEN old.corr ELSE old.corr + 1
    BY <1>1 DEF FactSet
  <2> HIDE DEF merged
  <2> QED BY <2>1, <2>2, <1>5, <1>6 DEF Kept
<1> HIDE DEF merged, old
<1>8. Len(facts) \in Nat /\ Ids = DOMAIN facts
  BY <1>1 DEF Ids
<1>9. facts' \in Seq(FactSet) /\ Len(facts') = Len(facts)
  BY <1>1, <1>2, <1>7, <1>8
<1>10. \A g \in Ids : facts'[g] = IF g = f THEN merged ELSE facts[g]
  BY <1>2, <1>8
<1>11. \A g \in Ids : Kept(facts[g], facts[g])
  BY DEF Kept
<1> QED BY <1>7, <1>9, <1>10, <1>11 DEF old

LEMMA StatusSet ==
  ASSUME Typed, NEW f, NEW status \in Statuses, SetStatus(f, status)
  PROVE  /\ facts' \in Seq(FactSet) /\ Len(facts') = Len(facts)
         /\ \A g \in Ids : /\ Kept(facts[g], facts'[g])
                           /\ facts'[g].status = IF g = f THEN status
                                                ELSE facts[g].status
<1>1. facts \in Seq(FactSet) /\ Len(facts) \in Nat /\ Ids = DOMAIN facts
  BY DEF Typed, Ids
<1>2. facts' = [facts EXCEPT ![f] = [facts[f] EXCEPT !.status = status]]
  BY DEF SetStatus
<1>3. \A g \in Ids : facts'[g] = IF g = f THEN [facts[g] EXCEPT !.status = status]
                               ELSE facts[g]
  BY <1>1, <1>2
<1>4. \A x \in FactSet : /\ [x EXCEPT !.status = status] \in FactSet
                        /\ Kept(x, [x EXCEPT !.status = status])
                        /\ [x EXCEPT !.status = status].status = status
  BY DEF FactSet, Kept
<1>5. \A g \in Ids : facts[g] \in FactSet /\ Kept(facts[g], facts[g])
  BY <1>1 DEF Kept
<1>6. facts' \in Seq(FactSet) /\ Len(facts') = Len(facts)
  <2>1. DOMAIN facts' = DOMAIN facts /\ facts' = [g \in DOMAIN facts |-> facts'[g]]
    BY <1>2
  <2>2. facts' = [g \in 1 .. Len(facts) |-> facts'[g]]
    BY <2>1, <1>1
  <2>3. \A g \in 1 .. Len(facts) : facts'[g] \in FactSet
    BY <1>1, <1>3, <1>4, <1>5 DEF Ids
  <2>4. facts' \in [1 .. Len(facts) -> FactSet]
    BY <2>2, <2>3
  <2> QED BY <2>4, <1>1
<1> QED BY <1>3, <1>4, <1>5, <1>6

LEMMA Upserted ==
  ASSUME Typed, NEW new \in NewFacts, Upsert(new)
  PROVE  /\ facts' \in Seq(FactSet)
         /\ Len(facts') \in {Len(facts), Len(facts) + 1} /\ Len(facts') <= MaxFacts
         /\ \A g \in Ids : /\ Kept(facts[g], facts'[g])
                           /\ facts'[g].status = facts[g].status
         /\ \A g \in 1 .. Len(facts') :
              g \in Ids \/ (facts'[g] = new /\ Twin(new.subject, new.text) = {})
<1>1. facts \in Seq(FactSet) /\ Len(facts) \in Nat /\ Len(facts) <= MaxFacts
  BY DEF Typed
<1>2. CASE \E f \in Twin(new.subject, new.text) : Merge(f, new)
  <2>1. PICK f \in Twin(new.subject, new.text) : Merge(f, new)
    BY <1>2
  <2>2. f \in Ids
    BY DEF Twin
  <2> QED BY <2>1, <2>2, <1>1, Merged DEF Ids
<1>3. CASE /\ Twin(new.subject, new.text) = {}
           /\ Len(facts) < MaxFacts
           /\ facts' = Append(facts, new)
  <2>1. new \in FactSet
    BY DEF NewFacts
  <2>2. facts' \in Seq(FactSet) /\ Len(facts') = Len(facts) + 1
    BY <1>1, <1>3, <2>1
  <2>3. \A g \in Ids : facts'[g] = facts[g]
    BY <1>1, <1>3 DEF Ids
  <2>4. facts'[Len(facts) + 1] = new
    BY <1>1, <1>3
  <2>5. Len(facts') <= MaxFacts
    BY <1>1, <1>3, <2>2, FactsAssumption DEF FactsAssumption
  <2>6. \A g \in 1 .. Len(facts') : g \in Ids \/ g = Len(facts) + 1
    BY <1>1, <2>2 DEF Ids
  <2>7. \A g \in Ids : Kept(facts[g], facts[g])
    BY DEF Kept
  <2> QED BY <1>3, <2>2, <2>3, <2>4, <2>5, <2>6, <2>7
<1> QED BY <1>2, <1>3 DEF Upsert

\* What a step does to the facts: rows keep what they were written with, leave
\* service but do not come back, and a row is added when its cluster has none.
FactsStep ==
  /\ facts' \in Seq(FactSet)
  /\ Len(facts') \in {Len(facts), Len(facts) + 1} /\ Len(facts') <= MaxFacts
  /\ \A g \in Ids : /\ Kept(facts[g], facts'[g])
                    /\ \/ facts'[g].status = facts[g].status
                       \/ facts'[g].status # "active"
  /\ \A g \in 1 .. Len(facts') :
       \/ g \in Ids
       \/ /\ facts'[g] \in NewFacts
          /\ g = Len(facts) + 1
          /\ Twin(facts'[g].subject, facts'[g].text) = {}

LEMMA SameStep ==
  ASSUME Typed, facts' = facts
  PROVE  FactsStep
<1>1. facts \in Seq(FactSet) /\ Len(facts) <= MaxFacts
  BY DEF Typed
<1>2. \A g \in Ids : Kept(facts[g], facts[g])
  BY DEF Kept
<1> QED BY <1>1, <1>2 DEF FactsStep, Ids

LEMMA UpsertStep ==
  ASSUME Typed, NEW new \in NewFacts, Upsert(new)
  PROVE  FactsStep
<1>1. \A g \in 1 .. Len(facts') :
        g \in Ids \/ (facts'[g] = new /\ Twin(new.subject, new.text) = {})
  BY Upserted
<1>2. \A g \in 1 .. Len(facts') : g \in Ids \/ g = Len(facts) + 1
  <2>1. Len(facts) \in Nat /\ Len(facts') \in {Len(facts), Len(facts) + 1}
    BY Upserted DEF Typed
  <2> QED BY <2>1 DEF Ids
<1>3. \A g \in 1 .. Len(facts') :
        \/ g \in Ids
        \/ /\ facts'[g] \in NewFacts
           /\ g = Len(facts) + 1
           /\ Twin(facts'[g].subject, facts'[g].text) = {}
  BY <1>1, <1>2
<1> QED BY <1>3, Upserted DEF FactsStep

LEMMA StatusStep ==
  ASSUME Typed, NEW f, NEW status \in Statuses \ {"active"}, SetStatus(f, status)
  PROVE  FactsStep
<1>1. Len(facts) \in Nat /\ Len(facts) <= MaxFacts
  BY DEF Typed
<1>2. Len(facts') = Len(facts) /\ facts' \in Seq(FactSet)
  BY StatusSet
<1>3. \A g \in Ids : /\ Kept(facts[g], facts'[g])
                    /\ facts'[g].status = IF g = f THEN status ELSE facts[g].status
  BY StatusSet
<1> QED BY <1>1, <1>2, <1>3 DEF FactsStep, Ids

\* Every fact is the same but for its age and its downgrades.
LEMMA AgeStep ==
  ASSUME Typed, DOMAIN facts' = DOMAIN facts, facts' = [g \in DOMAIN facts' |-> facts'[g]],
         \A g \in Ids : /\ facts'[g] \in FactSet
                       /\ Kept(facts[g], facts'[g])
                       /\ facts'[g].status = facts[g].status
  PROVE  FactsStep
<1>1. facts \in Seq(FactSet) /\ Len(facts) \in Nat /\ Len(facts) <= MaxFacts
  BY DEF Typed
<1>2. DOMAIN facts = 1 .. Len(facts)
  BY <1>1
<1>3. facts' \in [1 .. Len(facts) -> FactSet]
  BY <1>2 DEF Ids
<1>4. facts' \in Seq(FactSet) /\ Len(facts') = Len(facts)
  BY <1>1, <1>3
<1> QED BY <1>1, <1>4 DEF FactsStep, Ids

-----------------------------------------------------------------------------
\* What the processes refer to

LEMMA Kinds ==
  ASSUME Typed, NEW p \in Procs
  PROVE  /\ op[p] \in OpSet /\ Refers(op[p], Ids)
         /\ op[p].kind \in Corrections => op[p] \in PendingOp
         /\ op[p].kind = "drift" => op[p] \in DriftOp
         /\ op[p].kind = "reverify" => op[p] \in ReverifyOp
<1>1. op[p] \in OpSet /\ Refers(op[p], Ids)
  BY DEF Typed
<1>2. Idle.kind = "idle"
  BY DEF Idle
<1>3. /\ \A o \in PendingOp : o.kind \in Corrections
      /\ \A o \in DriftOp : o.kind = "drift"
      /\ \A o \in ReverifyOp : o.kind = "reverify"
  BY DEF PendingOp, DriftOp, ReverifyOp
<1>4. "idle" \notin Corrections /\ "drift" \notin Corrections
      /\ "reverify" \notin Corrections
  BY DEF Corrections
<1> QED BY <1>1, <1>2, <1>3, <1>4 DEF OpSet

LEMMA IdleRefers ==
  ASSUME NEW ids
  PROVE  Refers(Idle, ids) /\ Idle \in OpSet
BY DEF Refers, Idle, OpSet, Corrections

LEMMA OpKept ==
  ASSUME Typed, FactsStep, op' = op
  PROVE  op' \in [Procs -> OpSet] /\ \A q \in Procs : Refers(op'[q], Ids')
<1>1. Len(facts) \in Nat /\ Len(facts') \in {Len(facts), Len(facts) + 1}
  BY DEF Typed, FactsStep
<1>2. Ids \subseteq Ids'
  BY <1>1 DEF Ids
<1>3. op \in [Procs -> OpSet] /\ \A q \in Procs : Refers(op[q], Ids)
  BY DEF Typed
<1>4. \A o : Refers(o, Ids) => Refers(o, Ids')
  BY <1>2 DEF Refers
<1> QED BY <1>3, <1>4

LEMMA OpChanged ==
  ASSUME Typed, FactsStep, NEW p \in Procs, NEW o \in OpSet, Refers(o, Ids),
         op' = [op EXCEPT ![p] = o]
  PROVE  op' \in [Procs -> OpSet] /\ \A q \in Procs : Refers(op'[q], Ids')
<1>1. Len(facts) \in Nat /\ Len(facts') \in {Len(facts), Len(facts) + 1}
  BY DEF Typed, FactsStep
<1>2. Ids \subseteq Ids'
  BY <1>1 DEF Ids
<1>3. op \in [Procs -> OpSet] /\ \A q \in Procs : Refers(op[q], Ids)
  BY DEF Typed
<1>4. \A x : Refers(x, Ids) => Refers(x, Ids')
  BY <1>2 DEF Refers
<1>5. op' \in [Procs -> OpSet] /\ \A q \in Procs : op'[q] = IF q = p THEN o ELSE op[q]
  BY <1>3
<1> QED BY <1>3, <1>4, <1>5

\* The variables other than facts and op keep their types.
RestTyped ==
  /\ labels' \in [1 .. MaxFacts -> [Labels -> Nat]]
  /\ ops' \in 0 .. MaxOps
  /\ upstream' \in [Refs -> States]
  /\ cache' \in Seq(LivenessEntry)
  /\ probes' \in 0 .. ProbeBudget
  /\ unrecorded' \subseteq Ids
  /\ turned' = {r \in Refs : upstream'[r] # "same"}
  /\ rejections' \subseteq Ids

LEMMA TypedAgain ==
  ASSUME Typed, FactsStep, RestTyped,
         op' \in [Procs -> OpSet], \A q \in Procs : Refers(op'[q], Ids')
  PROVE  Typed'
<1>1. Len(facts) \in Nat /\ Len(facts') \in {Len(facts), Len(facts) + 1}
      /\ Len(facts') <= MaxFacts /\ facts' \in Seq(FactSet)
  BY DEF Typed, FactsStep
<1>2. Ids \subseteq Ids'
  BY <1>1 DEF Ids
<1> QED BY <1>1, <1>2 DEF Typed, RestTyped

-----------------------------------------------------------------------------
\* The actions

\* What a fact that goes in at once does.
LEMMA InsertedOK ==
  ASSUME Typed, NEW new \in NewFacts, Upsert(new), ops < MaxOps, ops' = ops + 1,
         UNCHANGED <<labels, op, world, unrecorded, rejections>>
  PROVE  FactsStep /\ Typed'
<1>1. FactsStep
  BY UpsertStep
<1>2. RestTyped
  BY FactsAssumption DEF Typed, RestTyped, world, FactsAssumption
<1>3. op' \in [Procs -> OpSet] /\ \A q \in Procs : Refers(op'[q], Ids')
  BY <1>1, OpKept
<1> QED BY <1>1, <1>2, <1>3, TypedAgain

\* One more row about a fact.
LEMMA LabelOK ==
  ASSUME Typed, NEW f \in Ids, NEW l \in Labels, Label(f, l)
  PROVE  labels' \in [1 .. MaxFacts -> [Labels -> Nat]]
<1>1. labels \in [1 .. MaxFacts -> [Labels -> Nat]] /\ f \in 1 .. MaxFacts
  BY FactsAssumption DEF Typed, Ids, FactsAssumption
<1>2. labels[f] \in [Labels -> Nat]
  BY <1>1
<1>3. [labels[f] EXCEPT ![l] = @ + 1] \in [Labels -> Nat]
  BY <1>2
<1>4. labels' = [labels EXCEPT ![f] = [labels[f] EXCEPT ![l] = @ + 1]]
  BY DEF Label
<1> QED BY <1>1, <1>3, <1>4

LEMMA StoreOK ==
  ASSUME Typed, Store
  PROVE  FactsStep /\ Typed'
<1>1. ASSUME NEW subject \in Subjects, NEW text \in Texts, NEW ref \in Refs,
             Mine(subject, text, ref)
      PROVE  FactsStep /\ Typed'
  BY <1>1, MinedFact, InsertedOK DEF Mine
<1>2. ASSUME NEW subject \in Subjects, NEW text \in Texts, NEW ref \in Refs,
             NEW signed \in Signed, NEW hash \in {text, ref},
             Propose(subject, text, signed, ref, hash)
      PROVE  FactsStep /\ Typed'
  <2>1. signed \in BOOLEAN
    BY FactsAssumption DEF FactsAssumption
  <2> QED BY <1>2, <2>1, ProposedFact, InsertedOK DEF Propose
<1>3. ASSUME NEW found \in Extracted, Extract(found)
      PROVE  FactsStep /\ Typed'
  BY <1>3, FoundFact, InsertedOK DEF Extract
<1>4. ASSUME NEW f \in Ids, NEW reason \in Reasons, Report(f, reason)
      PROVE  FactsStep /\ Typed'
  <2>1. FactsStep
    BY <1>4, SameStep DEF Report
  <2>2. labels' \in [1 .. MaxFacts -> [Labels -> Nat]]
    <3>1. reason \in Labels
      BY FactsAssumption DEF FactsAssumption
    <3> QED BY <1>4, <3>1, LabelOK DEF Report
  <2>3. RestTyped
    BY <1>4, <2>2, FactsAssumption
       DEF Typed, RestTyped, Report, world, FactsAssumption
  <2>4. op' \in [Procs -> OpSet] /\ \A q \in Procs : Refers(op'[q], Ids')
    BY <1>4, <2>1, OpKept DEF Report
  <2> QED BY <2>1, <2>3, <2>4, TypedAgain
<1> QED BY <1>1, <1>2, <1>3, <1>4 DEF Store

\* An operation that begins.
LEMMA StartedOK ==
  ASSUME Typed, NEW p \in Procs, NEW o \in OpSet, Refers(o, Ids), Starts(p, o),
         UNCHANGED <<facts, labels, world, unrecorded, rejections>>
  PROVE  FactsStep /\ Typed'
<1>1. FactsStep
  BY SameStep
<1>2. RestTyped
  BY FactsAssumption DEF Typed, RestTyped, Starts, world, FactsAssumption
<1>3. op' \in [Procs -> OpSet] /\ \A q \in Procs : Refers(op'[q], Ids')
  BY <1>1, OpChanged DEF Starts
<1> QED BY <1>1, <1>2, <1>3, TypedAgain

\* A step of an operation that leaves the counts alone.
LEMMA MovedOK ==
  ASSUME Typed, FactsStep, NEW p \in Procs, NEW o \in OpSet, Refers(o, Ids),
         op' = [op EXCEPT ![p] = o],
         labels' \in [1 .. MaxFacts -> [Labels -> Nat]],
         UNCHANGED <<ops, upstream, turned>>, cache' \in Seq(LivenessEntry),
         probes' \in 0 .. ProbeBudget,
         unrecorded' \subseteq Ids, rejections' \subseteq Ids
  PROVE  Typed'
<1>1. RestTyped
  BY DEF Typed, RestTyped
<1>2. op' \in [Procs -> OpSet] /\ \A q \in Procs : Refers(op'[q], Ids')
  BY OpChanged
<1> QED BY <1>1, <1>2, TypedAgain

LEMMA ChangeBegun ==
  ASSUME Typed, NEW f \in Ids, NEW action \in Corrections,
         NEW new \in NewFacts \cup {Idle}, action # "delete" => new \in NewFacts
  PROVE  Change(action, f, new) \in OpSet /\ Refers(Change(action, f, new), Ids)
<1> DEFINE o == Change(action, f, new)
<1>1. /\ o.kind = action /\ o.at \in {"mark", "record"} /\ o.fact = f /\ o.new = new
      /\ o \in PendingOp
  BY DEF Change, PendingOp, Ids
<1> HIDE DEF o
<1>2. o \in OpSet /\ Refers(o, Ids)
  BY <1>1 DEF OpSet, Refers, Corrections
<1> QED BY <1>2 DEF o

\* The next step of a correction.
LEMMA Further ==
  ASSUME Typed, NEW p \in Procs, op[p].kind \in Corrections,
         NEW at \in {"record", "replace"}, at = "replace" => op[p].kind # "delete"
  PROVE  [op[p] EXCEPT !.at = at] \in OpSet /\ Refers([op[p] EXCEPT !.at = at], Ids)
<1> DEFINE o == [op[p] EXCEPT !.at = at]
<1>1. op[p] \in PendingOp /\ Refers(op[p], Ids)
  BY Kinds
<1>2. /\ o \in PendingOp /\ o.at = at /\ o.kind = op[p].kind
      /\ o.fact = op[p].fact /\ o.new = op[p].new
  BY <1>1 DEF PendingOp
<1> HIDE DEF o
<1>3. o \in OpSet /\ Refers(o, Ids)
  BY <1>1, <1>2 DEF OpSet, Refers, Corrections
<1> QED BY <1>3 DEF o

LEMMA CorrectOK ==
  ASSUME Typed, NEW p \in Procs, Correct(p)
  PROVE  FactsStep /\ Typed'
<1>1. ASSUME NEW f \in Ids, Delete(p, f)
      PROVE  FactsStep /\ Typed'
  BY <1>1, ChangeBegun, StartedOK DEF Delete, Corrections
<1>2. ASSUME NEW f \in Ids, NEW action \in Changes \ {"delete"}, NEW text \in Texts,
             Command(p, action, f, text)
      PROVE  FactsStep /\ Typed'
  <2>1. action \in Corrections
    BY FactsAssumption DEF FactsAssumption, Corrections
  <2>2. Replacement(f, text, action) \in NewFacts
    BY <2>1, ReplacementFact
  <2> QED BY <1>2, <2>1, <2>2, ChangeBegun, StartedOK DEF Command
<1>3. ASSUME NEW f \in Ids, NEW action \in Changes \ {"delete"}, NEW text \in Texts,
             NEW subject \in Subjects, NEW signed \in Signed, NEW ref \in Refs,
             ProposeChange(p, action, f, subject, text, signed, ref, text)
      PROVE  FactsStep /\ Typed'
  <2>1. action \in Corrections /\ signed \in BOOLEAN
    BY FactsAssumption DEF FactsAssumption, Corrections
  <2>2. Proposed(subject, text, signed, ref, text) \in NewFacts
    BY <2>1, ProposedFact
  <2> QED BY <1>3, <2>1, <2>2, ChangeBegun, StartedOK DEF ProposeChange
<1>4. CASE Mark(p)
  <2> DEFINE status == IF op[p].kind = "delete" THEN "deleted" ELSE "superseded"
  <2>1. FactsStep
    <3>1. status \in Statuses \ {"active"} /\ SetStatus(op[p].fact, status)
      BY <1>4 DEF Mark, Statuses
    <3> HIDE DEF status
    <3> QED BY <3>1, StatusStep
  <2>2. op[p].kind \in Corrections /\ op' = [op EXCEPT ![p] = [op[p] EXCEPT !.at = "record"]]
    BY <1>4 DEF Mark, Is, Goes, Corrections
  <2>3. [op[p] EXCEPT !.at = "record"] \in OpSet
        /\ Refers([op[p] EXCEPT !.at = "record"], Ids)
    BY <2>2, Further
  <2>4. Typed'
    BY <1>4, <2>1, <2>2, <2>3, MovedOK DEF Mark, Typed, world
  <2> QED BY <2>1, <2>4
<1>5. CASE Record(p)
  <2>1. FactsStep
    BY <1>5, SameStep DEF Record
  <2>2. op[p].kind \in Corrections /\ op[p].fact \in Ids
    BY <1>5, Kinds DEF Record, Is, Refers
  <2>3. labels' \in [1 .. MaxFacts -> [Labels -> Nat]]
    BY <1>5, <2>2, LabelOK DEF Record, Labels
  <2>4. CASE op[p].kind = "delete"
    <3>1. op' = [op EXCEPT ![p] = Idle]
      BY <1>5, <2>4 DEF Record, Ends
    <3> QED BY <1>5, <2>1, <2>3, <3>1, IdleRefers, MovedOK DEF Record, Typed, world
  <2>5. CASE op[p].kind # "delete"
    <3>1. op' = [op EXCEPT ![p] = [op[p] EXCEPT !.at = "replace"]]
      BY <1>5, <2>5 DEF Record, Goes
    <3>2. [op[p] EXCEPT !.at = "replace"] \in OpSet
          /\ Refers([op[p] EXCEPT !.at = "replace"], Ids)
      BY <2>2, <2>5, Further
    <3> QED BY <1>5, <2>1, <2>3, <3>1, <3>2, MovedOK DEF Record, Typed, world
  <2> QED BY <2>4, <2>5, <2>1
<1>6. CASE Replace(p)
  <2>1. op[p].new \in NewFacts
    BY <1>6, Kinds DEF Replace, Is, Refers
  <2>2. FactsStep
    BY <1>6, <2>1, UpsertStep DEF Replace
  <2>3. op' = [op EXCEPT ![p] = Idle]
    BY <1>6 DEF Replace, Ends
  <2> QED BY <1>6, <2>2, <2>3, IdleRefers, MovedOK DEF Replace, Typed, world
<1> QED BY <1>1, <1>2, <1>3, <1>4, <1>5, <1>6 DEF Correct

\* What the liveness cache and the passes do.

\* Every element of s is one of t.
From(s, t) == \A i \in 1 .. Len(s) : \E j \in 1 .. Len(t) : s[i] = t[j]

LEMMA WithoutOK ==
  ASSUME Typed, NEW ref
  PROVE  /\ Without(ref) \in Seq(LivenessEntry) /\ From(Without(ref), cache)
         /\ Len(Without(ref)) <= Len(cache)
<1>1. cache \in Seq(LivenessEntry) /\ Len(cache) \in Nat
  BY DEF Typed
<1>2. CASE Cached(ref) = {}
  BY <1>1, <1>2 DEF Without, From
<1>3. CASE Cached(ref) # {}
  <2> DEFINE k == CHOOSE i \in Cached(ref) : TRUE
  <2>1. k \in 1 .. Len(cache)
    BY <1>3 DEF Cached
  <2>2. Without(ref) = RemoveAt(cache, k)
    BY <1>3 DEF Without
  <2> HIDE DEF k
  <2>3. /\ RemoveAt(cache, k) \in Seq(LivenessEntry)
        /\ Len(RemoveAt(cache, k)) = Len(cache) - 1
        /\ \A j \in 1 .. Len(cache) - 1 :
             RemoveAt(cache, k)[j] = IF j < k THEN cache[j] ELSE cache[j + 1]
    BY <1>1, <2>1, RemovedAt
  <2>4. \A j \in 1 .. Len(cache) - 1 : j \in 1 .. Len(cache) /\ j + 1 \in 1 .. Len(cache)
    BY <1>1
  <2> QED BY SMTT(80), <1>1, <2>2, <2>3, <2>4 DEF From
<1> QED BY <1>2, <1>3

LEMMA FrontPushed ==
  ASSUME NEW s \in Seq(LivenessEntry), NEW e \in LivenessEntry
  PROVE  /\ <<e>> \o s \in Seq(LivenessEntry)
         /\ \A i \in 1 .. Len(<<e>> \o s) :
              (<<e>> \o s)[i] = e \/ \E j \in 1 .. Len(s) : (<<e>> \o s)[i] = s[j]
<1>1. /\ <<e>> \o s \in Seq(LivenessEntry)
      /\ Len(<<e>> \o s) = Len(s) + 1
      /\ (<<e>> \o s)[1] = e
      /\ \A j \in 1 .. Len(s) : (<<e>> \o s)[j + 1] = s[j]
  BY Pushed
<1>2. \A i \in 1 .. Len(s) + 1 : i = 1 \/ (i - 1 \in 1 .. Len(s) /\ (i - 1) + 1 = i)
  OBVIOUS
<1> QED BY <1>1, <1>2

\* put adds the entry, and nothing else that was not there.
LEMMA PutOK ==
  ASSUME Typed, NEW e \in LivenessEntry, Put(e)
  PROVE  /\ cache' \in Seq(LivenessEntry)
         /\ \A i \in 1 .. Len(cache') :
              cache'[i] = e \/ \E j \in 1 .. Len(cache) : cache'[i] = cache[j]
<1>0. cache \in Seq(LivenessEntry) /\ Len(cache) \in Nat /\ MaxEntries \in Nat \ {0}
  BY FactsAssumption DEF Typed, FactsAssumption
<1>1. CASE Cached(e.ref) = {} /\ Len(cache) >= MaxEntries
  <2>1. cache' = <<e>> \o Front(cache)
    BY <1>1 DEF Put
  <2>2. /\ Front(cache) \in Seq(LivenessEntry)
        /\ Len(Front(cache)) = Len(cache) - 1
        /\ \A j \in 1 .. Len(cache) - 1 : Front(cache)[j] = cache[j]
    BY <1>0, <1>1, FrontOf
  <2>3. From(Front(cache), cache)
    BY <1>0, <2>2 DEF From
  <2> QED BY <2>1, <2>2, <2>3, FrontPushed DEF From
<1>2. CASE ~(Cached(e.ref) = {} /\ Len(cache) >= MaxEntries)
  <2>1. cache' = <<e>> \o Without(e.ref)
    BY <1>2 DEF Put
  <2> QED BY <2>1, WithoutOK, FrontPushed DEF From
<1> QED BY <1>1, <1>2

\* A pass goes on with jobs it had, with some of their comments settled.
Derived(new, old) ==
  new.kind = "drift" =>
    /\ old.kind = "drift"
    /\ \A i \in 1 .. Len(new.todo) : \E j \in 1 .. Len(old.todo) :
         /\ new.todo[i].fact = old.todo[j].fact
         /\ new.todo[i].changed = old.todo[j].changed
         /\ new.todo[i].refs \subseteq old.todo[j].refs

LEMMA NextJob ==
  ASSUME Typed, NEW p \in Procs, op[p].kind = "drift", Next1(p)
  PROVE  \E o \in OpSet : /\ op' = [op EXCEPT ![p] = o] /\ Refers(o, Ids)
                          /\ Derived(o, op[p])
                          /\ o.kind = "drift" => o.at = "check"
<1> DEFINE q == op[p]
           rest == [q EXCEPT !.todo = Tail(@)]
           o == [rest EXCEPT !.at = "check"]
<1>1. q \in DriftOp /\ Refers(q, Ids) /\ q.todo \in Seq(JobSet) /\ q.todo # <<>>
  BY Kinds DEF DriftOp, Refers
<1>2. CASE Len(q.todo) = 1
  <2>1. op' = [op EXCEPT ![p] = Idle]
    BY <1>2 DEF Next1, Ends
  <2> QED BY <2>1, IdleRefers DEF Derived, Idle
<1>3. CASE Len(q.todo) # 1
  <2>1. /\ Tail(q.todo) \in Seq(JobSet) /\ Len(Tail(q.todo)) = Len(q.todo) - 1
        /\ \A i \in 1 .. Len(q.todo) - 1 : Tail(q.todo)[i] = q.todo[i + 1]
        /\ Len(q.todo) \in Nat \ {0, 1}
    BY <1>1, <1>3
  <2>2. rest \in DriftOp /\ rest.todo = Tail(q.todo)
    BY <1>1, <2>1 DEF DriftOp
  <2> HIDE DEF rest
  <2>3. o \in DriftOp /\ o.todo = Tail(q.todo) /\ o.at = "check" /\ o.kind = "drift"
    BY <2>2 DEF DriftOp
  <2>4. op' = [op EXCEPT ![p] = o]
    BY <1>3 DEF Next1, rest
  <2> HIDE DEF o
  <2>5. \A i \in 1 .. Len(o.todo) :
          i + 1 \in 1 .. Len(q.todo) /\ o.todo[i] = q.todo[i + 1]
    BY <2>1, <2>3
  <2>6. Derived(o, q)
    BY <1>1, <2>5 DEF Derived, DriftOp
  <2>7. Refers(o, Ids)
    <3>1. o.todo # <<>>
      <4>1. \A s : Len(s) # 0 => s # <<>>
        OBVIOUS
      <4>2. Len(o.todo) # 0
        BY <2>1, <2>3
      <4> QED BY <4>1, <4>2, Zenon
    <3>2. \A i \in 1 .. Len(q.todo) : q.todo[i].fact \in Ids
      BY <1>1 DEF Refers, DriftOp
    <3>3. \A i \in 1 .. Len(o.todo) : o.todo[i].fact \in Ids
      BY <2>5, <3>2
    <3> QED BY <2>3, <3>1, <3>3 DEF Refers, Corrections
  <2>8. o \in OpSet
    BY <2>3 DEF OpSet
  <2> QED BY <2>3, <2>4, <2>6, <2>7, <2>8
<1> QED BY <1>2, <1>3

\* A comment of the first job is settled.
LEMMA SettledJob ==
  ASSUME Typed, NEW p \in Procs, op[p].kind = "drift", NEW ref
  PROVE  LET o == [op[p] EXCEPT !.todo[1].refs = @ \ {ref}]
         IN  /\ o \in DriftOp /\ Refers(o, Ids) /\ Derived(o, op[p])
             /\ o.at = op[p].at /\ o.ref = op[p].ref /\ o.kind = "drift"
<1> DEFINE q == op[p]
           job == [q.todo[1] EXCEPT !.refs = @ \ {ref}]
           todo == [q.todo EXCEPT ![1] = job]
           o == [q EXCEPT !.todo = todo]
<1>1. q \in DriftOp /\ Refers(q, Ids) /\ q.todo \in Seq(JobSet) /\ q.todo # <<>>
  BY Kinds DEF DriftOp, Refers
<1>2. Len(q.todo) \in Nat \ {0} /\ q.todo[1] \in JobSet
  BY <1>1
<1>3. /\ job \in JobSet /\ job.fact = q.todo[1].fact /\ job.changed = q.todo[1].changed
      /\ job.refs \subseteq q.todo[1].refs
  BY <1>2 DEF JobSet
<1> HIDE DEF job
<1>4. /\ todo \in Seq(JobSet) /\ Len(todo) = Len(q.todo)
      /\ \A i \in 1 .. Len(q.todo) : todo[i] = IF i = 1 THEN job ELSE q.todo[i]
  BY <1>1, <1>2, <1>3
<1>5. todo # <<>>
  BY <1>2, <1>4
<1> HIDE DEF todo
<1>6. o \in DriftOp /\ o.todo = todo /\ o.at = q.at /\ o.ref = q.ref
      /\ o.kind = "drift"
  BY <1>1, <1>4 DEF DriftOp
<1>7. [op[p] EXCEPT !.todo[1].refs = @ \ {ref}] = o
  BY DEF job, todo
<1> HIDE DEF o
<1>8. Derived(o, q)
  BY <1>1, <1>3, <1>4, <1>6 DEF Derived, DriftOp
<1>9. Refers(o, Ids)
  BY <1>1, <1>3, <1>4, <1>5, <1>6 DEF Refers, Corrections, DriftOp
<1> QED BY <1>6, <1>7, <1>8, <1>9

\* A job that is to end with a stale fact has its reason, and its comments are the
\* fact's.
Reasoned(o, known) ==
  o.kind = "drift" =>
    /\ \A i \in 1 .. Len(o.todo) :
         /\ o.todo[i].changed => EvidenceHashChanged(known[o.todo[i].fact])
         /\ o.todo[i].refs \subseteq Comments(known[o.todo[i].fact])
    /\ o.at = "probing" => o.ref \in Head(o.todo).refs

\* A pass that begins takes the active facts.
LEMMA CheckBegun ==
  ASSUME Typed, NEW active \in SUBSET Ids, active # {},
         NEW order \in [1 .. Cardinality(active) -> active]
  PROVE  LET Check(f) == [fact |-> f, changed |-> EvidenceHashChanged(facts[f]),
                          refs |-> Comments(facts[f])]
             o == [kind |-> "drift", at |-> "check", ref |-> Idle,
                   todo |-> [i \in 1 .. Cardinality(active) |-> Check(order[i])]]
         IN  o \in OpSet /\ Refers(o, Ids) /\ Reasoned(o, facts)
<1> DEFINE Check(f) == [fact |-> f, changed |-> EvidenceHashChanged(facts[f]),
                        refs |-> Comments(facts[f])]
           n == Cardinality(active)
           todo == [i \in 1 .. n |-> Check(order[i])]
           o == [kind |-> "drift", at |-> "check", ref |-> Idle, todo |-> todo]
<1>1. n \in Nat \ {0}
  <2>1. Len(facts) \in Nat
    BY DEF Typed
  <2>2. IsFiniteSet(Ids)
    BY <2>1, FS_Interval DEF Ids
  <2>3. IsFiniteSet(active)
    BY <2>2, FS_Subset
  <2> QED BY <2>3, FS_CardinalityType, FS_EmptySet
<1> HIDE DEF n
<1>2. ASSUME NEW f \in Ids
      PROVE  /\ Check(f) \in JobSet /\ Check(f).fact \in Ids
             /\ Check(f).changed = EvidenceHashChanged(facts[Check(f).fact])
             /\ Check(f).refs = Comments(facts[Check(f).fact])
  <2>1. facts[f] \in FactSet /\ f \in Nat
    BY DEF Typed, Ids
  <2>2. facts[f].ev \in SUBSET Rows
    BY <2>1 DEF FactSet, Evidence
  <2>3. Comments(facts[f]) \in SUBSET {e.ref : e \in Rows}
    BY <2>2 DEF Comments
  <2>4. EvidenceHashChanged(facts[f]) \in BOOLEAN
    BY DEF EvidenceHashChanged
  <2> QED BY <2>1, <2>3, <2>4 DEF JobSet
<1> HIDE DEF Check
<1>3. \A i \in 1 .. n : order[i] \in Ids
  BY DEF n
<1>4. /\ todo \in [1 .. n -> JobSet]
      /\ \A i \in 1 .. n :
           /\ todo[i].fact \in Ids
           /\ todo[i].changed = EvidenceHashChanged(facts[todo[i].fact])
           /\ todo[i].refs = Comments(facts[todo[i].fact])
  BY <1>2, <1>3
<1>5. todo \in Seq(JobSet) /\ Len(todo) = n
  BY <1>1, <1>4
<1>6. todo # <<>>
  <2>1. \A s : Len(s) # 0 => s # <<>>
    OBVIOUS
  <2>2. Len(todo) # 0
    BY <1>1, <1>5
  <2> QED BY <2>1, <2>2, Zenon
<1> HIDE DEF todo
<1>7. o \in DriftOp /\ o.kind = "drift" /\ o.at = "check" /\ o.todo = todo
  BY <1>5 DEF DriftOp
<1> HIDE DEF o
<1>8. o \in OpSet /\ Refers(o, Ids)
  BY <1>4, <1>5, <1>6, <1>7 DEF OpSet, Refers, Corrections
<1>9. Reasoned(o, facts)
  BY <1>4, <1>5, <1>7 DEF Reasoned
<1> QED BY <1>8, <1>9 DEF o, todo, n, Check

\* What every step of a pass leaves alone.
LEMMA PassOK ==
  ASSUME Typed, FactsStep, NEW p \in Procs, NEW o \in OpSet, Refers(o, Ids),
         op' = [op EXCEPT ![p] = o],
         cache' \in Seq(LivenessEntry), probes' \in 0 .. ProbeBudget,
         UNCHANGED <<labels, ops, upstream, turned, unrecorded, rejections>>
  PROVE  FactsStep /\ Typed'
BY MovedOK DEF Typed

LEMMA Judged ==
  ASSUME Typed, NEW p \in Procs, Stale(p), op[p].kind = "drift"
  PROVE  /\ FactsStep
         /\ \E o \in OpSet : op' = [op EXCEPT ![p] = o] /\ Refers(o, Ids)
<1>1. FactsStep
  BY StatusStep DEF Stale, Statuses
<1>2. Next1(p)
  BY DEF Stale
<1> QED BY <1>1, <1>2, NextJob

\* A settled job, back at its check.
LEMMA SoundJob ==
  ASSUME Typed, NEW p \in Procs, op[p].kind = "drift", Sound(p)
  PROVE  \E o \in OpSet : /\ op' = [op EXCEPT ![p] = o] /\ Refers(o, Ids)
                          /\ Derived(o, op[p]) /\ o.kind = "drift" /\ o.at = "check"
<1> DEFINE q == [op[p] EXCEPT !.todo[1].refs = @ \ {op[p].ref}]
           o == [q EXCEPT !.at = "check"]
<1>1. q \in DriftOp /\ Refers(q, Ids) /\ Derived(q, op[p]) /\ q.kind = "drift"
  BY SettledJob
<1>2. op' = [op EXCEPT ![p] = o]
  BY DEF Sound
<1> HIDE DEF q
<1>3. o \in DriftOp /\ o.todo = q.todo /\ o.kind = "drift" /\ o.at = "check"
  BY <1>1 DEF DriftOp
<1> HIDE DEF o
<1>4. o \in OpSet /\ Refers(o, Ids) /\ Derived(o, op[p])
  BY <1>1, <1>3 DEF OpSet, Refers, Derived, Corrections
<1> QED BY <1>2, <1>3, <1>4

LEMMA DriftOK ==
  ASSUME Typed, NEW p \in Procs, Drift(p)
  PROVE  FactsStep /\ Typed'
<1>0. cache \in Seq(LivenessEntry) /\ probes \in 0 .. ProbeBudget
      /\ ProbeBudget \in Nat \ {0}
  BY FactsAssumption DEF Typed, FactsAssumption
<1>1. CASE CheckTribal(p)
  <2> DEFINE active == {f \in Ids : facts[f].status = "active"}
  <2>1. active \in SUBSET Ids
    OBVIOUS
  <2> QED BY <1>1, <2>1, CheckBegun, StartedOK DEF CheckTribal
<1>2. CASE CheckEvidence(p)
  <2>1. op[p].kind = "drift" /\ Stale(p)
    BY <1>2 DEF CheckEvidence, Is
  <2>2. UNCHANGED <<labels, ops, upstream, cache, probes, turned, unrecorded, rejections>>
    BY <1>2 DEF CheckEvidence, world
  <2> QED BY <1>0, <2>1, <2>2, Judged, PassOK
<1>3. CASE CheckDone(p)
  <2>1. op[p].kind = "drift" /\ Next1(p) /\ facts' = facts
    BY <1>3 DEF CheckDone, Is
  <2>2. UNCHANGED <<labels, ops, upstream, cache, probes, turned, unrecorded, rejections>>
    BY <1>3 DEF CheckDone, world
  <2> QED BY <1>0, <2>1, <2>2, SameStep, NextJob, PassOK
<1>4. ASSUME NEW ref \in Refs, ProbeCached(p, ref)
      PROVE  FactsStep /\ Typed'
  <2>1. PICK i \in Cached(ref) :
          /\ cache' = <<cache[i]>> \o Without(ref)
          /\ IF cache[i].state = "same"
             THEN /\ op' = [op EXCEPT ![p].todo[1].refs = @ \ {ref}]
                  /\ UNCHANGED facts
             ELSE Stale(p)
    BY <1>4 DEF ProbeCached
  <2>2. op[p].kind = "drift"
        /\ UNCHANGED <<labels, ops, upstream, probes, turned, unrecorded, rejections>>
    BY <1>4 DEF ProbeCached, Is
  <2>3. cache' \in Seq(LivenessEntry)
    <3>1. cache[i] \in LivenessEntry
      BY <1>0 DEF Cached
    <3> QED BY <2>1, <3>1, WithoutOK, FrontPushed
  <2>4. CASE cache[i].state = "same"
    <3> DEFINE o == [op[p] EXCEPT !.todo[1].refs = @ \ {ref}]
    <3>1. op' = [op EXCEPT ![p] = o] /\ facts' = facts
      BY <2>1, <2>4
    <3>2. o \in DriftOp /\ Refers(o, Ids)
      BY <2>2, SettledJob
    <3> HIDE DEF o
    <3>3. o \in OpSet
      BY <3>2 DEF OpSet
    <3> QED BY <1>0, <2>2, <2>3, <3>1, <3>2, <3>3, SameStep, PassOK
  <2>5. CASE cache[i].state # "same"
    <3>1. Stale(p)
      BY <2>1, <2>5
    <3> QED BY <1>0, <2>2, <2>3, <3>1, Judged, PassOK
  <2> QED BY <2>4, <2>5
<1>5. ASSUME NEW ref \in Refs, ProbeExhausted(p, ref)
      PROVE  FactsStep /\ Typed'
  <2> DEFINE o == [op[p] EXCEPT !.todo[1].refs = @ \ {ref}]
  <2>1. op' = [op EXCEPT ![p] = o] /\ facts' = facts /\ op[p].kind = "drift"
        /\ cache' = Without(ref)
        /\ UNCHANGED <<labels, ops, upstream, probes, turned, unrecorded, rejections>>
    BY <1>5 DEF ProbeExhausted, Is
  <2>2. o \in DriftOp /\ Refers(o, Ids)
    BY <2>1, SettledJob
  <2> HIDE DEF o
  <2>3. o \in OpSet
    BY <2>2 DEF OpSet
  <2> QED BY <1>0, <2>1, <2>2, <2>3, SameStep, WithoutOK, PassOK
<1>6. ASSUME NEW ref \in Refs, ProbeCalls(p, ref)
      PROVE  FactsStep /\ Typed'
  <2> DEFINE q == [op[p] EXCEPT !.at = "probing"]
             o == [q EXCEPT !.ref = ref]
  <2>1. op' = [op EXCEPT ![p] = o] /\ facts' = facts /\ op[p].kind = "drift"
        /\ cache' = Without(ref) /\ probes' = probes + 1 /\ probes < ProbeBudget
        /\ UNCHANGED <<labels, ops, upstream, turned, unrecorded, rejections>>
    BY <1>6 DEF ProbeCalls, Is
  <2>2. op[p] \in DriftOp /\ Refers(op[p], Ids)
    BY <2>1, Kinds
  <2>3. q \in DriftOp /\ q.todo = op[p].todo
    BY <2>2 DEF DriftOp
  <2> HIDE DEF q
  <2>4. o \in DriftOp /\ o.todo = op[p].todo /\ o.ref \in Refs
    BY <2>3 DEF DriftOp
  <2> HIDE DEF o
  <2>5. o \in OpSet /\ Refers(o, Ids)
    BY <2>2, <2>4 DEF OpSet, DriftOp, Refers, Corrections
  <2>6. probes' \in 0 .. ProbeBudget
    BY <1>0, <2>1
  <2> QED BY <2>1, <2>5, <2>6, SameStep, WithoutOK, PassOK
<1>7. CASE ProbeAnswered(p)
  <2> DEFINE e == [ref |-> op[p].ref, state |-> upstream[op[p].ref], fresh |-> TRUE]
  <2>1. op[p].kind = "drift" /\ op[p].at = "probing" /\ Put(e)
        /\ Judge(p, upstream[op[p].ref])
        /\ UNCHANGED <<labels, ops, upstream, probes, turned, unrecorded, rejections>>
    BY <1>7 DEF ProbeAnswered, Is
  <2>2. op[p].ref \in Refs
    BY <2>1, Kinds DEF Refers
  <2>3. cache' \in Seq(LivenessEntry)
    <3>1. e \in LivenessEntry
      BY <2>2 DEF LivenessEntry, Typed
    <3> HIDE DEF e
    <3> QED BY <2>1, <3>1, PutOK
  <2>4. CASE upstream[op[p].ref] = "same"
    <3>1. Sound(p) /\ facts' = facts
      BY <2>1, <2>4 DEF Judge
    <3> QED BY <1>0, <2>1, <2>3, <3>1, SameStep, SoundJob, PassOK
  <2>5. CASE upstream[op[p].ref] # "same"
    <3>1. Stale(p)
      BY <2>1, <2>5 DEF Judge
    <3> QED BY <1>0, <2>1, <2>3, <3>1, Judged, PassOK
  <2> QED BY <2>4, <2>5
<1>8. CASE ProbeFails(p)
  <2>1. op[p].kind = "drift" /\ Sound(p) /\ facts' = facts
        /\ UNCHANGED <<labels, ops, upstream, cache, probes, turned, unrecorded,
                       rejections>>
    BY <1>8 DEF ProbeFails, Is, world
  <2> QED BY <1>0, <2>1, SameStep, SoundJob, PassOK
<1> QED BY <1>1, <1>2, <1>3, <1>4, <1>5, <1>6, <1>7, <1>8 DEF Drift

\* Facts whose age or downgrades change keep all the rest.
LEMMA Aged ==
  ASSUME NEW x \in FactSet, NEW b \in BOOLEAN, NEW n \in Nat
  PROVE  /\ [x EXCEPT !.aged = b] \in FactSet /\ Kept(x, [x EXCEPT !.aged = b])
         /\ [x EXCEPT !.aged = b].status = x.status
         /\ [x EXCEPT !.downs = n] \in FactSet /\ Kept(x, [x EXCEPT !.downs = n])
         /\ [x EXCEPT !.downs = n].status = x.status
BY DEF FactSet, Kept

LEMMA VerifyStep ==
  ASSUME Typed, NEW p \in Procs, NEW f \in Ids,
         NEW verdict \in {"accept", "downgrade", "reject"}, Verify(p, f, verdict)
  PROVE  FactsStep
<1>1. facts \in Seq(FactSet) /\ Ids = DOMAIN facts /\ \A g \in Ids : facts[g] \in FactSet
  BY DEF Typed, Ids
<1>2. \A g \in Ids : Kept(facts[g], facts[g])
  BY DEF Kept
<1>3. ASSUME NEW x \in FactSet, Kept(facts[f], x), x.status = facts[f].status,
             facts' = [facts EXCEPT ![f] = x]
      PROVE  FactsStep
  <2>1. DOMAIN facts' = DOMAIN facts /\ facts' = [g \in DOMAIN facts' |-> facts'[g]]
    BY <1>3
  <2>2. \A g \in Ids : facts'[g] = IF g = f THEN x ELSE facts[g]
    BY <1>1, <1>3
  <2>3. \A g \in Ids : /\ facts'[g] \in FactSet /\ Kept(facts[g], facts'[g])
                      /\ facts'[g].status = facts[g].status
    BY <1>1, <1>2, <1>3, <2>2
  <2> QED BY <2>1, <2>3, AgeStep
<1>4. CASE verdict = "accept"
  <2> DEFINE x == [facts[f] EXCEPT !.aged = FALSE]
  <2>1. facts' = [facts EXCEPT ![f] = x]
    BY <1>4 DEF Verify
  <2>2. x \in FactSet /\ Kept(facts[f], x) /\ x.status = facts[f].status
    BY <1>1, Aged
  <2> HIDE DEF x
  <2> QED BY <2>1, <2>2, <1>3
<1>5. CASE verdict = "downgrade"
  <2> DEFINE x == [facts[f] EXCEPT !.downs = op[p].downs[f] + 1]
  <2>1. facts' = [facts EXCEPT ![f] = x]
    BY <1>5 DEF Verify
  <2>2. op[p].downs[f] + 1 \in Nat
    <3>1. f \in op[p].todo /\ op[p].kind = "reverify"
      BY DEF Verify, Is
    <3>2. op[p].downs \in [DOMAIN op[p].downs -> Nat] /\ op[p].todo \subseteq DOMAIN op[p].downs
      BY <3>1, Kinds DEF Refers
    <3>3. op[p].downs[f] \in Nat
      BY <3>1, <3>2
    <3> QED BY <3>3
  <2>3. x \in FactSet /\ Kept(facts[f], x) /\ x.status = facts[f].status
    BY <1>1, <2>2, Aged
  <2> HIDE DEF x
  <2> QED BY <2>1, <2>3, <1>3
<1>6. CASE verdict = "reject"
  <2>1. SetStatus(f, "stale")
    BY <1>6 DEF Verify, SetStatus
  <2> QED BY <2>1, StatusStep DEF Statuses
<1> QED BY <1>4, <1>5, <1>6

LEMMA ReverifyOK ==
  ASSUME Typed, NEW p \in Procs, Reverify(p)
  PROVE  FactsStep /\ Typed'
<1>0. cache \in Seq(LivenessEntry) /\ probes \in 0 .. ProbeBudget
  BY DEF Typed
<1>1. CASE ReverifyTribal(p)
  <2>1. PICK sample \in SUBSET Eligible :
          /\ Starts(p, [kind |-> "reverify", at |-> "verify", calls |-> 0,
                        todo |-> sample, downs |-> [f \in sample |-> facts[f].downs]])
          /\ UNCHANGED <<facts, labels, world, unrecorded, rejections>>
    BY <1>1 DEF ReverifyTribal
  <2> DEFINE downs == [f \in sample |-> facts[f].downs]
             o == [kind |-> "reverify", at |-> "verify", calls |-> 0,
                   todo |-> sample, downs |-> downs]
  <2>2. sample \in SUBSET Ids /\ sample \in SUBSET Nat
    BY DEF Eligible, Ids
  <2>3. \A f \in Ids : facts[f].downs \in Nat
    <3>1. \A f \in Ids : facts[f] \in FactSet
      BY DEF Typed, Ids
    <3> QED BY <3>1 DEF FactSet
  <2>4. downs \in [sample -> Nat] /\ DOMAIN downs = sample
    BY <2>2, <2>3
  <2> HIDE DEF downs
  <2>5. o \in ReverifyOp /\ o.kind = "reverify" /\ o.todo = sample /\ o.downs = downs
    BY <2>2, <2>4 DEF ReverifyOp
  <2>6. Starts(p, o)
    BY <2>1 DEF downs
  <2> HIDE DEF o
  <2>7. o \in OpSet /\ Refers(o, Ids)
    BY <2>2, <2>4, <2>5 DEF OpSet, Refers, Corrections
  <2> QED BY <2>1, <2>6, <2>7, StartedOK
<1>2. CASE VerifyExhausted(p)
  <2>1. op' = [op EXCEPT ![p] = Idle] /\ facts' = facts
        /\ UNCHANGED <<labels, ops, upstream, cache, probes, turned, unrecorded,
                       rejections>>
    BY <1>2 DEF VerifyExhausted, Ends, world
  <2> QED BY <1>0, <2>1, SameStep, IdleRefers, PassOK
<1>3. ASSUME NEW f \in Ids, NEW verdict \in {"accept", "downgrade", "reject"},
             Verify(p, f, verdict)
      PROVE  FactsStep /\ Typed'
  <2>1. FactsStep
    BY <1>3, VerifyStep
  <2>2. rejections' \subseteq Ids
    BY <1>3 DEF Verify, Typed
  <2>3. op[p].kind = "reverify" /\ op[p] \in ReverifyOp /\ Refers(op[p], Ids)
    BY <1>3, Kinds DEF Verify, Is
  <2>4. \E o \in OpSet : op' = [op EXCEPT ![p] = o] /\ Refers(o, Ids)
    <3>1. CASE op[p].todo = {f}
      BY <1>3, <3>1, IdleRefers DEF Verify, Ends
    <3>2. CASE op[p].todo # {f}
      <4> DEFINE q == [op[p] EXCEPT !.todo = @ \ {f}]
                 o == [q EXCEPT !.calls = @ + 1]
      <4>1. q \in ReverifyOp /\ q.todo \subseteq op[p].todo /\ q.downs = op[p].downs
        BY <2>3 DEF ReverifyOp
      <4>2. op' = [op EXCEPT ![p] = o]
        BY ZenonT(80), <1>3, <3>2 DEF Verify
      <4> HIDE DEF q
      <4>3. /\ o \in ReverifyOp /\ o.kind = "reverify"
            /\ o.todo = q.todo /\ o.downs = op[p].downs
        BY <4>1 DEF ReverifyOp
      <4> HIDE DEF o
      <4>4. o \in OpSet /\ Refers(o, Ids)
        BY <2>3, <4>1, <4>3 DEF OpSet, Refers, Corrections
      <4> QED BY <4>2, <4>4
    <3> QED BY <3>1, <3>2
  <2>5. UNCHANGED <<labels, ops, upstream, cache, probes, turned, unrecorded>>
    BY <1>3 DEF Verify, world
  <2> QED BY <1>0, <2>1, <2>2, <2>4, <2>5, MovedOK DEF Typed
<1> QED BY <1>1, <1>2, <1>3 DEF Reverify

-----------------------------------------------------------------------------
\* Types

LEMMA AbandonOK ==
  ASSUME Typed, NEW p \in Procs, Abandon(p)
  PROVE  FactsStep /\ Typed'
<1>1. op' = [op EXCEPT ![p] = Idle] /\ facts' = facts
      /\ UNCHANGED <<labels, ops, upstream, cache, probes, turned, rejections>>
  BY DEF Abandon, Ends, world
<1>2. unrecorded' \subseteq Ids
  <2>1. Is(p, {"supersede", "delete"}, "record") => op[p].fact \in Ids
    BY Kinds DEF Is, Refers, Corrections
  <2> QED BY <2>1 DEF Abandon, Typed
<1> QED BY <1>1, <1>2, SameStep, IdleRefers, MovedOK DEF Typed

LEMMA TurnOK ==
  ASSUME Typed, NEW ref \in Refs, Turn(ref)
  PROVE  FactsStep /\ Typed'
<1>1. facts' = facts /\ op' = op
  BY DEF Turn
<1>2. FactsStep
  BY <1>1, SameStep
<1>3. PICK state \in {"edited", "gone"} : upstream' = [upstream EXCEPT ![ref] = state]
  BY DEF Turn
<1>4. /\ upstream \in [Refs -> States] /\ turned = {r \in Refs : upstream[r] # "same"}
      /\ turned' = turned \cup {ref}
  BY DEF Typed, Turn
<1>5. upstream' \in [Refs -> States]
      /\ \A r \in Refs : upstream'[r] = IF r = ref THEN state ELSE upstream[r]
  BY <1>3, <1>4 DEF States
<1>6. turned' = {r \in Refs : upstream'[r] # "same"}
  BY <1>4, <1>5
<1>7. RestTyped
  BY <1>5, <1>6 DEF Turn, Typed, RestTyped
<1> QED BY <1>1, <1>2, <1>7, OpKept, TypedAgain

LEMMA TimeOK ==
  ASSUME Typed, TimePasses
  PROVE  FactsStep /\ Typed'
<1>1. facts' = [f \in Ids |-> [facts[f] EXCEPT !.aged = TRUE]]
  BY DEF TimePasses
<1>2. facts \in Seq(FactSet) /\ Ids = DOMAIN facts /\ \A g \in Ids : facts[g] \in FactSet
  BY DEF Typed, Ids
<1>3. \A g \in Ids : /\ facts'[g] \in FactSet /\ Kept(facts[g], facts'[g])
                    /\ facts'[g].status = facts[g].status
  BY <1>1, <1>2, Aged
<1>4. DOMAIN facts' = DOMAIN facts /\ facts' = [g \in DOMAIN facts' |-> facts'[g]]
  BY <1>1, <1>2
<1>5. FactsStep
  BY <1>3, <1>4, AgeStep
<1>6. cache' \in Seq(LivenessEntry)
  <2>1. cache \in Seq(LivenessEntry)
    BY DEF Typed
  <2>2. \A x \in LivenessEntry : [x EXCEPT !.fresh = FALSE] \in LivenessEntry
    BY DEF LivenessEntry
  <2>3. cache' = [i \in 1 .. Len(cache) |-> [cache[i] EXCEPT !.fresh = FALSE]]
    BY DEF TimePasses
  <2> QED BY <2>1, <2>2, <2>3
<1>7. RestTyped
  BY <1>6 DEF TimePasses, Typed, RestTyped
<1>8. op' = op
  BY DEF TimePasses
<1> QED BY <1>5, <1>7, <1>8, OpKept, TypedAgain

\* Types are preserved, and every step treats the facts as FactsStep says.
LEMMA StepOK ==
  ASSUME Typed, [Next]_vars
  PROVE  FactsStep /\ Typed'
<1>1. CASE UNCHANGED vars
  <2>1. facts' = facts /\ op' = op
    BY <1>1 DEF vars
  <2>2. RestTyped
    BY <1>1 DEF vars, Typed, RestTyped
  <2> QED BY <2>1, <2>2, SameStep, OpKept, TypedAgain
<1>2. CASE Store
  BY <1>2, StoreOK
<1>3. ASSUME NEW p \in Procs, Correct(p) \/ Drift(p) \/ Reverify(p) \/ Abandon(p)
      PROVE  FactsStep /\ Typed'
  BY <1>3, CorrectOK, DriftOK, ReverifyOK, AbandonOK
<1>4. ASSUME NEW ref \in Refs, Turn(ref)
      PROVE  FactsStep /\ Typed'
  BY <1>4, TurnOK
<1>5. CASE TimePasses
  BY <1>5, TimeOK
<1> QED BY <1>1, <1>2, <1>3, <1>4, <1>5 DEF Next

LEMMA InitTyped ==
  ASSUME Init
  PROVE  Typed
<1>1. facts \in Seq(FactSet) /\ Len(facts) = 0 /\ cache \in Seq(LivenessEntry)
  BY DEF Init
<1>2. op \in [Procs -> OpSet] /\ \A p \in Procs : Refers(op[p], Ids)
  BY IdleRefers DEF Init
<1>3. /\ labels \in [1 .. MaxFacts -> [Labels -> Nat]]
      /\ upstream \in [Refs -> States]
      /\ turned = {r \in Refs : upstream[r] # "same"}
  BY DEF Init, States
<1> QED BY <1>1, <1>2, <1>3, FactsAssumption DEF Init, Typed, FactsAssumption

LEMMA AlwaysTyped == Spec => []Typed
<1>1. Init => Typed
  BY InitTyped
<1>2. Typed /\ [Next]_vars => Typed'
  BY StepOK
<1> QED BY <1>1, <1>2, PTL DEF Spec

\* The state keeps its types, whatever the processes do and wherever they stop.
THEOREM TypeCorrect == Spec => []TypeOK
<1>1. ASSUME Typed
      PROVE  TypeOK
  <2>1. \A f \in Ids : facts[f] \in FactSet
    BY <1>1 DEF Typed, Ids
  <2>2. \A f \in Ids :
          /\ facts[f].subject \in Subjects \cup {found.subject : found \in Extracted}
          /\ facts[f].text \in Texts \cup {found.text : found \in Extracted}
          /\ facts[f].status \in Statuses
          /\ facts[f].llm \in BOOLEAN /\ facts[f].aged \in BOOLEAN
          /\ facts[f].corr \in Nat \ {0} /\ facts[f].downs \in Nat
          /\ facts[f].ev # {}
    BY <2>1 DEF FactSet, Names, Bodies, Evidence
  <2>3. \A p \in Procs : op[p].kind \in Corrections \cup {"idle", "drift", "reverify"}
    <3>1. \A p \in Procs : op[p] \in OpSet
      BY <1>1 DEF Typed
    <3> QED BY <3>1 DEF OpSet, Idle, PendingOp, DriftOp, ReverifyOp
  <2> QED BY <1>1, <2>2, <2>3 DEF Typed, TypeOK, States
<1> QED BY <1>1, AlwaysTyped, PTL

-----------------------------------------------------------------------------
\* One fact of a cluster

LEMMA ClusterStep ==
  ASSUME Typed, OnePerCluster, FactsStep
  PROVE  OnePerCluster'
<1>1. Len(facts) \in Nat /\ Len(facts') \in {Len(facts), Len(facts) + 1}
  BY DEF Typed, FactsStep
<1>2. \A g \in Ids : facts'[g].subject = facts[g].subject /\ facts'[g].text = facts[g].text
  BY DEF FactsStep, Kept
<1>3. ASSUME NEW f \in 1 .. Len(facts'), NEW g \in 1 .. Len(facts'),
             facts'[f].subject = facts'[g].subject,
             ScrubAndHash(facts'[f].text) = ScrubAndHash(facts'[g].text)
      PROVE  f = g
  <2>1. ASSUME NEW x \in 1 .. Len(facts'), NEW y \in Ids, x \notin Ids,
               facts'[x].subject = facts'[y].subject,
               ScrubAndHash(facts'[x].text) = ScrubAndHash(facts'[y].text)
        PROVE  FALSE
    <3>1. Twin(facts'[x].subject, facts'[x].text) = {}
      BY <2>1 DEF FactsStep
    <3>2. y \in Twin(facts'[x].subject, facts'[x].text)
      BY <2>1, <1>2 DEF Twin
    <3> QED BY <3>1, <3>2
  <2>2. CASE f \in Ids /\ g \in Ids
    BY <1>2, <1>3, <2>2 DEF OnePerCluster
  <2>3. CASE f \notin Ids /\ g \in Ids
    BY <1>3, <2>1, <2>3
  <2>4. CASE f \in Ids /\ g \notin Ids
    BY <1>3, <2>1, <2>4
  <2>5. CASE f \notin Ids /\ g \notin Ids
    BY <1>1, <2>5 DEF Ids
  <2> QED BY <2>2, <2>3, <2>4, <2>5
<1> QED BY <1>3 DEF OnePerCluster, Ids

\* A symbol has one fact of a cluster, for any clustering of any texts, however many
\* processes mine, extract, propose and replace at a time.
THEOREM ClusterUnique == Spec => []OnePerCluster
<1>1. Init => OnePerCluster
  BY DEF Init, OnePerCluster, Ids
<1>2. Typed /\ OnePerCluster /\ [Next]_vars => OnePerCluster'
  BY StepOK, ClusterStep
<1> QED BY <1>1, <1>2, AlwaysTyped, PTL DEF Spec

-----------------------------------------------------------------------------
\* The corroboration gate

\* Inductive: what a model wrote and was corroborated has two references.
Earned ==
  \A f \in Ids :
    facts[f].llm /\ facts[f].corr # 1 =>
      \E d, e \in facts[f].ev : d.ref # e.ref

LEMMA EarnedStep ==
  ASSUME Typed, Earned, FactsStep
  PROVE  Earned'
<1> SUFFICES ASSUME NEW f \in 1 .. Len(facts'), facts'[f].llm, facts'[f].corr # 1
             PROVE  \E d, e \in facts'[f].ev : d.ref # e.ref
  BY DEF Earned, Ids
<1>1. CASE f \in Ids
  <2> DEFINE old == facts[f]
             new == facts'[f]
  <2>1. Kept(old, new)
    BY <1>1 DEF FactsStep
  <2>2. old.ev # {}
    <3>1. old \in FactSet
      BY <1>1 DEF Typed, Ids
    <3> QED BY <3>1 DEF FactSet, Evidence
  <2>3. old.llm /\ old.corr # 1 => \E d, e \in old.ev : d.ref # e.ref
    BY <1>1 DEF Earned
  <2> HIDE DEF old, new
  <2>4. CASE new.corr = old.corr /\ new.ev = old.ev
    BY <2>1, <2>3, <2>4 DEF Kept, new
  <2>5. CASE \E e \in new.ev : \A d \in old.ev : d.ref # e.ref
    <3>1. old.ev \subseteq new.ev
      BY <2>1 DEF Kept
    <3> QED BY <2>2, <2>5, <3>1 DEF new
  <2> QED BY <2>1, <2>4, <2>5 DEF Kept
<1>2. CASE f \notin Ids
  <2>1. facts'[f] \in NewFacts
    BY <1>2 DEF FactsStep
  <2> QED BY <2>1 DEF NewFacts
<1> QED BY <1>1, <1>2

\* A set with two elements has a cardinality of two or more.
LEMMA TwoElements ==
  ASSUME NEW S, IsFiniteSet(S), NEW a \in S, NEW b \in S, a # b
  PROVE  Cardinality(S) >= 2
<1>1. IsFiniteSet({a}) /\ Cardinality({a}) = 1
  BY FS_Singleton
<1>2. IsFiniteSet({a} \cup {b}) /\ Cardinality({a} \cup {b}) = 2
  <2>1. b \notin {a}
    OBVIOUS
  <2>2. /\ IsFiniteSet({a} \cup {b})
        /\ Cardinality({a} \cup {b}) = IF b \in {a} THEN Cardinality({a}) ELSE Cardinality({a}) + 1
    BY <1>1, FS_AddElement
  <2> QED BY <1>1, <2>1, <2>2
<1>3. Cardinality({a} \cup {b}) <= Cardinality(S)
  BY FS_Subset
<1>4. Cardinality(S) \in Nat
  BY FS_CardinalityType
<1> QED BY <1>2, <1>3, <1>4

LEMMA EarnedGate ==
  ASSUME Typed, Earned
  PROVE  GateEarned
<1> SUFFICES ASSUME NEW subject \in Subjects, NEW f \in Served(subject, TRUE),
                    facts[f].llm
             PROVE  Cardinality({e.ref : e \in facts[f].ev}) >= 2
  BY DEF GateEarned
<1> DEFINE ev == facts[f].ev
           ref == [e \in ev |-> e.ref]
           S == {e.ref : e \in ev}
<1>1. f \in Ids /\ facts[f].corr >= 2
  BY DEF Served, Raw, Servable
<1>2. facts[f] \in FactSet
  BY <1>1 DEF Typed, Ids
<1>3. IsFiniteSet(ev) /\ facts[f].corr # 1
  BY <1>1, <1>2 DEF FactSet, Evidence
<1>4. PICK d \in ev, e \in ev : d.ref # e.ref
  BY <1>1, <1>3 DEF Earned
<1>5. S = {ref[x] : x \in ev} /\ d.ref \in S /\ e.ref \in S
  OBVIOUS
<1> HIDE DEF ev, ref, S
<1>6. IsFiniteSet(S)
  <2>1. IsFiniteSet({ref[x] : x \in ev})
    BY <1>3, FiniteImage
  <2> QED BY <1>5, <2>1
<1>7. Cardinality(S) >= 2
  BY <1>4, <1>5, <1>6, TwoElements
<1> QED BY <1>7 DEF S, ev

\* What a model wrote is served past the gate only with two references behind it,
\* whatever wrote and merged the evidence.
THEOREM GateHolds == Spec => []GateEarned
<1>1. Init => Earned
  BY DEF Init, Earned, Ids
<1>2. Typed /\ Earned /\ [Next]_vars => Earned'
  BY StepOK, EarnedStep
<1>3. Typed /\ Earned => GateEarned
  BY EarnedGate
<1> QED BY <1>1, <1>2, <1>3, AlwaysTyped, PTL DEF Spec

-----------------------------------------------------------------------------
\* Facts endure

\* No step of any process rewrites a fact or brings one back to service.
THEOREM FactsKept == Spec => FactsEndure
<1> DEFINE Endures ==
      \A f \in Ids :
        LET old == facts[f]
            new == facts'[f]
        IN /\ new.text = old.text /\ new.hash = old.hash
           /\ new.llm = old.llm /\ new.subject = old.subject
           /\ old.ev \subseteq new.ev
           /\ \/ new.corr = old.corr /\ new.ev = old.ev
              \/ /\ new.corr = old.corr + 1
                 /\ \E e \in new.ev : \A d \in old.ev : d.ref # e.ref
           /\ old.status # "active" => new.status # "active"
<1>1. Typed /\ [Next]_vars => [Endures]_vars
  BY StepOK DEF FactsStep, Kept
<1> QED BY <1>1, AlwaysTyped, PTL DEF Spec, FactsEndure

-----------------------------------------------------------------------------
\* Why a fact goes stale

\* Inductive: every pass has its reasons, and what the cache has of a comment is no
\* surprise.
CacheTold == \A i \in 1 .. Len(cache) : cache[i].state # "same" => cache[i].ref \in turned
Witnessed == CacheTold /\ \A p \in Procs : Reasoned(op[p], facts)

\* What StaleForReason says of a step.
StaleReason ==
  \A f \in Ids :
    facts[f].status # "stale" /\ facts'[f].status = "stale" =>
      \/ EvidenceHashChanged(facts[f])
      \/ Comments(facts[f]) \cap turned # {}
      \/ f \in rejections'

\* No fact goes stale in the step.
NoneStale == \A f \in Ids : \/ facts'[f].status = facts[f].status
                            \/ facts'[f].status # "stale"

\* Evidence and comments are only added.
LEMMA EvidenceGrows ==
  ASSUME Typed, FactsStep, NEW f \in Ids
  PROVE  /\ EvidenceHashChanged(facts[f]) => EvidenceHashChanged(facts'[f])
         /\ Comments(facts[f]) \subseteq Comments(facts'[f])
<1>1. facts'[f].hash = facts[f].hash /\ facts[f].ev \subseteq facts'[f].ev
  BY DEF FactsStep, Kept
<1> QED BY <1>1 DEF EvidenceHashChanged, Comments

LEMMA ReasonedStill ==
  ASSUME Typed, FactsStep, NEW o, Refers(o, Ids), Reasoned(o, facts)
  PROVE  Reasoned(o, facts')
<1> SUFFICES ASSUME o.kind = "drift"
             PROVE  Reasoned(o, facts')
  BY DEF Reasoned
<1>1. \A i \in 1 .. Len(o.todo) : o.todo[i].fact \in Ids
  BY DEF Refers
<1>2. \A i \in 1 .. Len(o.todo) :
        /\ o.todo[i].changed => EvidenceHashChanged(facts'[o.todo[i].fact])
        /\ o.todo[i].refs \subseteq Comments(facts'[o.todo[i].fact])
  BY <1>1, EvidenceGrows DEF Reasoned
<1> QED BY <1>2 DEF Reasoned

LEMMA WitnessSame ==
  ASSUME Typed, FactsStep, Witnessed, op' = op, CacheTold'
  PROVE  Witnessed'
<1>1. \A p \in Procs : Refers(op[p], Ids) /\ Reasoned(op[p], facts)
  BY DEF Typed, Witnessed
<1>2. \A p \in Procs : Reasoned(op[p], facts')
  BY <1>1, ReasonedStill
<1> QED BY <1>2 DEF Witnessed

LEMMA WitnessMoved ==
  ASSUME Typed, FactsStep, Witnessed, CacheTold', NEW p \in Procs, NEW o,
         op' = [op EXCEPT ![p] = o], Refers(o, Ids), Reasoned(o, facts)
  PROVE  Witnessed'
<1>1. op \in [Procs -> OpSet]
      /\ \A q \in Procs : Refers(op[q], Ids) /\ Reasoned(op[q], facts)
  BY DEF Typed, Witnessed
<1>2. \A q \in Procs : Reasoned(op[q], facts')
  BY <1>1, ReasonedStill
<1>3. Reasoned(o, facts')
  BY ReasonedStill
<1>4. \A q \in Procs : op'[q] = IF q = p THEN o ELSE op[q]
  BY <1>1
<1> QED BY <1>2, <1>3, <1>4 DEF Witnessed

\* What is not a pass needs no reason.
LEMMA OtherReasoned ==
  ASSUME NEW o, NEW known, o.kind # "drift"
  PROVE  Reasoned(o, known)
BY DEF Reasoned

\* Jobs that derive from reasoned ones are reasoned.
LEMMA DerivedReasoned ==
  ASSUME NEW o, NEW q, NEW known, Derived(o, q), Reasoned(q, known),
         o.kind = "drift" => o.at # "probing"
  PROVE  Reasoned(o, known)
BY DEF Derived, Reasoned

-----------------------------------------------------------------------------

LEMMA StoreWitness ==
  ASSUME Typed, Witnessed, Store
  PROVE  Witnessed' /\ StaleReason
<1>1. FactsStep
  BY StoreOK
<1>2. op' = op /\ cache' = cache /\ turned' = turned
  BY DEF Store, Mine, Propose, Extract, Report, world
<1>3. Witnessed'
  <2>1. CacheTold'
    BY <1>2 DEF Witnessed, CacheTold
  <2> QED BY <1>1, <1>2, <2>1, WitnessSame
<1>4. NoneStale
  <2>1. ASSUME NEW subject \in Subjects, NEW text \in Texts, NEW ref \in Refs,
               Mine(subject, text, ref)
        PROVE  NoneStale
    BY <2>1, MinedFact, Upserted DEF Mine, NoneStale
  <2>2. ASSUME NEW subject \in Subjects, NEW text \in Texts, NEW ref \in Refs,
               NEW signed \in Signed, NEW hash \in {text, ref},
               Propose(subject, text, signed, ref, hash)
        PROVE  NoneStale
    <3>1. signed \in BOOLEAN
      BY FactsAssumption DEF FactsAssumption
    <3> QED BY <2>2, <3>1, ProposedFact, Upserted DEF Propose, NoneStale
  <2>3. ASSUME NEW found \in Extracted, Extract(found)
        PROVE  NoneStale
    BY <2>3, FoundFact, Upserted DEF Extract, NoneStale
  <2>4. ASSUME NEW f \in Ids, NEW reason \in Reasons, Report(f, reason)
        PROVE  NoneStale
    BY <2>4 DEF Report, NoneStale
  <2> QED BY <2>1, <2>2, <2>3, <2>4 DEF Store
<1> QED BY <1>3, <1>4 DEF NoneStale, StaleReason

LEMMA CorrectWitness ==
  ASSUME Typed, Witnessed, NEW p \in Procs, Correct(p)
  PROVE  Witnessed' /\ StaleReason
<1>1. FactsStep
  BY CorrectOK
<1>2. cache' = cache /\ turned' = turned
  BY DEF Correct, Delete, Command, ProposeChange, Mark, Record, Replace, world
<1>3. \E o : op' = [op EXCEPT ![p] = o] /\ Refers(o, Ids) /\ o.kind # "drift"
  <2>1. ASSUME NEW f \in Ids, NEW action \in Corrections,
               NEW new \in NewFacts \cup {Idle}, action # "delete" => new \in NewFacts,
               Starts(p, Change(action, f, new))
        PROVE  \E o : op' = [op EXCEPT ![p] = o] /\ Refers(o, Ids) /\ o.kind # "drift"
    <3> DEFINE o == Change(action, f, new)
    <3>1. Refers(o, Ids)
      BY <2>1, ChangeBegun
    <3>2. o.kind # "drift"
      BY DEF Change, Corrections
    <3>3. op' = [op EXCEPT ![p] = o]
      BY <2>1 DEF Starts
    <3> HIDE DEF o
    <3> QED BY <3>1, <3>2, <3>3
  <2>2. ASSUME NEW f \in Ids, Delete(p, f)
        PROVE  \E o : op' = [op EXCEPT ![p] = o] /\ Refers(o, Ids) /\ o.kind # "drift"
    BY <2>1, <2>2 DEF Delete, Corrections
  <2>3. ASSUME NEW f \in Ids, NEW action \in Changes \ {"delete"}, NEW text \in Texts,
               \/ Command(p, action, f, text)
               \/ \E subject \in Subjects, signed \in Signed, ref \in Refs :
                    ProposeChange(p, action, f, subject, text, signed, ref, text)
        PROVE  \E o : op' = [op EXCEPT ![p] = o] /\ Refers(o, Ids) /\ o.kind # "drift"
    <3>1. action \in Corrections
      BY FactsAssumption DEF FactsAssumption, Corrections
    <3>2. CASE Command(p, action, f, text)
      BY <2>1, <3>1, <3>2, ReplacementFact DEF Command
    <3>3. ASSUME NEW subject \in Subjects, NEW signed \in Signed, NEW ref \in Refs,
                 ProposeChange(p, action, f, subject, text, signed, ref, text)
          PROVE  \E o : op' = [op EXCEPT ![p] = o] /\ Refers(o, Ids) /\ o.kind # "drift"
      <4>1. signed \in BOOLEAN
        BY FactsAssumption DEF FactsAssumption
      <4> QED BY <2>1, <3>1, <3>3, <4>1, ProposedFact DEF ProposeChange
    <3> QED BY <2>3, <3>2, <3>3
  <2>4. ASSUME NEW at \in {"record", "replace"}, op[p].kind \in Corrections,
               at = "replace" => op[p].kind # "delete", Goes(p, at)
        PROVE  \E o : op' = [op EXCEPT ![p] = o] /\ Refers(o, Ids) /\ o.kind # "drift"
    <3> DEFINE o == [op[p] EXCEPT !.at = at]
    <3>1. Refers(o, Ids)
      BY <2>4, Further
    <3>2. o.kind = op[p].kind
      <4>1. op[p] \in PendingOp
        BY <2>4, Kinds
      <4> QED BY <4>1 DEF PendingOp
    <3>3. op' = [op EXCEPT ![p] = o]
      BY <2>4 DEF Goes
    <3> HIDE DEF o
    <3> QED BY <2>4, <3>1, <3>2, <3>3 DEF Corrections
  <2>5. ASSUME Ends(p)
        PROVE  \E o : op' = [op EXCEPT ![p] = o] /\ Refers(o, Ids) /\ o.kind # "drift"
    <3>1. op' = [op EXCEPT ![p] = Idle] /\ Refers(Idle, Ids)
      BY <2>5, IdleRefers DEF Ends
    <3>2. Idle.kind # "drift"
      BY DEF Idle
    <3> QED BY <3>1, <3>2
  <2>6. CASE Mark(p)
    BY <2>4, <2>6 DEF Mark, Is, Corrections
  <2>7. CASE Record(p)
    BY <2>4, <2>5, <2>7 DEF Record, Is
  <2>8. CASE Replace(p)
    BY <2>5, <2>8 DEF Replace
  <2> QED BY <2>2, <2>3, <2>6, <2>7, <2>8 DEF Correct
<1>4. Witnessed'
  <2>1. CacheTold'
    BY <1>2 DEF Witnessed, CacheTold
  <2> QED BY <1>1, <1>3, <2>1, OtherReasoned, WitnessMoved
<1>5. NoneStale
  <2>1. CASE Mark(p)
    <3> DEFINE status == IF op[p].kind = "delete" THEN "deleted" ELSE "superseded"
    <3>1. status \in Statuses /\ status # "stale" /\ SetStatus(op[p].fact, status)
      BY <2>1 DEF Mark, Statuses
    <3> HIDE DEF status
    <3> QED BY <3>1, StatusSet DEF NoneStale
  <2>2. CASE Replace(p)
    <3>1. op[p].new \in NewFacts
      BY <2>2, Kinds DEF Replace, Is, Refers
    <3> QED BY <2>2, <3>1, Upserted DEF Replace, NoneStale
  <2>3. CASE facts' = facts
    BY <2>3 DEF NoneStale
  <2> QED BY <2>1, <2>2, <2>3 DEF Correct, Delete, Command, ProposeChange, Record
<1> QED BY <1>4, <1>5 DEF NoneStale, StaleReason

\* A fact that a pass takes out of service has the reason of its job.
LEMMA StaleFor ==
  ASSUME Typed, NEW p \in Procs, Stale(p),
         \/ EvidenceHashChanged(facts[Job(p).fact])
         \/ Comments(facts[Job(p).fact]) \cap turned # {}
  PROVE  StaleReason
<1>1. \A g \in Ids : facts'[g].status = IF g = Job(p).fact THEN "stale"
                                       ELSE facts[g].status
  BY StatusSet DEF Stale, Statuses
<1> QED BY <1>1 DEF StaleReason

\* The first job of a pass.
LEMMA FirstJob ==
  ASSUME Typed, Witnessed, NEW p \in Procs, op[p].kind = "drift"
  PROVE  /\ Job(p).changed => EvidenceHashChanged(facts[Job(p).fact])
         /\ Job(p).refs \subseteq Comments(facts[Job(p).fact])
         /\ op[p].at = "probing" => op[p].ref \in Job(p).refs
<1>1. op[p] \in DriftOp /\ Refers(op[p], Ids) /\ Reasoned(op[p], facts)
  BY Kinds DEF Witnessed
<1>2. op[p].todo \in Seq(JobSet) /\ op[p].todo # <<>>
  BY <1>1 DEF DriftOp, Refers
<1>3. 1 \in 1 .. Len(op[p].todo) /\ Head(op[p].todo) = op[p].todo[1]
  BY <1>2
<1> QED BY <1>1, <1>3 DEF Reasoned, Job

\* On to the next job.
LEMMA NextWitness ==
  ASSUME Typed, FactsStep, Witnessed, CacheTold', NEW p \in Procs,
         op[p].kind = "drift", Next1(p)
  PROVE  Witnessed'
<1>1. PICK o \in OpSet : /\ op' = [op EXCEPT ![p] = o] /\ Refers(o, Ids)
                         /\ Derived(o, op[p])
                         /\ o.kind = "drift" => o.at = "check"
  BY NextJob
<1>2. Reasoned(op[p], facts)
  BY DEF Witnessed
<1>3. Reasoned(o, facts)
  BY <1>1, <1>2, DerivedReasoned
<1> QED BY <1>1, <1>3, WitnessMoved

LEMMA SoundWitness ==
  ASSUME Typed, FactsStep, Witnessed, CacheTold', NEW p \in Procs,
         op[p].kind = "drift", Sound(p)
  PROVE  Witnessed'
<1>1. PICK o \in OpSet : /\ op' = [op EXCEPT ![p] = o] /\ Refers(o, Ids)
                        /\ Derived(o, op[p]) /\ o.kind = "drift" /\ o.at = "check"
  BY SoundJob
<1>2. Reasoned(op[p], facts)
  BY DEF Witnessed
<1>3. Reasoned(o, facts)
  BY <1>1, <1>2, DerivedReasoned
<1> QED BY <1>1, <1>3, WitnessMoved

\* A comment settled without a call.
LEMMA SettledWitness ==
  ASSUME Typed, FactsStep, Witnessed, CacheTold', NEW p \in Procs,
         op[p].kind = "drift", op[p].at = "check", NEW ref,
         op' = [op EXCEPT ![p].todo[1].refs = @ \ {ref}]
  PROVE  Witnessed'
<1> DEFINE o == [op[p] EXCEPT !.todo[1].refs = @ \ {ref}]
<1>1. op' = [op EXCEPT ![p] = o]
  OBVIOUS
<1>2. Refers(o, Ids) /\ Derived(o, op[p]) /\ o.at = "check"
  BY SettledJob
<1> HIDE DEF o
<1>3. Reasoned(op[p], facts)
  BY DEF Witnessed
<1>4. Reasoned(o, facts)
  BY <1>2, <1>3, DerivedReasoned
<1> QED BY <1>1, <1>2, <1>4, WitnessMoved

LEMMA ToldWithout ==
  ASSUME Typed, CacheTold, NEW ref
  PROVE  \A i \in 1 .. Len(Without(ref)) :
           Without(ref)[i].state # "same" => Without(ref)[i].ref \in turned
BY WithoutOK DEF From, CacheTold

LEMMA DriftWitness ==
  ASSUME Typed, Witnessed, NEW p \in Procs, Drift(p)
  PROVE  Witnessed' /\ StaleReason
<1>0. FactsStep /\ CacheTold /\ Reasoned(op[p], facts)
  BY DriftOK DEF Witnessed
<1>1. CASE CheckTribal(p)
  <2> DEFINE active == {f \in Ids : facts[f].status = "active"}
             Check(f) == [fact |-> f, changed |-> EvidenceHashChanged(facts[f]),
                          refs |-> Comments(facts[f])]
             o(order) == [kind |-> "drift", at |-> "check", ref |-> Idle,
                          todo |-> [i \in 1 .. Cardinality(active) |-> Check(order[i])]]
  <2>1. PICK order \in [1 .. Cardinality(active) -> active] :
          /\ active # {} /\ Starts(p, o(order))
          /\ UNCHANGED <<facts, labels, world, unrecorded, rejections>>
    BY <1>1 DEF CheckTribal
  <2>2. Refers(o(order), Ids) /\ Reasoned(o(order), facts)
    BY <2>1, CheckBegun
  <2>3. op' = [op EXCEPT ![p] = o(order)] /\ facts' = facts
        /\ cache' = cache /\ turned' = turned
    BY <2>1 DEF Starts, world
  <2> HIDE DEF o
  <2>4. CacheTold'
    BY <1>0, <2>3 DEF CacheTold
  <2>5. Witnessed'
    BY <1>0, <2>2, <2>3, <2>4, WitnessMoved
  <2> QED BY <2>3, <2>5 DEF StaleReason
<1>2. CASE CheckEvidence(p)
  <2>1. op[p].kind = "drift" /\ Stale(p) /\ Job(p).changed
        /\ cache' = cache /\ turned' = turned
    BY <1>2 DEF CheckEvidence, Is, world
  <2>2. CacheTold'
    BY <1>0, <2>1 DEF CacheTold
  <2>3. StaleReason
    BY <2>1, FirstJob, StaleFor
  <2> QED BY <1>0, <2>1, <2>2, <2>3, NextWitness DEF Stale
<1>3. CASE CheckDone(p)
  <2>1. op[p].kind = "drift" /\ Next1(p) /\ facts' = facts
        /\ cache' = cache /\ turned' = turned
    BY <1>3 DEF CheckDone, Is, world
  <2>2. CacheTold'
    BY <1>0, <2>1 DEF CacheTold
  <2> QED BY <1>0, <2>1, <2>2, NextWitness DEF StaleReason
<1>4. ASSUME NEW ref \in Refs, ProbeCached(p, ref)
      PROVE  Witnessed' /\ StaleReason
  <2>1. PICK i \in Cached(ref) :
          /\ cache' = <<cache[i]>> \o Without(ref)
          /\ IF cache[i].state = "same"
             THEN /\ op' = [op EXCEPT ![p].todo[1].refs = @ \ {ref}]
                  /\ UNCHANGED facts
             ELSE Stale(p)
    BY <1>4 DEF ProbeCached
  <2>2. op[p].kind = "drift" /\ op[p].at = "check" /\ ref \in Job(p).refs
        /\ turned' = turned
    BY <1>4 DEF ProbeCached, Is
  <2>3. i \in 1 .. Len(cache) /\ cache[i].ref = ref /\ cache[i] \in LivenessEntry
    BY DEF Cached, Typed
  <2>4. CacheTold'
    <3>1. \A j \in 1 .. Len(cache') :
            cache'[j] = cache[i]
            \/ \E k \in 1 .. Len(Without(ref)) : cache'[j] = Without(ref)[k]
      BY <2>1, <2>3, WithoutOK, FrontPushed
    <3> QED BY <1>0, <2>2, <2>3, <3>1, ToldWithout DEF CacheTold
  <2>5. CASE cache[i].state = "same"
    <3>1. facts' = facts
      BY <2>1, <2>5
    <3>2. Witnessed'
      BY <1>0, <2>1, <2>2, <2>4, <2>5, SettledWitness
    <3> QED BY <3>1, <3>2 DEF StaleReason
  <2>6. CASE cache[i].state # "same"
    <3>1. Stale(p)
      BY <2>1, <2>6
    <3>2. ref \in turned
      BY <1>0, <2>3, <2>6 DEF CacheTold
    <3>3. StaleReason
      BY <2>2, <3>1, <3>2, FirstJob, StaleFor
    <3> QED BY <1>0, <2>2, <2>4, <3>1, <3>3, NextWitness DEF Stale
  <2> QED BY <2>5, <2>6
<1>5. ASSUME NEW ref \in Refs, ProbeExhausted(p, ref)
      PROVE  Witnessed' /\ StaleReason
  <2>1. /\ op' = [op EXCEPT ![p].todo[1].refs = @ \ {ref}] /\ facts' = facts
        /\ op[p].kind = "drift" /\ op[p].at = "check"
        /\ cache' = Without(ref) /\ turned' = turned
    BY <1>5 DEF ProbeExhausted, Is
  <2>2. CacheTold'
    BY <1>0, <2>1, ToldWithout DEF CacheTold
  <2>3. Witnessed'
    BY <1>0, <2>1, <2>2, SettledWitness
  <2> QED BY <2>1, <2>3 DEF StaleReason
<1>6. ASSUME NEW ref \in Refs, ProbeCalls(p, ref)
      PROVE  Witnessed' /\ StaleReason
  <2> DEFINE q == [op[p] EXCEPT !.at = "probing"]
             o == [q EXCEPT !.ref = ref]
  <2>1. op' = [op EXCEPT ![p] = o] /\ facts' = facts /\ op[p].kind = "drift"
        /\ cache' = Without(ref) /\ turned' = turned /\ ref \in Job(p).refs
    BY <1>6 DEF ProbeCalls, Is
  <2>2. op[p] \in DriftOp /\ Refers(op[p], Ids)
    BY <2>1, Kinds
  <2>3. q \in DriftOp /\ q.todo = op[p].todo
    BY <2>2 DEF DriftOp
  <2> HIDE DEF q
  <2>4. /\ o.todo = op[p].todo /\ o.ref = ref /\ o.kind = "drift"
    BY <2>3 DEF DriftOp
  <2> HIDE DEF o
  <2>5. Refers(o, Ids)
    BY <2>1, <2>2, <2>4 DEF Refers, Corrections
  <2>6. Reasoned(o, facts)
    BY <1>0, <2>1, <2>4 DEF Reasoned, Job
  <2>7. CacheTold'
    BY <1>0, <2>1, ToldWithout DEF CacheTold
  <2>8. Witnessed'
    BY <1>0, <2>1, <2>5, <2>6, <2>7, WitnessMoved
  <2> QED BY <2>1, <2>8 DEF StaleReason
<1>7. CASE ProbeAnswered(p)
  <2> DEFINE e == [ref |-> op[p].ref, state |-> upstream[op[p].ref], fresh |-> TRUE]
  <2>1. op[p].kind = "drift" /\ op[p].at = "probing" /\ Put(e)
        /\ Judge(p, upstream[op[p].ref]) /\ turned' = turned
    BY <1>7 DEF ProbeAnswered, Is
  <2>2. op[p].ref \in Refs
    BY <2>1, Kinds DEF Refers
  <2>3. upstream[op[p].ref] # "same" => op[p].ref \in turned
    BY <2>2 DEF Typed
  <2>4. CacheTold'
    <3>1. e \in LivenessEntry /\ e.ref = op[p].ref /\ e.state = upstream[op[p].ref]
      BY <2>2 DEF LivenessEntry, Typed
    <3> HIDE DEF e
    <3>2. \A i \in 1 .. Len(cache') :
            cache'[i] = e \/ \E j \in 1 .. Len(cache) : cache'[i] = cache[j]
      BY <2>1, <3>1, PutOK
    <3> QED BY <1>0, <2>1, <2>3, <3>1, <3>2 DEF CacheTold
  <2>5. CASE upstream[op[p].ref] = "same"
    <3>1. Sound(p) /\ facts' = facts
      BY <2>1, <2>5 DEF Judge
    <3> QED BY <1>0, <2>1, <2>4, <3>1, SoundWitness DEF StaleReason
  <2>6. CASE upstream[op[p].ref] # "same"
    <3>1. Stale(p)
      BY <2>1, <2>6 DEF Judge
    <3>2. StaleReason
      BY <2>1, <2>3, <2>6, <3>1, FirstJob, StaleFor
    <3> QED BY <1>0, <2>1, <2>4, <3>1, <3>2, NextWitness DEF Stale
  <2> QED BY <2>5, <2>6
<1>8. CASE ProbeFails(p)
  <2>1. op[p].kind = "drift" /\ Sound(p) /\ facts' = facts
        /\ cache' = cache /\ turned' = turned
    BY <1>8 DEF ProbeFails, Is, world
  <2>2. CacheTold'
    BY <1>0, <2>1 DEF CacheTold
  <2> QED BY <1>0, <2>1, <2>2, SoundWitness DEF StaleReason
<1> QED BY <1>1, <1>2, <1>3, <1>4, <1>5, <1>6, <1>7, <1>8 DEF Drift

\* A verdict takes no fact out of service but one it rejects.
LEMMA VerifyStatus ==
  ASSUME Typed, NEW p \in Procs, NEW f \in Ids,
         NEW verdict \in {"accept", "downgrade", "reject"}, Verify(p, f, verdict)
  PROVE  \A g \in Ids : \/ facts'[g].status = facts[g].status
                        \/ facts'[g].status = "stale" /\ g \in rejections'
<1>1. facts \in Seq(FactSet) /\ Ids = DOMAIN facts
      /\ \A g \in Ids : facts[g] \in FactSet
  BY DEF Typed, Ids
<1>2. CASE verdict = "accept"
  <2> DEFINE x == [facts[f] EXCEPT !.aged = FALSE]
  <2>1. facts' = [facts EXCEPT ![f] = x] /\ x.status = facts[f].status
    BY <1>1, <1>2, Aged DEF Verify
  <2> HIDE DEF x
  <2> QED BY <1>1, <2>1
<1>3. CASE verdict = "downgrade"
  <2> DEFINE n == op[p].downs[f] + 1
             x == [facts[f] EXCEPT !.downs = n]
  <2>1. facts' = [facts EXCEPT ![f] = x]
    BY <1>3 DEF Verify
  <2> HIDE DEF n
  <2>2. x.status = facts[f].status
    BY <1>1 DEF FactSet
  <2> HIDE DEF x
  <2> QED BY <1>1, <2>1, <2>2
<1>4. CASE verdict = "reject"
  <2>1. SetStatus(f, "stale") /\ f \in rejections'
    BY <1>4 DEF Verify, SetStatus
  <2>2. \A g \in Ids : facts'[g].status = IF g = f THEN "stale" ELSE facts[g].status
    BY <2>1, StatusSet DEF Statuses
  <2> QED BY <2>1, <2>2
<1> QED BY <1>2, <1>3, <1>4

LEMMA ReverifyWitness ==
  ASSUME Typed, Witnessed, NEW p \in Procs, Reverify(p)
  PROVE  Witnessed' /\ StaleReason
<1>1. FactsStep
  BY ReverifyOK
<1>2. cache' = cache /\ turned' = turned
  BY DEF Reverify, ReverifyTribal, VerifyExhausted, Verify, world
<1>3. CacheTold'
  BY <1>2 DEF Witnessed, CacheTold
<1>4. Idle.kind # "drift" /\ Refers(Idle, Ids)
  BY IdleRefers DEF Idle
<1>5. CASE ReverifyTribal(p)
  <2>1. PICK sample \in SUBSET Eligible :
          /\ Starts(p, [kind |-> "reverify", at |-> "verify", calls |-> 0,
                        todo |-> sample, downs |-> [f \in sample |-> facts[f].downs]])
          /\ UNCHANGED <<facts, labels, world, unrecorded, rejections>>
    BY <1>5 DEF ReverifyTribal
  <2>2. op' \in [Procs -> OpSet] /\ op'[p].kind = "reverify" /\ facts' = facts
        /\ \A q \in Procs : q # p => op'[q] = op[q]
    <3>1. Typed' /\ op \in [Procs -> OpSet]
      BY <1>5, ReverifyOK DEF Typed, Reverify
    <3>2. op'[p] = [kind |-> "reverify", at |-> "verify", calls |-> 0,
                    todo |-> sample, downs |-> [f \in sample |-> facts[f].downs]]
      BY <2>1, <3>1 DEF Starts
    <3> QED BY <2>1, <3>1, <3>2 DEF Starts, Typed
  <2>3. \A q \in Procs : Reasoned(op'[q], facts)
    BY <2>2, OtherReasoned DEF Witnessed
  <2> QED BY <1>3, <2>2, <2>3 DEF Witnessed, StaleReason
<1>6. CASE VerifyExhausted(p)
  <2>1. op' = [op EXCEPT ![p] = Idle] /\ facts' = facts
    BY <1>6 DEF VerifyExhausted, Ends
  <2>2. Witnessed'
    BY <1>1, <1>3, <1>4, <2>1, OtherReasoned, WitnessMoved
  <2> QED BY <2>1, <2>2 DEF StaleReason
<1>7. ASSUME NEW f \in Ids, NEW verdict \in {"accept", "downgrade", "reject"},
             Verify(p, f, verdict)
      PROVE  Witnessed' /\ StaleReason
  <2>1. op[p].kind = "reverify" /\ op[p] \in ReverifyOp
        /\ op \in [Procs -> OpSet] /\ op' \in [Procs -> OpSet]
    BY <1>7, Kinds, ReverifyOK DEF Verify, Is, Reverify, Typed
  <2>2. op'[p].kind # "drift" /\ \A q \in Procs : q # p => op'[q] = op[q]
    <3>1. CASE op[p].todo = {f}
      BY <1>4, <1>7, <2>1, <3>1 DEF Verify, Ends
    <3>2. CASE op[p].todo # {f}
      <4> DEFINE q == [op[p] EXCEPT !.todo = @ \ {f}]
                 o == [q EXCEPT !.calls = @ + 1]
      <4>1. q \in ReverifyOp
        BY <2>1 DEF ReverifyOp
      <4>2. op' = [op EXCEPT ![p] = o]
        BY ZenonT(80), <1>7, <3>2 DEF Verify
      <4> HIDE DEF q
      <4>3. o.kind = "reverify"
        BY <4>1 DEF ReverifyOp
      <4> HIDE DEF o
      <4> QED BY <2>1, <4>2, <4>3
    <3> QED BY <3>1, <3>2
  <2>3. \A q \in Procs : Reasoned(op'[q], facts')
    <3>1. \A q \in Procs : Refers(op[q], Ids) /\ Reasoned(op[q], facts)
      BY DEF Typed, Witnessed
    <3>2. \A q \in Procs : Reasoned(op[q], facts')
      BY <1>1, <3>1, ReasonedStill
    <3> QED BY <2>2, <3>2, OtherReasoned
  <2>4. StaleReason
    BY <1>7, VerifyStatus DEF StaleReason
  <2> QED BY <1>3, <2>3, <2>4 DEF Witnessed
<1> QED BY <1>5, <1>6, <1>7 DEF Reverify

LEMMA StepWitness ==
  ASSUME Typed, Witnessed, [Next]_vars
  PROVE  Witnessed' /\ [StaleReason]_vars
<1>1. FactsStep
  BY StepOK
<1>2. CASE UNCHANGED vars
  <2>1. CacheTold'
    BY <1>2 DEF vars, Witnessed, CacheTold
  <2> QED BY <1>1, <1>2, <2>1, WitnessSame DEF vars
<1>3. CASE Store
  BY <1>3, StoreWitness
<1>4. ASSUME NEW p \in Procs, Correct(p) \/ Drift(p) \/ Reverify(p) \/ Abandon(p)
      PROVE  Witnessed' /\ StaleReason
  <2>1. CASE Abandon(p)
    <3>1. op' = [op EXCEPT ![p] = Idle] /\ facts' = facts
          /\ cache' = cache /\ turned' = turned
      BY <2>1 DEF Abandon, Ends, world
    <3>2. CacheTold'
      BY <3>1 DEF Witnessed, CacheTold
    <3>3. Reasoned(Idle, facts) /\ Refers(Idle, Ids)
      BY IdleRefers, OtherReasoned DEF Idle
    <3>4. Witnessed'
      BY <1>1, <3>1, <3>2, <3>3, WitnessMoved
    <3> QED BY <3>1, <3>4 DEF StaleReason
  <2> QED BY <1>4, <2>1, CorrectWitness, DriftWitness, ReverifyWitness
<1>5. ASSUME NEW ref \in Refs, Turn(ref)
      PROVE  Witnessed' /\ StaleReason
  <2>1. facts' = facts /\ op' = op /\ cache' = cache /\ turned \subseteq turned'
    BY <1>5 DEF Turn
  <2>2. CacheTold'
    BY <2>1 DEF Witnessed, CacheTold
  <2> QED BY <1>1, <2>1, <2>2, WitnessSame DEF StaleReason
<1>6. CASE TimePasses
  <2>1. op' = op /\ turned' = turned
        /\ facts' = [f \in Ids |-> [facts[f] EXCEPT !.aged = TRUE]]
        /\ cache' = [i \in 1 .. Len(cache) |-> [cache[i] EXCEPT !.fresh = FALSE]]
    BY <1>6 DEF TimePasses
  <2>2. CacheTold'
    <3>1. cache \in Seq(LivenessEntry) /\ cache' \in Seq(LivenessEntry)
      BY <1>6, TimeOK DEF Typed
    <3>2. \A x \in LivenessEntry : /\ [x EXCEPT !.fresh = FALSE].state = x.state
                                 /\ [x EXCEPT !.fresh = FALSE].ref = x.ref
      BY DEF LivenessEntry
    <3>3. Len(cache') = Len(cache)
      BY <2>1, <3>1
    <3>4. ASSUME NEW i \in 1 .. Len(cache)
          PROVE  cache'[i].state = cache[i].state /\ cache'[i].ref = cache[i].ref
      <4>1. cache[i] \in LivenessEntry
        BY <3>1
      <4>2. cache'[i] = [cache[i] EXCEPT !.fresh = FALSE]
        BY <2>1
      <4> QED BY <3>2, <4>1, <4>2
    <3> QED BY <2>1, <3>3, <3>4 DEF Witnessed, CacheTold
  <2>3. ASSUME NEW f \in Ids
        PROVE  facts'[f].status = facts[f].status
    <3>1. facts[f] \in FactSet
      BY DEF Typed, Ids
    <3>2. facts'[f] = [facts[f] EXCEPT !.aged = TRUE]
      BY <2>1
    <3> QED BY <3>1, <3>2, Aged
  <2> QED BY <1>1, <2>1, <2>2, <2>3, WitnessSame DEF StaleReason
<1> QED BY <1>2, <1>3, <1>4, <1>5, <1>6 DEF Next

\* No fact goes stale without a reason: not by a pass that read it long ago, not by
\* an answer of the cache, not by a spent budget or a lost answer.
THEOREM StaleJustified == Spec => StaleForReason
<1> DEFINE Justified ==
      \A f \in Ids :
        facts[f].status # "stale" /\ facts'[f].status = "stale" =>
          \/ EvidenceHashChanged(facts[f])
          \/ Comments(facts[f]) \cap turned # {}
          \/ f \in rejections'
<1>1. Init => Witnessed
  BY OtherReasoned DEF Init, Witnessed, CacheTold, Idle
<1>2. Typed /\ Witnessed /\ [Next]_vars => Witnessed'
  BY StepWitness
<1>3. Typed /\ Witnessed /\ [Next]_vars => [Justified]_vars
  BY StepWitness DEF StaleReason
<1> QED BY <1>1, <1>2, <1>3, AlwaysTyped, PTL DEF Spec, StaleForReason

-----------------------------------------------------------------------------
\* What withdraws a fact leaves its correction row

Recording(p) == Is(p, {"supersede", "delete"}, "record")
Counted(f) == \E l \in {"supersede", "delete"} : labels[f][l] > 0

\* A step that withdraws nothing, forgets no row, and leaves no process short of its
\* row without the row or the mark that it stopped.
LEMMA RetiredStill ==
  ASSUME Typed, RetiredRecorded, FactsStep,
         \A f \in Ids : facts'[f].status \in Withdrawals
                          => facts[f].status \in Withdrawals,
         \A f \in Ids : Counted(f) => Counted(f)',
         unrecorded \subseteq unrecorded',
         \A p \in Procs, f \in Ids : Recording(p) /\ op[p].fact = f =>
           op'[p] = op[p] \/ f \in unrecorded' \/ Counted(f)'
  PROVE  RetiredRecorded'
<1> SUFFICES ASSUME NEW f \in 1 .. Len(facts'), facts'[f].status \in Withdrawals
             PROVE  \/ Counted(f)'
                    \/ f \in unrecorded'
                    \/ \E p \in Procs : Recording(p)' /\ op'[p].fact = f
  BY DEF RetiredRecorded, Ids, Counted, Recording
<1>1. f \in Ids
  <2>1. CASE f \notin Ids
    <3>1. facts'[f] \in NewFacts
      BY <2>1 DEF FactsStep
    <3> QED BY <3>1 DEF NewFacts, Withdrawals
  <2> QED BY <2>1
<1>2. Counted(f) \/ f \in unrecorded \/ \E p \in Procs : Recording(p) /\ op[p].fact = f
  BY <1>1 DEF RetiredRecorded, Counted, Recording
<1>3. ASSUME NEW p \in Procs, Recording(p), op[p].fact = f, op'[p] = op[p]
      PROVE  Recording(p)' /\ op'[p].fact = f
  BY <1>3 DEF Recording, Is
<1> QED BY <1>1, <1>2, <1>3

\* One process moves from a step that owes no row; no label is touched.
LEMMA RetiredMoved ==
  ASSUME Typed, RetiredRecorded, FactsStep, NEW p \in Procs, ~Recording(p),
         \A f \in Ids : facts'[f].status \in Withdrawals
                          => facts[f].status \in Withdrawals,
         NEW o, op' = [op EXCEPT ![p] = o] \/ op' = op,
         labels' = labels, unrecorded' = unrecorded
  PROVE  RetiredRecorded'
<1>1. \A q \in Procs : Recording(q) => op'[q] = op[q]
  BY DEF Typed
<1>2. \A f \in Ids : Counted(f) => Counted(f)'
  BY DEF Counted
<1> QED BY <1>1, <1>2, RetiredStill

LEMMA CountedStill ==
  ASSUME Typed, NEW f \in Ids, NEW l \in Labels, Label(f, l)
  PROVE  /\ \A g \in Ids : Counted(g) => Counted(g)'
         /\ l \in {"supersede", "delete"} => Counted(f)'
<1>1. labels \in [1 .. MaxFacts -> [Labels -> Nat]] /\ Ids \subseteq 1 .. MaxFacts
  BY FactsAssumption DEF Typed, Ids, FactsAssumption
<1>2. \A g \in Ids : labels[g] \in [Labels -> Nat]
  BY <1>1
<1>3. labels' = [labels EXCEPT ![f] = [labels[f] EXCEPT ![l] = @ + 1]]
  BY DEF Label
<1>4. \A g \in Ids : labels'[g] = IF g = f THEN [labels[f] EXCEPT ![l] = @ + 1]
                                ELSE labels[g]
  BY <1>1, <1>3
<1>5. \A g \in Ids, k \in Labels :
        labels'[g][k] = IF g = f /\ k = l THEN labels[g][k] + 1 ELSE labels[g][k]
  BY <1>2, <1>4
<1>6. \A g \in Ids, k \in Labels : labels[g][k] \in Nat
  BY <1>2
<1>7. {"supersede", "delete"} \subseteq Labels
  BY DEF Labels, Corrections
<1> QED BY <1>5, <1>6, <1>7 DEF Counted

LEMMA RetiredStep ==
  ASSUME Typed, RetiredRecorded, [Next]_vars
  PROVE  RetiredRecorded'
<1>1. FactsStep
  BY StepOK
<1>2. CASE UNCHANGED vars
  BY <1>2 DEF vars, RetiredRecorded, Ids, Is
<1>3. CASE Store
  <2>1. op' = op /\ unrecorded' = unrecorded
    BY <1>3 DEF Store, Mine, Propose, Extract, Report, world
  <2>2. \A f \in Ids : facts'[f].status \in Withdrawals
                         => facts[f].status \in Withdrawals
    <3>1. ASSUME NEW subject \in Subjects, NEW text \in Texts, NEW ref \in Refs,
                 Mine(subject, text, ref)
          PROVE  \A f \in Ids : facts'[f].status = facts[f].status
      BY <3>1, MinedFact, Upserted DEF Mine
    <3>2. ASSUME NEW subject \in Subjects, NEW text \in Texts, NEW ref \in Refs,
                 NEW signed \in Signed, NEW hash \in {text, ref},
                 Propose(subject, text, signed, ref, hash)
          PROVE  \A f \in Ids : facts'[f].status = facts[f].status
      <4>1. signed \in BOOLEAN
        BY FactsAssumption DEF FactsAssumption
      <4> QED BY <3>2, <4>1, ProposedFact, Upserted DEF Propose
    <3>3. ASSUME NEW found \in Extracted, Extract(found)
          PROVE  \A f \in Ids : facts'[f].status = facts[f].status
      BY <3>3, FoundFact, Upserted DEF Extract
    <3>4. ASSUME NEW f \in Ids, NEW reason \in Reasons, Report(f, reason)
          PROVE  facts' = facts
      BY <3>4 DEF Report
    <3> QED BY <1>3, <3>1, <3>2, <3>3, <3>4 DEF Store
  <2>3. \A f \in Ids : Counted(f) => Counted(f)'
    <3>1. CASE labels' = labels
      BY <3>1 DEF Counted
    <3>2. ASSUME NEW f \in Ids, NEW reason \in Reasons, Report(f, reason)
          PROVE  \A g \in Ids : Counted(g) => Counted(g)'
      <4>1. reason \in Labels
        BY FactsAssumption DEF FactsAssumption
      <4> QED BY <3>2, <4>1, CountedStill DEF Report
    <3> QED BY <1>3, <3>1, <3>2 DEF Store, Mine, Propose, Extract
  <2> QED BY <1>1, <2>1, <2>2, <2>3, RetiredStill
<1>4. ASSUME NEW p \in Procs, Correct(p)
      PROVE  RetiredRecorded'
  <2>1. CASE facts' = facts /\ labels' = labels /\ unrecorded' = unrecorded
             /\ \E o : Starts(p, o)
    <3>1. PICK o : op[p] = Idle /\ op' = [op EXCEPT ![p] = o]
      BY <2>1 DEF Starts
    <3>2. ~Recording(p)
      BY <3>1 DEF Recording, Is, Idle
    <3> QED BY <1>1, <2>1, <3>1, <3>2, RetiredMoved
  <2>2. CASE Mark(p)
    <3> DEFINE status == IF op[p].kind = "delete" THEN "deleted" ELSE "superseded"
               o == [op[p] EXCEPT !.at = "record"]
    <3>1. status \in Statuses /\ SetStatus(op[p].fact, status) /\ labels' = labels
          /\ unrecorded' = unrecorded /\ op' = [op EXCEPT ![p] = o]
          /\ op[p].kind \in {"supersede", "delete"} /\ op[p].at = "mark"
      BY <2>2 DEF Mark, Statuses, Goes, Is
    <3>2. op[p] \in PendingOp
      BY <3>1, Kinds DEF Corrections
    <3>3. o.kind = op[p].kind /\ o.at = "record" /\ o.fact = op[p].fact
      BY <3>2 DEF PendingOp
    <3> HIDE DEF status, o
    <3>4. op'[p] = o /\ \A q \in Procs : q # p => op'[q] = op[q]
      BY <3>1 DEF Typed
    <3>5. \A g \in Ids : g # op[p].fact => facts'[g].status = facts[g].status
      BY <3>1, StatusSet
    <3> SUFFICES ASSUME NEW f \in 1 .. Len(facts'), facts'[f].status \in Withdrawals
                 PROVE  \/ Counted(f)
                        \/ f \in unrecorded
                        \/ \E q \in Procs : Recording(q)' /\ op'[q].fact = f
      BY <3>1 DEF RetiredRecorded, Ids, Counted, Recording
    <3>6. f \in Ids
      BY <3>1, StatusSet DEF Ids
    <3>7. CASE f = op[p].fact
      BY <3>1, <3>3, <3>4, <3>7 DEF Recording, Is
    <3>8. CASE f # op[p].fact
      <4>1. \/ Counted(f) \/ f \in unrecorded
            \/ \E q \in Procs : Recording(q) /\ op[q].fact = f
        BY <3>5, <3>6, <3>8 DEF RetiredRecorded, Counted, Recording
      <4>2. ASSUME NEW q \in Procs, Recording(q), op[q].fact = f
            PROVE  Recording(q)' /\ op'[q].fact = f
        BY <3>1, <3>4, <4>2 DEF Recording, Is
      <4> QED BY <4>1, <4>2
    <3> QED BY <3>7, <3>8
  <2>3. CASE Record(p)
    <3>1. op[p].kind \in Corrections /\ op[p].fact \in Ids
          /\ Label(op[p].fact, op[p].kind) /\ facts' = facts
          /\ unrecorded' = unrecorded
      BY <2>3, Kinds DEF Record, Is, Refers
    <3>2. op[p].kind \in Labels
      BY <3>1 DEF Labels
    <3>3. \A q \in Procs : q # p => op'[q] = op[q]
      BY <2>3 DEF Record, Ends, Goes, Typed
    <3>4. \A f \in Ids : Recording(p) /\ op[p].fact = f => Counted(f)'
      BY <3>1, <3>2, CountedStill DEF Recording, Is
    <3>5. \A f \in Ids : Counted(f) => Counted(f)'
      BY <3>1, <3>2, CountedStill
    <3> QED BY <1>1, <3>1, <3>3, <3>4, <3>5, RetiredStill
  <2>4. CASE Replace(p)
    <3>1. op[p].new \in NewFacts /\ Upsert(op[p].new) /\ labels' = labels
          /\ unrecorded' = unrecorded /\ op' = [op EXCEPT ![p] = Idle]
          /\ ~Recording(p)
      BY <2>4, Kinds DEF Replace, Is, Refers, Ends, Recording
    <3>2. \A f \in Ids : facts'[f].status = facts[f].status
      BY <3>1, Upserted
    <3> QED BY <1>1, <3>1, <3>2, RetiredMoved
  <2> QED BY <1>4, <2>1, <2>2, <2>3, <2>4 DEF Correct, Delete, Command, ProposeChange
<1>5. ASSUME NEW p \in Procs, Drift(p)
      PROVE  RetiredRecorded'
  <2>1. labels' = labels /\ unrecorded' = unrecorded
    BY <1>5 DEF Drift, CheckTribal, CheckEvidence, CheckDone, ProbeCached,
                ProbeExhausted, ProbeCalls, ProbeAnswered, ProbeFails, world
  <2>2. ~Recording(p)
    <3>1. op[p] = Idle \/ op[p].kind = "drift"
      BY <1>5 DEF Drift, CheckTribal, CheckEvidence, CheckDone, ProbeCached,
                  ProbeExhausted, ProbeCalls, ProbeAnswered, ProbeFails, Starts, Is
    <3> QED BY <3>1 DEF Recording, Is, Idle
  <2>3. facts' = facts \/ Stale(p)
    BY <1>5 DEF Drift, CheckTribal, CheckEvidence, CheckDone, ProbeCached,
                ProbeExhausted, ProbeCalls, ProbeAnswered, ProbeFails, Judge
  <2>4. \A f \in Ids : facts'[f].status \in Withdrawals
                         => facts[f].status \in Withdrawals
    <3>1. CASE Stale(p)
      BY <3>1, StatusSet DEF Stale, Statuses, Withdrawals
    <3> QED BY <2>3, <3>1
  <2>5. \A q \in Procs : q # p => op'[q] = op[q]
    BY <1>5 DEF Drift, CheckTribal, CheckEvidence, CheckDone, ProbeCached,
                ProbeExhausted, ProbeCalls, ProbeAnswered, ProbeFails, Starts,
                Judge, Stale, Next1, Sound, Ends, Typed
  <2>6. \A f \in Ids : Counted(f) => Counted(f)'
    BY <2>1 DEF Counted
  <2> QED BY <1>1, <2>1, <2>2, <2>4, <2>5, <2>6, RetiredStill
<1>6. ASSUME NEW p \in Procs, Reverify(p)
      PROVE  RetiredRecorded'
  <2>1. labels' = labels /\ unrecorded' = unrecorded
    BY <1>6 DEF Reverify, ReverifyTribal, VerifyExhausted, Verify, world
  <2>2. ~Recording(p)
    <3>1. op[p] = Idle \/ op[p].kind = "reverify"
      BY <1>6 DEF Reverify, ReverifyTribal, VerifyExhausted, Verify, Starts, Is
    <3> QED BY <3>1 DEF Recording, Is, Idle
  <2>3. \A f \in Ids : facts'[f].status \in Withdrawals
                         => facts[f].status \in Withdrawals
    <3>1. ASSUME NEW f \in Ids, NEW verdict \in {"accept", "downgrade", "reject"},
                 Verify(p, f, verdict)
          PROVE  \A g \in Ids : \/ facts'[g].status = facts[g].status
                               \/ facts'[g].status = "stale"
      BY <3>1, VerifyStatus
    <3> QED BY <1>6, <3>1 DEF Reverify, ReverifyTribal, VerifyExhausted, Withdrawals
  <2>4. \A q \in Procs : q # p => op'[q] = op[q]
    BY <1>6 DEF Reverify, ReverifyTribal, VerifyExhausted, Verify, Starts, Ends, Typed
  <2>5. \A f \in Ids : Counted(f) => Counted(f)'
    BY <2>1 DEF Counted
  <2> QED BY <1>1, <2>1, <2>2, <2>3, <2>4, <2>5, RetiredStill
<1>7. ASSUME NEW p \in Procs, Abandon(p)
      PROVE  RetiredRecorded'
  <2>1. labels' = labels /\ facts' = facts /\ unrecorded \subseteq unrecorded'
        /\ op' = [op EXCEPT ![p] = Idle]
        /\ (Recording(p) => op[p].fact \in unrecorded')
    BY <1>7 DEF Abandon, Ends, Recording
  <2>2. \A q \in Procs : q # p => op'[q] = op[q]
    BY <2>1 DEF Typed
  <2>3. \A f \in Ids : Counted(f) => Counted(f)'
    BY <2>1 DEF Counted
  <2> QED BY <1>1, <2>1, <2>2, <2>3, RetiredStill
<1>8. ASSUME NEW ref \in Refs, Turn(ref)
      PROVE  RetiredRecorded'
  BY <1>8 DEF Turn, RetiredRecorded, Ids, Is
<1>9. CASE TimePasses
  <2>1. \A f \in Ids : facts'[f].status = facts[f].status
    <3> TAKE f \in Ids
    <3>1. facts[f] \in FactSet
      BY DEF Typed, Ids
    <3>2. facts'[f] = [facts[f] EXCEPT !.aged = TRUE]
      BY <1>9 DEF TimePasses
    <3> QED BY <3>1, <3>2, Aged
  <2>2. op' = op /\ labels' = labels /\ unrecorded' = unrecorded
    BY <1>9 DEF TimePasses
  <2>3. \A f \in Ids : Counted(f) => Counted(f)'
    BY <2>2 DEF Counted
  <2> QED BY <1>1, <2>1, <2>2, <2>3, RetiredStill
<1> QED BY <1>2, <1>3, <1>4, <1>5, <1>6, <1>7, <1>8, <1>9 DEF Next

\* The half of WithdrawnCounted that the two transactions of a withdrawal put at
\* risk: whatever interleaves, a fact that is superseded or deleted has its row, or
\* the process that withdrew it is about to write it, or stopped just before.
THEOREM RetiredKept == Spec => []RetiredRecorded
<1>1. Init => RetiredRecorded
  BY DEF Init, RetiredRecorded, Ids
<1> QED BY <1>1, RetiredStep, AlwaysTyped, PTL DEF Spec

-----------------------------------------------------------------------------
\* The rate

LEMMA IdsFinite ==
  ASSUME Typed
  PROVE  Ids \subseteq 1 .. MaxFacts /\ IsFiniteSet(Ids)
<1>1. facts \in Seq(FactSet) /\ Len(facts) <= MaxFacts
  BY DEF Typed
<1>2. Len(facts) \in Nat
  BY <1>1
<1>3. 1 .. Len(facts) \subseteq 1 .. MaxFacts
  BY <1>1, <1>2, FactsAssumption DEF FactsAssumption
<1> QED BY <1>2, <1>3, FS_Interval DEF Ids

\* The rows of some labels are finitely many.
LEMMA RowsFinite ==
  ASSUME Typed, NEW kinds \in SUBSET Labels, IsFiniteSet(kinds)
  PROVE  IsFiniteSet(RowsOf(kinds))
<1> DEFINE pairs == Ids \X kinds
           parts == {{x} \X (1 .. labels[x[1]][x[2]]) : x \in pairs}
           part == [x \in pairs |-> {x} \X (1 .. labels[x[1]][x[2]])]
<1>1. Ids \subseteq 1 .. MaxFacts /\ IsFiniteSet(Ids)
  BY IdsFinite
<1>2. IsFiniteSet(pairs)
  BY <1>1, FS_Product
<1>3. RowsOf(kinds) = UNION parts
  BY DEF RowsOf
<1>4. \A x \in pairs : IsFiniteSet({x} \X (1 .. labels[x[1]][x[2]]))
  <2> TAKE x \in pairs
  <2>0. x[1] \in 1 .. MaxFacts /\ x[2] \in Labels
    BY <1>1
  <2>1. labels[x[1]][x[2]] \in Nat
    <3>1. labels[x[1]] \in [Labels -> Nat]
      BY <2>0 DEF Typed
    <3> QED BY <2>0, <3>1
  <2>2. IsFiniteSet(1 .. labels[x[1]][x[2]]) /\ IsFiniteSet({x})
    <3>1. 1 \in Int /\ labels[x[1]][x[2]] \in Int
      BY <2>1
    <3> QED BY <3>1, FS_Interval, FS_Singleton
  <2> QED BY <2>2, FS_Product
<1> HIDE DEF pairs
<1>5. part \in Surjection(pairs, parts)
  BY DEF Surjection
<1> HIDE DEF part
<1>6. IsFiniteSet(parts)
  <2> HIDE DEF parts
  <2> QED BY <1>2, <1>5, FS_Surjection
<1> QED BY <1>3, <1>4, <1>6, FS_UNION

\* A fact with a row of some label has a row of its own: there are no more such facts
\* than rows.
LEMMA FactsWithin ==
  ASSUME Typed, NEW kinds \in SUBSET Labels, IsFiniteSet(kinds),
         NEW S, S = {f \in Ids : \E l \in kinds : labels[f][l] > 0}
  PROVE  Cardinality(S) <= Cardinality(RowsOf(kinds))
<1> DEFINE label(f) == CHOOSE l \in kinds : labels[f][l] > 0
           row == [f \in S |-> <<<<f, label(f)>>, 1>>]
<1>1. \A f \in S : label(f) \in kinds /\ labels[f][label(f)] > 0
  OBVIOUS
<1>0. Ids \subseteq 1 .. MaxFacts
  BY IdsFinite
<1> HIDE DEF label
<1>2. \A f \in S : row[f] \in RowsOf(kinds)
  <2> TAKE f \in S
  <2>1. labels[f][label(f)] \in Nat
    <3>1. f \in 1 .. MaxFacts /\ label(f) \in Labels
      BY <1>0, <1>1
    <3>2. labels[f] \in [Labels -> Nat]
      BY <3>1 DEF Typed
    <3> QED BY <3>1, <3>2
  <2>2. 1 \in 1 .. labels[f][label(f)]
    BY <2>1, <1>1
  <2>3. row[f] \in {<<f, label(f)>>} \X (1 .. labels[f][label(f)])
    BY <2>2
  <2> DEFINE x == <<f, label(f)>>
  <2>4. x \in Ids \X kinds /\ x[1] = f /\ x[2] = label(f)
    BY <1>1
  <2> HIDE DEF row, x
  <2>5. row[f] \in {x} \X (1 .. labels[x[1]][x[2]])
    BY <2>3, <2>4 DEF x
  <2> QED BY <2>4, <2>5 DEF RowsOf
<1>3. row \in Injection(S, RowsOf(kinds))
  BY <1>2 DEF Injection, IsInjective
<1> HIDE DEF row
<1> QED BY <1>3, RowsFinite, FS_Injection

LEMMA RateTrue == Typed => RateHonest
<1> SUFFICES ASSUME Typed PROVE RateHonest
  OBVIOUS
<1> DEFINE kinds == {"wrong", "delete", "supersede"}
           S == {f \in Ids : \E l \in kinds : labels[f][l] > 0}
<1>1. kinds \in SUBSET Labels
  BY DEF Labels, Corrections
<1>2. IsFiniteSet(kinds)
  <2>1. IsFiniteSet({"wrong", "delete"})
    <3>1. IsFiniteSet({"wrong"})
      BY FS_Singleton
    <3>2. IsFiniteSet({"wrong"} \cup {"delete"})
      BY <3>1, FS_AddElement
    <3> QED BY <3>2
  <2>2. IsFiniteSet({"wrong", "delete"} \cup {"supersede"})
    BY <2>1, FS_AddElement
  <2> QED BY <2>2
<1>3. Cardinality(S) <= Hallucinations
  <2> HIDE DEF kinds
  <2> QED BY <1>1, <1>2, FactsWithin DEF Hallucinations, Total, kinds
<1>4. Cardinality(S) <= Cardinality(Labelled)
  <2>1. IsFiniteSet(Ids)
    BY IdsFinite
  <2>2. IsFiniteSet(Labelled)
    BY <2>1, FS_Subset DEF Labelled
  <2>3. S \subseteq Labelled
    BY <1>1 DEF Labelled
  <2> HIDE DEF S
  <2> QED BY <2>2, <2>3, FS_Subset
<1>5. S = {f \in Ids : \E l \in {"wrong", "supersede", "delete"} : labels[f][l] > 0}
  OBVIOUS
<1> QED BY <1>3, <1>4, <1>5 DEF RateHonest, HallucinationRate

\* No withdrawal is lost to the statistics: it left its row, unless the process stopped
\* between its two steps, and the hallucination rate counts every fact with such a row
\* (GetS4GateStats).
THEOREM WithdrawalsCounted == Spec => []WithdrawnCounted
<1>1. Typed /\ RetiredRecorded => WithdrawnCounted
  BY RateTrue DEF WithdrawnCounted
<1> QED BY <1>1, AlwaysTyped, RetiredKept, PTL
=============================================================================
