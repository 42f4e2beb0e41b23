--------------------------- MODULE EvergreenProofs ----------------------------
(***************************************************************************)
(* Proofs about the keyed limiter (KeyedLimiter) and the refreshes of the  *)
(* evergreen documents it throttles (EvergreenRefresh).                    *)
(*                                                                         *)
(* The limiter, for any set of keys and callers, every size of the lists   *)
(* and of the buckets, and every number of limiters and ticks: its         *)
(* invariants, and that its two lists implement one list of buckets in     *)
(* order of use (RecencyBuckets).                                          *)
(*                                                                         *)
(* The saved documents, for every number of documents, clients and         *)
(* sessions, every limit and every setting: the revision history is        *)
(* complete, the executor runs within the two buckets, what was done to a  *)
(* document is undone only by a refresh that had read it, and the detector *)
(* reports what became of the symbols a document cites.  TypeOK            *)
(* needs HistoryKept: MAX(revision_num) is a number because the numbers of *)
(* a document are those of its last answers, which are finitely many.      *)
(* Both are inductive only together (Kept).                                *)
(***************************************************************************)
EXTENDS EvergreenRefresh, KeyedLimiter, FiniteSetTheorems, FunctionTheorems,
        SequenceTheorems, WellFoundedInduction, TLAPS

-----------------------------------------------------------------------------
\* The keyed limiter: lists, most recently used first

\* A part of a list.
LEMMA Part ==
  ASSUME NEW E, NEW s \in Seq(E), NEW m \in Nat, NEW n \in Nat,
         0 < m, m <= n + 1, n <= Len(s),
         NEW k, k = n - m + 1, NEW p, p = SubSeq(s, m, n)
  PROVE  p \in Seq(E) /\ Len(p) = k /\ \A j \in 1 .. k : p[j] = s[m + j - 1]
<1>1. \A j \in m .. n : s[j] \in E
  OBVIOUS
<1> QED BY <1>1, SubSeqProperties

\* A list without its i-th entry.
LEMMA RemovedAt ==
  ASSUME NEW E, NEW s \in Seq(E), NEW i \in 1 .. Len(s)
  PROVE  /\ RemoveAt(s, i) \in Seq(E)
         /\ Len(RemoveAt(s, i)) = Len(s) - 1
         /\ \A j \in 1 .. Len(s) - 1 :
              RemoveAt(s, i)[j] = IF j < i THEN s[j] ELSE s[j + 1]
<1> DEFINE l == SubSeq(s, 1, i - 1)
           r == SubSeq(s, i + 1, Len(s))
<1>1. RemoveAt(s, i) = l \o r
  BY DEF RemoveAt
<1> HIDE DEF l, r
<1>2. l \in Seq(E) /\ Len(l) = i - 1 /\ \A j \in 1 .. i - 1 : l[j] = s[j]
  BY Part DEF l
<1>3. r \in Seq(E) /\ Len(r) = Len(s) - i /\ \A j \in 1 .. Len(s) - i : r[j] = s[i + j]
  BY Part DEF r
<1>4. l \o r \in Seq(E) /\ Len(l \o r) = Len(l) + Len(r)
  BY <1>2, <1>3, ConcatProperties
<1>5. ASSUME NEW j \in 1 .. Len(s) - 1
      PROVE  (l \o r)[j] = IF j < i THEN s[j] ELSE s[j + 1]
  <2>0. l \in Seq(E) /\ r \in Seq(E) /\ j \in 1 .. Len(l) + Len(r)
    BY <1>2, <1>3
  <2>1. (l \o r)[j] = IF j <= Len(l) THEN l[j] ELSE r[j - Len(l)]
    BY <2>0, ConcatProperties
  <2>2. CASE j < i
    <3>1. j \in 1 .. i - 1 /\ j <= i - 1
      BY <2>2
    <3> QED BY <1>2, <2>1, <2>2, <3>1
  <2>3. CASE ~(j < i)
    <3> DEFINE k == j - (i - 1)
    <3>1. Len(s) \in Nat /\ i \in Nat /\ j \in Nat
      OBVIOUS
    <3>2. k \in 1 .. Len(s) - i /\ i + k = j + 1 /\ ~(j <= i - 1)
      BY <2>3, <3>1
    <3> HIDE DEF k
    <3>3. (l \o r)[j] = r[k] /\ r[k] = s[i + k]
      BY <1>2, <1>3, <2>1, <3>2 DEF k
    <3> QED BY <2>3, <3>2, <3>3
  <2> QED BY <2>2, <2>3
<1> QED BY <1>1, <1>2, <1>3, <1>4, <1>5

\* A list without its last entry.
LEMMA FrontOf ==
  ASSUME NEW E, NEW s \in Seq(E), Len(s) > 0
  PROVE  /\ Front(s) \in Seq(E)
         /\ Len(Front(s)) = Len(s) - 1
         /\ \A j \in 1 .. Len(s) - 1 : Front(s)[j] = s[j]
         /\ Last(s) = s[Len(s)]
         /\ Last(s) \in E
<1>1. \E n \in Nat : Len(s) = n + 1
  <2>1. Len(s) \in Nat /\ Len(s) - 1 \in Nat /\ Len(s) = (Len(s) - 1) + 1
    OBVIOUS
  <2> QED BY <2>1
<1> PICK n \in Nat : Len(s) = n + 1
  BY <1>1
<1> DEFINE p == SubSeq(s, 1, n)
<1>2. Len(s) - 1 = n
  OBVIOUS
<1>3. Front(s) = p /\ Last(s) = s[Len(s)]
  BY <1>2 DEF Front, Last
<1> HIDE DEF p
<1>4. p \in Seq(E) /\ Len(p) = n /\ \A j \in 1 .. n : p[j] = s[j]
  BY Part DEF p
<1> QED BY <1>2, <1>3, <1>4

\* A list with an entry pushed to its front.
LEMMA Pushed ==
  ASSUME NEW E, NEW s \in Seq(E), NEW e \in E
  PROVE  /\ <<e>> \o s \in Seq(E)
         /\ Len(<<e>> \o s) = Len(s) + 1
         /\ (<<e>> \o s)[1] = e
         /\ \A j \in 1 .. Len(s) : (<<e>> \o s)[j + 1] = s[j]
OBVIOUS

-----------------------------------------------------------------------------
\* The entries of a list.
EntriesOf(s) == {s[i] : i \in 1 .. Len(s)}

\* No key occurs twice in a list.
Injective(s) == \A i, j \in 1 .. Len(s) : s[i].key = s[j].key => i = j

\* No key occurs in both lists.
Apart(s, t) == \A x \in EntriesOf(s), y \in EntriesOf(t) : x.key # y.key

\* Key k occurs in no entry of the list.
Free(s, k) == \A x \in EntriesOf(s) : x.key # k

-----------------------------------------------------------------------------
\* Lists

\* Taking an entry out of a list without duplicates takes its key out.
LEMMA RemovedEntries ==
  ASSUME NEW s \in Seq(Entry), Injective(s), NEW i \in 1 .. Len(s)
  PROVE  /\ EntriesOf(RemoveAt(s, i)) = EntriesOf(s) \ {s[i]}
         /\ Injective(RemoveAt(s, i))
         /\ Free(RemoveAt(s, i), s[i].key)
<1> DEFINE t == RemoveAt(s, i)
<1>0. Len(s) \in Nat
  OBVIOUS
<1>1. /\ Len(t) = Len(s) - 1
      /\ \A j \in 1 .. Len(s) - 1 : t[j] = IF j < i THEN s[j] ELSE s[j + 1]
  BY RemovedAt
<1> HIDE DEF t
<1>2. \A j \in 1 .. Len(t) : \E m \in 1 .. Len(s) : m # i /\ t[j] = s[m]
  <2> TAKE j \in 1 .. Len(t)
  <2>1. CASE j < i
    <3>1. j \in 1 .. Len(s) /\ j # i /\ t[j] = s[j]
      BY <2>1, <1>0, <1>1
    <3> QED BY <3>1
  <2>2. CASE ~(j < i)
    <3>1. j + 1 \in 1 .. Len(s) /\ j + 1 # i /\ t[j] = s[j + 1]
      BY <2>2, <1>0, <1>1
    <3> QED BY <3>1
  <2> QED BY <2>1, <2>2
<1>3. \A m \in 1 .. Len(s) : m # i => \E j \in 1 .. Len(t) : t[j] = s[m]
  <2> TAKE m \in 1 .. Len(s)
  <2>1. CASE m < i
    <3>1. m \in 1 .. Len(t) /\ t[m] = s[m]
      BY <2>1, <1>0, <1>1
    <3> QED BY <3>1
  <2>2. CASE m > i
    <3>1. m - 1 \in 1 .. Len(t) /\ ~(m - 1 < i) /\ (m - 1) + 1 = m
      BY <2>2, <1>0, <1>1
    <3>2. t[m - 1] = s[m]
      BY <3>1, <1>1
    <3> QED BY <3>1, <3>2
  <2> QED BY <2>1, <2>2, <1>0
<1>4. \A m \in 1 .. Len(s) : m # i => s[m].key # s[i].key /\ s[m] # s[i]
  BY DEF Injective
<1>5. EntriesOf(t) = EntriesOf(s) \ {s[i]}
  <2>1. \A x \in EntriesOf(t) : x \in EntriesOf(s) /\ x # s[i]
    BY <1>2, <1>4 DEF EntriesOf
  <2>2. \A x \in EntriesOf(s) : x # s[i] => x \in EntriesOf(t)
    BY <1>3 DEF EntriesOf
  <2> QED BY <2>1, <2>2
<1>6. Free(t, s[i].key)
  BY SMTT(30), <1>2, <1>4 DEF Free, EntriesOf
<1>7. Injective(t)
  <2> SUFFICES ASSUME NEW j \in 1 .. Len(t), NEW m \in 1 .. Len(t),
                      t[j].key = t[m].key
               PROVE  j = m
    BY DEF Injective
  <2> DEFINE at(n) == IF n < i THEN n ELSE n + 1
  <2>1. at(j) \in 1 .. Len(s) /\ at(m) \in 1 .. Len(s)
    BY <1>0, <1>1
  <2>2. t[j] = s[at(j)] /\ t[m] = s[at(m)]
    BY <1>0, <1>1
  <2>3. at(j) = at(m)
    <3> HIDE DEF at
    <3> QED BY <2>1, <2>2 DEF Injective
  <2> QED BY <2>3, <1>0, <1>1
<1> QED BY <1>5, <1>6, <1>7 DEF t

\* The same for the last entry.
LEMMA FrontEntries ==
  ASSUME NEW s \in Seq(Entry), Injective(s), Len(s) > 0
  PROVE  /\ EntriesOf(Front(s)) = EntriesOf(s) \ {Last(s)}
         /\ Last(s) \in EntriesOf(s)
         /\ Injective(Front(s))
         /\ Free(Front(s), Last(s).key)
<1> DEFINE t == Front(s)
<1>0. Len(s) \in Nat \ {0}
  OBVIOUS
<1>1. /\ Len(t) = Len(s) - 1
      /\ \A j \in 1 .. Len(s) - 1 : t[j] = s[j]
      /\ Last(s) = s[Len(s)]
  BY FrontOf
<1> HIDE DEF t
<1>2. \A m \in 1 .. Len(s) : m # Len(s) => s[m].key # s[Len(s)].key
  BY <1>0 DEF Injective
<1>3. \A m \in 1 .. Len(s) : m # Len(s) <=> m \in 1 .. Len(t)
  BY <1>0, <1>1
<1>4. \A m \in 1 .. Len(t) : m \in 1 .. Len(s) /\ t[m] = s[m]
  BY <1>0, <1>1
<1>5. Len(s) \in 1 .. Len(s)
  BY <1>0
<1>6. EntriesOf(t) = EntriesOf(s) \ {s[Len(s)]} /\ Free(t, s[Len(s)].key)
  BY <1>2, <1>3, <1>4, <1>5 DEF EntriesOf, Free
<1>7. Injective(t)
  BY <1>4 DEF Injective
<1>8. s[Len(s)] \in EntriesOf(s)
  BY <1>5 DEF EntriesOf
<1> QED BY <1>1, <1>6, <1>7, <1>8 DEF t

\* Pushing an entry whose key is free adds it and makes no duplicate.
LEMMA PushedEntries ==
  ASSUME NEW s \in Seq(Entry), NEW e \in Entry, Injective(s), Free(s, e.key)
  PROVE  /\ EntriesOf(<<e>> \o s) = {e} \cup EntriesOf(s)
         /\ Injective(<<e>> \o s)
<1> DEFINE t == <<e>> \o s
<1>0. Len(s) \in Nat
  OBVIOUS
<1>1. /\ Len(t) = Len(s) + 1
      /\ t[1] = e
      /\ \A j \in 1 .. Len(s) : t[j + 1] = s[j]
  BY Pushed
<1> HIDE DEF t
<1>2. \A j \in 1 .. Len(t) : j = 1 \/ (j - 1 \in 1 .. Len(s) /\ t[j] = s[j - 1])
  <2> TAKE j \in 1 .. Len(t)
  <2>1. CASE j # 1
    <3>1. j - 1 \in 1 .. Len(s) /\ (j - 1) + 1 = j
      BY <2>1, <1>0, <1>1
    <3> QED BY <3>1, <1>1
  <2> QED BY <2>1
<1>3. \A j \in 1 .. Len(s) : j + 1 \in 1 .. Len(t) /\ t[j + 1] = s[j]
  BY <1>0, <1>1
<1>4. 1 \in 1 .. Len(t)
  BY <1>0, <1>1
<1>5. EntriesOf(t) = {e} \cup EntriesOf(s)
  <2>1. \A x \in EntriesOf(t) : x = e \/ x \in EntriesOf(s)
    BY <1>1, <1>2 DEF EntriesOf
  <2>2. e \in EntriesOf(t) /\ \A x \in EntriesOf(s) : x \in EntriesOf(t)
    BY <1>1, <1>3, <1>4 DEF EntriesOf
  <2> QED BY <2>1, <2>2
<1>6. Injective(t)
  <2> SUFFICES ASSUME NEW j \in 1 .. Len(t), NEW m \in 1 .. Len(t),
                      t[j].key = t[m].key
               PROVE  j = m
    BY DEF Injective
  <2>1. CASE j = 1 /\ m = 1
    BY <2>1
  <2>2. CASE j = 1 /\ m # 1
    BY <2>2, <1>1, <1>2 DEF Free, EntriesOf
  <2>3. CASE j # 1 /\ m = 1
    BY <2>3, <1>1, <1>2 DEF Free, EntriesOf
  <2>4. CASE j # 1 /\ m # 1
    <3>1. j - 1 = m - 1
      BY ZenonT(80), <2>4, <1>2 DEF Injective
    <3> QED BY <3>1, <1>0, <1>1
  <2> QED BY <2>1, <2>2, <2>3, <2>4
<1> QED BY <1>5, <1>6 DEF t

-----------------------------------------------------------------------------
\* Room for an entry

\* What limiterForKey does to the two lists when the key is not active: no
\* key gets a second bucket, and none loses its own unless both lists were
\* full.
LEMMA Admitted ==
  ASSUME LimiterAssumption,
         active \in Seq(Entry), Len(active) <= MaxKeys, Injective(active),
         NEW snaps \in Seq(Entry), Len(snaps) <= MaxKeys, Injective(snaps),
         Apart(active, snaps),
         NEW e \in Entry, Free(active, e.key), Free(snaps, e.key),
         Admit(e, snaps)
  PROVE  /\ active' \in Seq(Entry) /\ Len(active') <= MaxKeys
         /\ snapshot' \in Seq(Entry) /\ Len(snapshot') <= MaxKeys
         /\ Injective(active') /\ Injective(snapshot')
         /\ Apart(active', snapshot')
         /\ e \in EntriesOf(active')
         /\ EntriesOf(active') \cup EntriesOf(snapshot')
              \subseteq {e} \cup EntriesOf(active) \cup EntriesOf(snaps)
         /\ Len(active) < MaxKeys \/ Len(snaps) < MaxKeys =>
              EntriesOf(active') \cup EntriesOf(snapshot')
                = {e} \cup EntriesOf(active) \cup EntriesOf(snaps)
         /\ Len(active') < MaxKeys => Len(active) < MaxKeys /\ snapshot' = snaps
<1>0. Len(active) \in Nat /\ Len(snaps) \in Nat /\ MaxKeys \in Nat \ {0}
  BY DEF LimiterAssumption
<1>1. CASE Len(active) >= MaxKeys
  <2> DEFINE last == Last(active)
             rest == Front(active)
             kept == IF Len(snaps) >= MaxKeys THEN Front(snaps) ELSE snaps
  <2>1. active' = <<e>> \o rest /\ snapshot' = <<last>> \o kept
    BY <1>1 DEF Admit, StoreSnapshot
  <2>2. Len(active) = MaxKeys /\ Len(active) > 0
    BY <1>0, <1>1
  <2>3. /\ rest \in Seq(Entry) /\ Len(rest) = MaxKeys - 1
        /\ last \in Entry
    BY <2>2, FrontOf
  <2>4. /\ EntriesOf(rest) = EntriesOf(active) \ {last}
        /\ last \in EntriesOf(active)
        /\ Injective(rest)
        /\ Free(rest, last.key)
    BY <2>2, FrontEntries
  <2>5. /\ kept \in Seq(Entry) /\ Len(kept) <= MaxKeys - 1
        /\ Injective(kept)
        /\ EntriesOf(kept) \subseteq EntriesOf(snaps)
        /\ Len(snaps) < MaxKeys => EntriesOf(kept) = EntriesOf(snaps)
    <3>1. CASE Len(snaps) >= MaxKeys
      <4>1. Len(snaps) > 0 /\ Len(snaps) = MaxKeys
        BY <3>1, <1>0
      <4>2. Front(snaps) \in Seq(Entry) /\ Len(Front(snaps)) = MaxKeys - 1
        BY <4>1, FrontOf
      <4>3. /\ EntriesOf(Front(snaps)) = EntriesOf(snaps) \ {Last(snaps)}
            /\ Injective(Front(snaps))
        BY <4>1, FrontEntries
      <4> QED BY <3>1, <4>1, <4>2, <4>3, <1>0
    <3>2. CASE ~(Len(snaps) >= MaxKeys)
      BY <3>2, <1>0
    <3> QED BY <3>1, <3>2
  <2> HIDE DEF last, rest, kept
  <2>6. Free(rest, e.key)
    BY <2>4 DEF Free
  <2>7. Free(kept, last.key)
    BY <2>4, <2>5 DEF Free, Apart
  <2>8. /\ active' \in Seq(Entry) /\ Len(active') = MaxKeys
        /\ EntriesOf(active') = {e} \cup EntriesOf(rest)
        /\ Injective(active')
    <3>1. <<e>> \o rest \in Seq(Entry) /\ Len(<<e>> \o rest) = Len(rest) + 1
      BY <2>3, Pushed
    <3>2. /\ EntriesOf(<<e>> \o rest) = {e} \cup EntriesOf(rest)
          /\ Injective(<<e>> \o rest)
      BY <2>3, <2>4, <2>6, PushedEntries
    <3>3. Len(rest) + 1 = MaxKeys
      BY <2>3, <1>0
    <3> QED BY <2>1, <3>1, <3>2, <3>3
  <2>9. /\ snapshot' \in Seq(Entry) /\ Len(snapshot') <= MaxKeys
        /\ EntriesOf(snapshot') = {last} \cup EntriesOf(kept)
        /\ Injective(snapshot')
    <3>1. <<last>> \o kept \in Seq(Entry) /\ Len(<<last>> \o kept) = Len(kept) + 1
      BY <2>3, <2>5, Pushed
    <3>2. /\ EntriesOf(<<last>> \o kept) = {last} \cup EntriesOf(kept)
          /\ Injective(<<last>> \o kept)
      BY <2>3, <2>5, <2>7, PushedEntries
    <3>3. Len(kept) \in Nat
      BY <2>5
    <3>4. Len(kept) + 1 <= MaxKeys
      BY <2>5, <3>3, <1>0
    <3> QED BY <2>1, <3>1, <3>2, <3>4
  <2>10. Apart(active', snapshot')
    <3> SUFFICES ASSUME NEW x \in EntriesOf(active'), NEW y \in EntriesOf(snapshot')
                 PROVE  x.key # y.key
      BY DEF Apart
    <3>1. (x = e \/ x \in EntriesOf(rest)) /\ (y = last \/ y \in EntriesOf(kept))
      BY <2>8, <2>9
    <3>2. CASE x = e
      BY <3>1, <3>2, <2>4, <2>5 DEF Free
    <3>3. CASE x \in EntriesOf(rest)
      BY <3>1, <3>3, <2>4, <2>5 DEF Free, Apart
    <3> QED BY <3>1, <3>2, <3>3
  <2>11. ~(Len(active') < MaxKeys)
    BY <2>8, <1>0
  <2>12. ~(Len(active) < MaxKeys)
    BY <1>1, <1>0
  <2> QED BY <2>4, <2>5, <2>8, <2>9, <2>10, <2>11, <2>12, <1>0
<1>2. CASE ~(Len(active) >= MaxKeys)
  <2>1. active' = <<e>> \o active /\ snapshot' = snaps
    BY <1>2 DEF Admit
  <2>2. <<e>> \o active \in Seq(Entry) /\ Len(<<e>> \o active) = Len(active) + 1
    BY Pushed
  <2>3. /\ EntriesOf(<<e>> \o active) = {e} \cup EntriesOf(active)
        /\ Injective(<<e>> \o active)
    BY PushedEntries
  <2>4. Len(active) + 1 <= MaxKeys /\ Len(active) < MaxKeys
    BY <1>0, <1>2
  <2>5. Apart(active', snapshot')
    BY <2>1, <2>3 DEF Apart, Free
  <2> QED BY <2>1, <2>2, <2>3, <2>4, <2>5
<1> QED BY <1>1, <1>2

-----------------------------------------------------------------------------
\* The inductive invariant

Residents == EntriesOf(active) \cup EntriesOf(snapshot)

\* No key has two buckets.
Placed == Injective(active) /\ Injective(snapshot) /\ Apart(active, snapshot)

\* Nothing is evicted before the active list is full.
Filled == Len(active) < MaxKeys => snapshot = <<>>

\* Limiters are made once, full, for one entry.
Fresh ==
  /\ \A x \in Residents : x.limiter <= made
  /\ \A x, y \in Residents : x.limiter = y.limiter => x = y
  /\ \A c \in Callers : holds[c] # NoEntry => holds[c].limiter <= made
  /\ \A l \in Limiters : l > made => tokens[l] = Burst

\* What has a bucket, or holds one, was asked for.
Known ==
  /\ IsFiniteSet(used)
  /\ \A x \in Residents : x.key \in used
  /\ \A c \in Callers : holds[c] # NoEntry => holds[c].key \in used
  /\ \A k \in Keys \ used : granted[k] = 0

\* While the keys used fit in the two lists, every key keeps its bucket, and a
\* bucket has paid for what its key was granted.
Paid ==
  Cardinality(used) <= 2 * MaxKeys =>
    /\ \A k \in used : \E x \in Residents : x.key = k
    /\ \A c \in Callers : holds[c] # NoEntry => holds[c] \in Residents
    /\ \A x \in Residents : tokens[x.limiter] + granted[x.key] <= Burst + ticks

LimiterInv == LimiterTypeOK /\ Placed /\ Filled /\ Fresh /\ Known /\ Paid

\* Two entries with one key are one entry.
LEMMA OneEntryPerKey ==
  ASSUME Placed, NEW x \in Residents, NEW y \in Residents, x.key = y.key
  PROVE  x = y
BY DEF Placed, Residents, Injective, Apart, EntriesOf

\* Lists that hold as many keys as they can hold them all.
LEMMA FullLists ==
  ASSUME LimiterAssumption, LimiterTypeOK, Placed, Known,
         Len(active) = MaxKeys, Len(snapshot) = MaxKeys
  PROVE  2 * MaxKeys <= Cardinality(used)
<1> DEFINE N == 2 * MaxKeys
           f == [i \in 1 .. N |-> IF i <= MaxKeys THEN active[i].key
                                  ELSE snapshot[i - MaxKeys].key]
<1>0. MaxKeys \in Nat \ {0} /\ N \in Nat
  BY DEF LimiterAssumption
<1>1. \A i \in 1 .. N : i <= MaxKeys => active[i] \in EntriesOf(active)
  BY <1>0 DEF EntriesOf
<1>2. \A i \in 1 .. N : ~(i <= MaxKeys) =>
        /\ i - MaxKeys \in 1 .. Len(snapshot)
        /\ snapshot[i - MaxKeys] \in EntriesOf(snapshot)
  BY <1>0 DEF EntriesOf
<1>3. f \in [1 .. N -> used]
  BY <1>1, <1>2 DEF Known, Residents
<1>4. \A i, j \in 1 .. N : f[i] = f[j] => i = j
  <2> SUFFICES ASSUME NEW i \in 1 .. N, NEW j \in 1 .. N, f[i] = f[j]
               PROVE  i = j
    OBVIOUS
  <2>1. CASE i <= MaxKeys /\ j <= MaxKeys
    <3>1. i \in 1 .. Len(active) /\ j \in 1 .. Len(active)
      BY <2>1, <1>0
    <3>2. active[i].key = active[j].key
      BY <2>1
    <3> QED BY <3>1, <3>2 DEF Placed, Injective
  <2>2. CASE i <= MaxKeys /\ ~(j <= MaxKeys)
    BY <2>2, <1>1, <1>2 DEF Placed, Apart
  <2>3. CASE ~(i <= MaxKeys) /\ j <= MaxKeys
    BY <2>3, <1>1, <1>2 DEF Placed, Apart
  <2>4. CASE ~(i <= MaxKeys) /\ ~(j <= MaxKeys)
    <3>1. snapshot[i - MaxKeys].key = snapshot[j - MaxKeys].key
      BY <2>4
    <3>2. i - MaxKeys = j - MaxKeys
      BY <2>4, <3>1, <1>2 DEF Placed, Injective
    <3> QED BY <3>2, <1>0
  <2> QED BY <2>1, <2>2, <2>3, <2>4
<1>5. f \in Injection(1 .. N, used)
  BY <1>3, <1>4 DEF Injection, IsInjective
<1> HIDE DEF f
<1>6. Cardinality(1 .. N) <= Cardinality(used)
  BY <1>5, FS_Injection DEF Known
<1>7. Cardinality(1 .. N) = N
  <2>1. N \in Int /\ 1 \in Int /\ ~(1 > N)
    BY <1>0
  <2> HIDE DEF N
  <2>2. Cardinality(1 .. N) = N - 1 + 1
    BY <2>1, FS_Interval
  <2> QED BY <2>1, <2>2
<1> QED BY <1>6, <1>7

\* The property about the concatenated lists follows from their parts.
LEMMA PlacedSuffices ==
  ASSUME LimiterTypeOK, Placed
  PROVE  OneBucketPerKey
<1>0. Len(active) \in Nat /\ Len(snapshot) \in Nat
  BY DEF LimiterTypeOK
<1>1. /\ Len(Tracked) = Len(active) + Len(snapshot)
      /\ \A i \in 1 .. Len(active) + Len(snapshot) :
           Tracked[i] = IF i <= Len(active) THEN active[i]
                        ELSE snapshot[i - Len(active)]
  BY ConcatProperties DEF LimiterTypeOK, Tracked
<1>2. \A i \in 1 .. Len(Tracked) :
        \/ i \in 1 .. Len(active) /\ Tracked[i] = active[i]
        \/ /\ i - Len(active) \in 1 .. Len(snapshot)
           /\ Tracked[i] = snapshot[i - Len(active)]
  BY <1>0, <1>1
<1> SUFFICES ASSUME NEW i \in 1 .. Len(Tracked), NEW j \in 1 .. Len(Tracked),
                    Tracked[i].key = Tracked[j].key
             PROVE  i = j
  BY DEF OneBucketPerKey
<1>3. CASE i \in 1 .. Len(active) /\ j \in 1 .. Len(active)
  BY <1>0, <1>1, <1>3 DEF Placed, Injective
<1>4. CASE i \notin 1 .. Len(active) /\ j \notin 1 .. Len(active)
  <2>1. i - Len(active) = j - Len(active)
    BY ZenonT(80), <1>2, <1>4 DEF Placed, Injective
  <2> QED BY <2>1, <1>0, <1>1
<1>5. CASE i \in 1 .. Len(active) /\ j \notin 1 .. Len(active)
  <2>1. Tracked[i] \in EntriesOf(active) /\ Tracked[j] \in EntriesOf(snapshot)
    BY <1>0, <1>1, <1>2, <1>5 DEF EntriesOf
  <2> QED BY <2>1 DEF Placed, Apart
<1>6. CASE i \notin 1 .. Len(active) /\ j \in 1 .. Len(active)
  <2>1. Tracked[j] \in EntriesOf(active) /\ Tracked[i] \in EntriesOf(snapshot)
    BY <1>0, <1>1, <1>2, <1>6 DEF EntriesOf
  <2> QED BY <2>1 DEF Placed, Apart
<1> QED BY <1>3, <1>4, <1>5, <1>6

-----------------------------------------------------------------------------
\* The invariant is kept

LEMMA LimiterStart == LimiterAssumption /\ LimiterInit => LimiterInv
<1> SUFFICES ASSUME LimiterAssumption, LimiterInit
             PROVE  LimiterInv
  OBVIOUS
<1>1. Residents = {}
  BY DEF LimiterInit, Residents, EntriesOf
<1>2. Len(<<>>) = 0 /\ <<>> \in Seq(Entry)
  OBVIOUS
<1>3. LimiterTypeOK
  BY <1>2 DEF LimiterInit, LimiterTypeOK, LimiterAssumption
<1>4. Placed
  BY <1>2 DEF LimiterInit, Placed, Injective, Apart, EntriesOf
<1>5. Fresh /\ Filled
  BY <1>1 DEF LimiterInit, Fresh, Filled
<1>6. Known
  BY <1>1, FS_EmptySet DEF LimiterInit, Known
<1>7. Paid
  BY <1>1 DEF LimiterInit, Paid
<1> QED BY <1>3, <1>4, <1>5, <1>6, <1>7 DEF LimiterInv

\* A caller that is handed an entry of the lists, however they are
\* rearranged, changes nothing the invariant is about.
LEMMA Rearranged ==
  ASSUME LimiterInv, NEW c \in Callers, NEW e \in Residents, e \in Entry, Hand(c, e),
         UNCHANGED <<tokens, made, granted, ticks>>,
         active' \in Seq(Entry), Len(active') <= MaxKeys,
         snapshot' \in Seq(Entry), Len(snapshot') <= MaxKeys,
         Placed', Filled', Residents' = Residents
  PROVE  LimiterInv'
<1>1. e.key \in used
  BY DEF LimiterInv, Known
<1>2. used' = used
  BY <1>1 DEF Hand
<1>3. \A d \in Callers : holds'[d] = IF d = c THEN e ELSE holds[d]
  BY DEF Hand, LimiterInv, LimiterTypeOK
<1>4. LimiterTypeOK'
  BY <1>2 DEF LimiterInv, LimiterTypeOK, Hand
<1>5. Fresh'
  <2>1. \A d \in Callers : holds'[d] # NoEntry => holds'[d].limiter <= made'
    BY <1>3 DEF LimiterInv, Fresh
  <2> QED BY <2>1 DEF LimiterInv, Fresh
<1>6. Known'
  <2>1. \A d \in Callers : holds'[d] # NoEntry => holds'[d].key \in used'
    BY <1>1, <1>2, <1>3 DEF LimiterInv, Known
  <2> QED BY <2>1, <1>2 DEF LimiterInv, Known
<1>7. Paid'
  <2> SUFFICES ASSUME Cardinality(used) <= 2 * MaxKeys
               PROVE  /\ \A k \in used : \E x \in Residents : x.key = k
                      /\ \A d \in Callers : holds'[d] # NoEntry => holds'[d] \in Residents
                      /\ \A x \in Residents :
                           tokens[x.limiter] + granted[x.key] <= Burst + ticks
    BY <1>2 DEF Paid
  <2>1. \A d \in Callers : holds'[d] # NoEntry => holds'[d] \in Residents
    BY <1>3 DEF LimiterInv, Paid
  <2> QED BY <2>1 DEF LimiterInv, Paid
<1> QED BY <1>4, <1>5, <1>6, <1>7 DEF LimiterInv

LEMMA PromoteStep ==
  ASSUME LimiterAssumption, LimiterInv, NEW c \in Callers, NEW k \in Keys, Promote(c, k)
  PROVE  LimiterInv'
<1>1. PICK i \in 1 .. Len(active) :
        /\ active' = <<active[i]>> \o RemoveAt(active, i)
        /\ Hand(c, active[i])
  BY DEF Promote
<1> DEFINE e == active[i]
           rest == RemoveAt(active, i)
<1>2. active \in Seq(Entry) /\ Len(active) <= MaxKeys /\ Injective(active)
  BY DEF LimiterInv, LimiterTypeOK, Placed
<1>3. e \in Entry /\ e \in EntriesOf(active) /\ e \in Residents
  BY <1>2, ElementOfSeq DEF EntriesOf, Residents
<1>4. rest \in Seq(Entry) /\ Len(rest) = Len(active) - 1
  BY <1>2, RemovedAt
<1>5. EntriesOf(rest) = EntriesOf(active) \ {e} /\ Injective(rest) /\ Free(rest, e.key)
  BY <1>2, RemovedEntries
<1> HIDE DEF e, rest
<1>6. <<e>> \o rest \in Seq(Entry) /\ Len(<<e>> \o rest) = Len(rest) + 1
  BY <1>3, <1>4, Pushed
<1>7. EntriesOf(<<e>> \o rest) = {e} \cup EntriesOf(rest) /\ Injective(<<e>> \o rest)
  BY <1>3, <1>4, <1>5, PushedEntries
<1>8. active' = <<e>> \o rest /\ snapshot' = snapshot /\ Hand(c, e)
  BY <1>1 DEF Promote, e, rest
<1>9. Len(active') = Len(active)
  <2>1. Len(active) \in Nat
    BY <1>2
  <2> QED BY <2>1, <1>4, <1>6, <1>8
<1>10. EntriesOf(active') = EntriesOf(active)
  BY <1>3, <1>5, <1>7, <1>8
<1>11. Residents' = Residents
  BY <1>8, <1>10 DEF Residents
<1>12. Placed' /\ Filled'
  BY <1>7, <1>8, <1>9, <1>10 DEF LimiterInv, Placed, Filled, Apart
<1>13. /\ UNCHANGED <<tokens, made, granted, ticks>>
       /\ snapshot' \in Seq(Entry) /\ Len(snapshot') <= MaxKeys
  BY <1>8 DEF Promote, LimiterInv, LimiterTypeOK
<1> QED BY <1>2, <1>3, <1>6, <1>8, <1>9, <1>11, <1>12, <1>13, Rearranged

LEMMA RestoreStep ==
  ASSUME LimiterAssumption, LimiterInv, NEW c \in Callers, NEW k \in Keys, Restore(c, k)
  PROVE  LimiterInv'
<1>1. PICK i \in 1 .. Len(snapshot) :
        /\ At(snapshot, i, k)
        /\ Admit(snapshot[i], RemoveAt(snapshot, i))
        /\ Hand(c, snapshot[i])
  BY DEF Restore
<1> DEFINE e == snapshot[i]
           rest == RemoveAt(snapshot, i)
<1>2. /\ active \in Seq(Entry) /\ Len(active) <= MaxKeys /\ Injective(active)
      /\ snapshot \in Seq(Entry) /\ Len(snapshot) <= MaxKeys /\ Injective(snapshot)
      /\ Apart(active, snapshot)
  BY DEF LimiterInv, LimiterTypeOK, Placed
<1>3. e \in Entry /\ e \in EntriesOf(snapshot) /\ e \in Residents
  BY <1>2, ElementOfSeq DEF EntriesOf, Residents
<1>4. rest \in Seq(Entry) /\ Len(rest) = Len(snapshot) - 1
  BY <1>2, RemovedAt
<1>5. EntriesOf(rest) = EntriesOf(snapshot) \ {e} /\ Injective(rest) /\ Free(rest, e.key)
  BY <1>2, RemovedEntries
<1>6. Admit(e, rest) /\ Hand(c, e)
  BY <1>1
<1> HIDE DEF e, rest
<1>7. Len(rest) <= MaxKeys /\ Len(rest) < MaxKeys
  <2>1. Len(snapshot) \in Nat /\ MaxKeys \in Nat
    BY <1>2 DEF LimiterAssumption
  <2> QED BY <2>1, <1>2, <1>4
<1>8. Apart(active, rest) /\ Free(active, e.key)
  BY <1>2, <1>3, <1>5 DEF Apart, Free
<1>9. /\ active' \in Seq(Entry) /\ Len(active') <= MaxKeys
      /\ snapshot' \in Seq(Entry) /\ Len(snapshot') <= MaxKeys
      /\ Injective(active') /\ Injective(snapshot')
      /\ Apart(active', snapshot')
      /\ EntriesOf(active') \cup EntriesOf(snapshot')
           = {e} \cup EntriesOf(active) \cup EntriesOf(rest)
      /\ Len(active') < MaxKeys => Len(active) < MaxKeys
  BY <1>2, <1>3, <1>4, <1>5, <1>6, <1>7, <1>8, Admitted
<1>10. Residents' = Residents
  BY <1>3, <1>5, <1>9 DEF Residents
<1>11. ~(Len(active') < MaxKeys)
  <2>1. snapshot # <<>>
    BY <1>3 DEF EntriesOf
  <2> QED BY <2>1, <1>9 DEF LimiterInv, Filled
<1>12. Placed' /\ Filled'
  BY <1>9, <1>11 DEF Placed, Filled
<1>13. UNCHANGED <<tokens, made, granted, ticks>>
  BY DEF Restore
<1> QED BY <1>3, <1>6, <1>9, <1>10, <1>12, <1>13, Rearranged

LEMMA CreateStep ==
  ASSUME LimiterAssumption, LimiterInv, NEW c \in Callers, NEW k \in Keys, Create(c, k)
  PROVE  LimiterInv'
<1> DEFINE e == [key |-> k, limiter |-> made + 1]
<1>0. made \in Nat /\ made + 1 \in Limiters /\ made' = made + 1
  BY DEF LimiterInv, LimiterTypeOK, Create, Limiters, LimiterAssumption
<1>1. e \in Entry /\ e.key = k /\ e.limiter = made + 1
  BY <1>0 DEF Entry
<1>2. /\ Admit(e, snapshot) /\ Hand(c, e)
      /\ UNCHANGED <<tokens, granted, ticks>>
  BY DEF Create
<1>3. ~Lists(active, k) /\ ~Lists(snapshot, k)
  BY DEF Create
<1> HIDE DEF e
<1>4. Free(active, e.key) /\ Free(snapshot, e.key)
  BY <1>1, <1>3 DEF Free, EntriesOf, Lists
<1>5. /\ active \in Seq(Entry) /\ Len(active) <= MaxKeys /\ Injective(active)
      /\ snapshot \in Seq(Entry) /\ Len(snapshot) <= MaxKeys /\ Injective(snapshot)
      /\ Apart(active, snapshot)
  BY DEF LimiterInv, LimiterTypeOK, Placed
<1>6. /\ active' \in Seq(Entry) /\ Len(active') <= MaxKeys
      /\ snapshot' \in Seq(Entry) /\ Len(snapshot') <= MaxKeys
      /\ Injective(active') /\ Injective(snapshot')
      /\ Apart(active', snapshot')
      /\ e \in EntriesOf(active')
      /\ EntriesOf(active') \cup EntriesOf(snapshot')
           \subseteq {e} \cup EntriesOf(active) \cup EntriesOf(snapshot)
      /\ Len(active) < MaxKeys \/ Len(snapshot) < MaxKeys =>
           EntriesOf(active') \cup EntriesOf(snapshot')
             = {e} \cup EntriesOf(active) \cup EntriesOf(snapshot)
      /\ Len(active') < MaxKeys => Len(active) < MaxKeys /\ snapshot' = snapshot
  BY <1>1, <1>2, <1>4, <1>5, Admitted
<1>7. /\ e \in Residents'
      /\ Residents' \subseteq {e} \cup Residents
      /\ Len(active) < MaxKeys \/ Len(snapshot) < MaxKeys =>
           Residents' = {e} \cup Residents
  BY <1>6 DEF Residents
<1>8. \A x \in Residents : x \in Entry
  BY <1>5, ElementOfSeq DEF Residents, EntriesOf
<1>9. used' = used \cup {k} /\ holds' = [holds EXCEPT ![c] = e]
  BY <1>1, <1>2 DEF Hand
<1>10. \A d \in Callers : holds'[d] = IF d = c THEN e ELSE holds[d]
  BY <1>9 DEF LimiterInv, LimiterTypeOK
<1>11. LimiterTypeOK'
  <2>1. made' \in 0 .. MaxLimiters
    BY <1>0 DEF Limiters, LimiterAssumption
  <2>2. holds' \in [Callers -> Entry \cup {NoEntry}]
    BY <1>1, <1>9 DEF LimiterInv, LimiterTypeOK
  <2> QED BY <1>2, <1>6, <1>9, <2>1, <2>2 DEF LimiterInv, LimiterTypeOK
<1>12. Placed' /\ Filled'
  BY <1>6 DEF LimiterInv, Placed, Filled
<1>13. Fresh'
  <2>1. \A x \in Residents : x.limiter <= made /\ x.limiter \in Nat
    BY <1>8 DEF LimiterInv, Fresh, Entry, Limiters
  <2>2. \A x \in Residents' : x.limiter <= made'
    BY <2>1, <1>0, <1>1, <1>7
  <2>3. \A x, y \in Residents' : x.limiter = y.limiter => x = y
    <3>1. \A x \in Residents : x.limiter # e.limiter
      BY <2>1, <1>0, <1>1
    <3> QED BY <3>1, <1>7 DEF LimiterInv, Fresh
  <2>4. \A l \in Limiters : l > made' => tokens'[l] = Burst
    BY <1>0, <1>2 DEF LimiterInv, Fresh, Limiters
  <2>5. \A d \in Callers : holds'[d] # NoEntry => holds'[d].limiter <= made'
    <3>1. \A d \in Callers : holds[d] # NoEntry => holds[d].limiter \in Nat
      BY DEF LimiterInv, LimiterTypeOK, Entry, Limiters
    <3> QED BY <3>1, <1>0, <1>1, <1>10 DEF LimiterInv, Fresh
  <2> QED BY <2>2, <2>3, <2>4, <2>5 DEF Fresh
<1>14. Known'
  <2>1. IsFiniteSet(used')
    BY <1>9, FS_AddElement DEF LimiterInv, Known
  <2>2. \A x \in Residents' : x.key \in used'
    BY <1>1, <1>7, <1>9 DEF LimiterInv, Known
  <2>3. \A d \in Callers : holds'[d] # NoEntry => holds'[d].key \in used'
    BY <1>1, <1>9, <1>10 DEF LimiterInv, Known
  <2>4. \A j \in Keys \ used' : granted'[j] = 0
    BY <1>2, <1>9 DEF LimiterInv, Known
  <2> QED BY <2>1, <2>2, <2>3, <2>4 DEF Known
<1>15. Paid'
  <2> SUFFICES ASSUME Cardinality(used') <= 2 * MaxKeys
               PROVE  /\ \A j \in used' : \E x \in Residents' : x.key = j
                      /\ \A d \in Callers : holds'[d] # NoEntry => holds'[d] \in Residents'
                      /\ \A x \in Residents' :
                           tokens'[x.limiter] + granted'[x.key] <= Burst + ticks'
    BY DEF Paid
  <2>0. MaxKeys \in Nat /\ Cardinality(used) \in Nat
    BY FS_CardinalityType DEF LimiterAssumption, LimiterInv, Known
  <2>1. Cardinality(used') = IF k \in used THEN Cardinality(used) ELSE Cardinality(used) + 1
    BY <1>9, FS_AddElement DEF LimiterInv, Known
  <2>2. Cardinality(used) <= 2 * MaxKeys
    BY <2>0, <2>1
  <2>3. k \notin used
    <3> SUFFICES ASSUME k \in used
                 PROVE  FALSE
      OBVIOUS
    <3>1. PICK x \in Residents : x.key = k
      BY <2>2 DEF LimiterInv, Paid
    <3> QED BY <3>1, <1>1, <1>4 DEF Residents, Free
  <2>4. Len(active) < MaxKeys \/ Len(snapshot) < MaxKeys
    <3> SUFFICES ASSUME ~(Len(active) < MaxKeys), ~(Len(snapshot) < MaxKeys)
                 PROVE  FALSE
      OBVIOUS
    <3>1. Len(active) \in Nat /\ Len(snapshot) \in Nat
      BY <1>5
    <3>2. Len(active) = MaxKeys /\ Len(snapshot) = MaxKeys
      BY <3>1, <2>0, <1>5
    <3>3. 2 * MaxKeys <= Cardinality(used)
      BY <3>2, FullLists DEF LimiterInv
    <3> QED BY <3>3, <2>0, <2>1, <2>3
  <2>5. Residents' = {e} \cup Residents
    BY <2>4, <1>7
  <2>6. \A j \in used' : \E x \in Residents' : x.key = j
    BY <2>2, <2>5, <1>1, <1>9 DEF LimiterInv, Paid
  <2>7. \A d \in Callers : holds'[d] # NoEntry => holds'[d] \in Residents'
    BY <2>2, <2>5, <1>10 DEF LimiterInv, Paid
  <2>8. tokens[made + 1] = Burst /\ granted[k] = 0
    BY <2>3, <1>0 DEF LimiterInv, Fresh, Known
  <2>9. Burst + 0 <= Burst + ticks
    BY DEF LimiterInv, LimiterTypeOK, LimiterAssumption
  <2>10. \A x \in Residents' : tokens'[x.limiter] + granted'[x.key] <= Burst + ticks'
    BY <2>2, <2>5, <2>8, <2>9, <1>1, <1>2 DEF LimiterInv, Paid
  <2> QED BY <2>6, <2>7, <2>10
<1> QED BY <1>11, <1>12, <1>13, <1>14, <1>15 DEF LimiterInv

LEMMA GrantStep ==
  ASSUME LimiterAssumption, LimiterInv, NEW c \in Callers, Grant(c)
  PROVE  LimiterInv'
<1> DEFINE e == holds[c]
<1>1. e \in Entry /\ e.key \in Keys /\ e.limiter \in Limiters
  BY DEF LimiterInv, LimiterTypeOK, Grant, Entry
<1>2. e # NoEntry /\ tokens[e.limiter] > 0
  BY DEF Grant
<1>3. /\ tokens' = [tokens EXCEPT ![e.limiter] = @ - 1]
      /\ granted' = [granted EXCEPT ![e.key] = @ + 1]
      /\ holds' = [holds EXCEPT ![c] = NoEntry]
      /\ UNCHANGED <<active, snapshot, made, used, ticks>>
  BY DEF Grant, Release
<1> HIDE DEF e
<1>4. Residents' = Residents
  BY <1>3 DEF Residents
<1>5. /\ tokens \in [Limiters -> 0 .. Burst] /\ granted \in [Keys -> Nat]
      /\ holds \in [Callers -> Entry \cup {NoEntry}]
      /\ Burst \in Nat /\ ticks \in Nat
  BY DEF LimiterInv, LimiterTypeOK, LimiterAssumption
<1>6. tokens[e.limiter] - 1 \in 0 .. Burst
  <2>1. tokens[e.limiter] \in 0 .. Burst
    BY <1>1, <1>5
  <2> QED BY <2>1, <1>2, <1>5
<1>7. LimiterTypeOK'
  <2>1. tokens' \in [Limiters -> 0 .. Burst]
    BY <1>3, <1>5, <1>6
  <2>2. granted' \in [Keys -> Nat]
    BY <1>1, <1>3, <1>5
  <2>3. holds' \in [Callers -> Entry \cup {NoEntry}]
    BY <1>3, <1>5
  <2> QED BY <1>3, <2>1, <2>2, <2>3 DEF LimiterInv, LimiterTypeOK
<1>8. \A d \in Callers : holds'[d] = IF d = c THEN NoEntry ELSE holds[d]
  BY <1>3, <1>5
<1>9. e.key \in used
  BY <1>2 DEF LimiterInv, Known, e
<1>10. Placed' /\ Filled'
  BY <1>3 DEF LimiterInv, Placed, Filled
<1>11. Known'
  <2>1. \A k \in Keys \ used' : granted'[k] = 0
    BY <1>3, <1>5, <1>9 DEF LimiterInv, Known
  <2>2. \A d \in Callers : holds'[d] # NoEntry => holds'[d].key \in used'
    BY <1>3, <1>8 DEF LimiterInv, Known
  <2> QED BY <1>3, <1>4, <2>1, <2>2 DEF LimiterInv, Known
<1>12. Fresh'
  <2>1. e.limiter <= made
    BY <1>2 DEF LimiterInv, Fresh, e
  <2>2. \A l \in Limiters : l > made => l # e.limiter
    BY <2>1, <1>1 DEF LimiterInv, LimiterTypeOK, Limiters
  <2>3. \A l \in Limiters : l > made' => tokens'[l] = Burst
    BY <2>2, <1>3, <1>5 DEF LimiterInv, Fresh
  <2>4. \A d \in Callers : holds'[d] # NoEntry => holds'[d].limiter <= made'
    BY <1>3, <1>8 DEF LimiterInv, Fresh
  <2> QED BY <1>3, <1>4, <2>3, <2>4 DEF LimiterInv, Fresh
<1>13. Paid'
  <2> SUFFICES ASSUME Cardinality(used) <= 2 * MaxKeys
               PROVE  /\ \A k \in used : \E x \in Residents : x.key = k
                      /\ \A d \in Callers : holds'[d] # NoEntry => holds'[d] \in Residents
                      /\ \A x \in Residents :
                           tokens'[x.limiter] + granted'[x.key] <= Burst + ticks
    BY <1>3, <1>4 DEF Paid
  <2>1. e \in Residents
    BY <1>2 DEF LimiterInv, Paid, e
  <2>2. \A d \in Callers : holds'[d] # NoEntry => holds'[d] \in Residents
    BY <1>8 DEF LimiterInv, Paid
  <2>3. ASSUME NEW x \in Residents
        PROVE  tokens'[x.limiter] + granted'[x.key] <= Burst + ticks
    <3>0. x \in Entry
      BY ElementOfSeq DEF LimiterInv, LimiterTypeOK, Residents, EntriesOf
    <3>1. tokens[x.limiter] + granted[x.key] <= Burst + ticks
      BY DEF LimiterInv, Paid
    <3>2. CASE x = e
      <4>1. tokens'[x.limiter] = tokens[x.limiter] - 1
        BY <3>2, <1>1, <1>3, <1>5
      <4>2. granted'[x.key] = granted[x.key] + 1
        BY <3>2, <1>1, <1>3, <1>5
      <4>3. tokens[x.limiter] \in Nat /\ granted[x.key] \in Nat
        BY <3>2, <1>1, <1>5
      <4> QED BY <3>1, <4>1, <4>2, <4>3, <1>5
    <3>3. CASE x # e
      <4>1. x.limiter # e.limiter
        BY <3>3, <2>1 DEF LimiterInv, Fresh
      <4>2. x.key # e.key
        BY <3>3, <2>1, OneEntryPerKey DEF LimiterInv
      <4>3. x.limiter \in Limiters /\ x.key \in Keys
        BY <3>0 DEF Entry
      <4>4. tokens'[x.limiter] = tokens[x.limiter] /\ granted'[x.key] = granted[x.key]
        BY <4>1, <4>2, <4>3, <1>3, <1>5
      <4> QED BY <3>1, <4>4
    <3> QED BY <3>2, <3>3
  <2> QED BY <2>2, <2>3 DEF LimiterInv, Paid
<1> QED BY <1>7, <1>10, <1>11, <1>12, <1>13 DEF LimiterInv

LEMMA DenyStep ==
  ASSUME LimiterInv, NEW c \in Callers, Deny(c)
  PROVE  LimiterInv'
<1>1. /\ holds' = [holds EXCEPT ![c] = NoEntry]
      /\ UNCHANGED <<active, snapshot, tokens, made, used, granted, ticks>>
  BY DEF Deny, Release
<1>2. \A d \in Callers : holds'[d] = NoEntry \/ holds'[d] = holds[d]
  BY <1>1 DEF LimiterInv, LimiterTypeOK
<1>3. Residents' = Residents
  BY <1>1 DEF Residents
<1>4. LimiterTypeOK'
  <2>1. holds' \in [Callers -> Entry \cup {NoEntry}]
    BY <1>1 DEF LimiterInv, LimiterTypeOK
  <2> QED BY <1>1, <2>1 DEF LimiterInv, LimiterTypeOK
<1>5. Placed' /\ Filled'
  BY <1>1 DEF LimiterInv, Placed, Filled
<1>6. Fresh' /\ Known'
  BY <1>1, <1>2, <1>3 DEF LimiterInv, Fresh, Known
<1>7. Paid'
  BY <1>1, <1>2, <1>3 DEF LimiterInv, Paid
<1> QED BY <1>4, <1>5, <1>6, <1>7 DEF LimiterInv

LEMMA TickStep ==
  ASSUME LimiterAssumption, LimiterInv, Tick
  PROVE  LimiterInv'
<1>1. /\ ticks' = ticks + 1 /\ ticks < MaxTicks
      /\ tokens' = [l \in Limiters |->
                      IF tokens[l] < Burst THEN tokens[l] + 1 ELSE Burst]
      /\ UNCHANGED <<active, snapshot, made, holds, used, granted>>
  BY DEF Tick
<1>2. /\ tokens \in [Limiters -> 0 .. Burst] /\ granted \in [Keys -> Nat]
      /\ Burst \in Nat /\ ticks \in Nat /\ ticks \in 0 .. MaxTicks /\ MaxTicks \in Nat
  BY DEF LimiterInv, LimiterTypeOK, LimiterAssumption
<1>3. \A l \in Limiters : tokens[l] \in 0 .. Burst
  BY <1>2
<1>4. \A l \in Limiters : /\ tokens'[l] \in 0 .. Burst
                          /\ tokens'[l] <= tokens[l] + 1
                          /\ tokens[l] = Burst => tokens'[l] = Burst
  BY <1>1, <1>2, <1>3
<1>5. Residents' = Residents
  BY <1>1 DEF Residents
<1>6. LimiterTypeOK'
  <2>1. tokens' \in [Limiters -> 0 .. Burst]
    BY <1>1, <1>4
  <2>2. ticks' \in 0 .. MaxTicks
    BY <1>1, <1>2
  <2> QED BY <1>1, <2>1, <2>2 DEF LimiterInv, LimiterTypeOK
<1>7. Placed' /\ Filled'
  BY <1>1 DEF LimiterInv, Placed, Filled
<1>8. Fresh'
  BY <1>1, <1>4, <1>5 DEF LimiterInv, Fresh
<1>9. Known'
  BY <1>1, <1>5 DEF LimiterInv, Known
<1>10. Paid'
  <2> SUFFICES ASSUME Cardinality(used) <= 2 * MaxKeys
               PROVE  /\ \A k \in used : \E x \in Residents : x.key = k
                      /\ \A d \in Callers : holds[d] # NoEntry => holds[d] \in Residents
                      /\ \A x \in Residents :
                           tokens'[x.limiter] + granted[x.key] <= Burst + ticks'
    BY <1>1, <1>5 DEF Paid
  <2>1. ASSUME NEW x \in Residents
        PROVE  tokens'[x.limiter] + granted[x.key] <= Burst + ticks'
    <3>0. x \in Entry
      BY ElementOfSeq DEF LimiterInv, LimiterTypeOK, Residents, EntriesOf
    <3>1. x.limiter \in Limiters /\ x.key \in Keys
      BY <3>0 DEF Entry
    <3>2. tokens[x.limiter] + granted[x.key] <= Burst + ticks
      BY DEF LimiterInv, Paid
    <3>3. /\ tokens'[x.limiter] \in Nat /\ tokens[x.limiter] \in Nat
          /\ granted[x.key] \in Nat
          /\ tokens'[x.limiter] <= tokens[x.limiter] + 1
      BY <3>1, <1>2, <1>3, <1>4
    <3> QED BY <3>2, <3>3, <1>1, <1>2
  <2> QED BY <2>1 DEF LimiterInv, Paid
<1> QED BY <1>6, <1>7, <1>8, <1>9, <1>10 DEF LimiterInv

\* Every step of the limiter keeps the invariant, one lemma per action.
LEMMA LimiterStep ==
  ASSUME LimiterAssumption, LimiterInv, [LimiterNext]_limiterVars
  PROVE  LimiterInv'
<1>1. CASE Tick
  BY <1>1, TickStep
<1>2. ASSUME NEW c \in Callers, Allow(c)
      PROVE  LimiterInv'
  BY <1>2, PromoteStep, RestoreStep, CreateStep, GrantStep, DenyStep DEF Allow
<1>3. CASE UNCHANGED limiterVars
  BY <1>3 DEF limiterVars, LimiterInv, LimiterTypeOK, Placed, Filled, Fresh, Known, Paid, Residents
<1> QED BY <1>1, <1>2, <1>3 DEF LimiterNext

THEOREM LimiterInvariant == LimiterSpec => []LimiterInv
<1>1. LimiterInit => LimiterInv
  BY LimiterStart, LimiterAssumption
<1>2. LimiterInv /\ [LimiterNext]_limiterVars => LimiterInv'
  BY LimiterStep, LimiterAssumption
<1> QED BY <1>1, <1>2, PTL DEF LimiterSpec

\* Every reachable state is type correct: in particular both lists stay
\* within MaxKeys entries, whatever the traffic.
THEOREM LimiterTypeCorrect == LimiterSpec => []LimiterTypeOK
<1>1. LimiterInv => LimiterTypeOK
  BY DEF LimiterInv
<1> QED BY <1>1, LimiterInvariant, PTL

\* A key never has two buckets, so no interleaving of callers and evictions
\* lets it spend from two.
THEOREM BucketsUnique == LimiterSpec => []OneBucketPerKey
<1>1. LimiterInv => OneBucketPerKey
  BY PlacedSuffices DEF LimiterInv
<1> QED BY <1>1, LimiterInvariant, PTL

\* The thrash-reset defence: as long as no more than 2 * MaxKeys keys were
\* used, no key is granted more than its burst and the refills.
THEOREM BurstNeverFresh == LimiterSpec => []NoFreshBurst
<1>1. LimiterInv => NoFreshBurst
  <2> SUFFICES ASSUME LimiterInv, Cardinality(used) <= 2 * MaxKeys, NEW k \in Keys
               PROVE  granted[k] <= Burst + ticks
    BY DEF NoFreshBurst
  <2>0. Burst \in Nat /\ ticks \in Nat /\ granted[k] \in Nat
    BY LimiterAssumption DEF LimiterInv, LimiterTypeOK, LimiterAssumption
  <2>1. CASE k \in used
    <3>1. PICK x \in Residents : x.key = k
      BY <2>1 DEF LimiterInv, Paid
    <3>2. x \in Entry
      BY ElementOfSeq DEF LimiterInv, LimiterTypeOK, Residents, EntriesOf
    <3>3. tokens[x.limiter] \in 0 .. Burst
      BY <3>2 DEF LimiterInv, LimiterTypeOK, Entry
    <3>4. tokens[x.limiter] + granted[k] <= Burst + ticks
      BY <3>1 DEF LimiterInv, Paid
    <3> QED BY <2>0, <3>3, <3>4
  <2>2. CASE k \notin used
    BY <2>0, <2>2 DEF LimiterInv, Known
  <2> QED BY <2>1, <2>2
<1> QED BY <1>1, LimiterInvariant, PTL

-----------------------------------------------------------------------------
\* The two lists as one

\* Taking an entry out of either list takes it out of both together.
LEMMA RemovedFromLeft ==
  ASSUME NEW E, NEW s \in Seq(E), NEW t \in Seq(E), NEW i \in 1 .. Len(s)
  PROVE  RemoveAt(s, i) \o t = RemoveAt(s \o t, i)
<1> DEFINE l == RemoveAt(s, i)
           u == s \o t
           r == RemoveAt(u, i)
<1>0. Len(s) \in Nat \ {0} /\ Len(t) \in Nat /\ i \in Nat /\ i <= Len(s)
  OBVIOUS
<1>1. /\ l \in Seq(E) /\ Len(l) = Len(s) - 1
      /\ \A j \in 1 .. Len(s) - 1 : l[j] = IF j < i THEN s[j] ELSE s[j + 1]
  BY RemovedAt
<1>2. /\ u \in Seq(E) /\ Len(u) = Len(s) + Len(t)
      /\ \A j \in 1 .. Len(s) + Len(t) : u[j] = IF j <= Len(s) THEN s[j] ELSE t[j - Len(s)]
  BY ConcatProperties
<1>3. /\ r \in Seq(E) /\ Len(r) = Len(u) - 1
      /\ \A j \in 1 .. Len(u) - 1 : r[j] = IF j < i THEN u[j] ELSE u[j + 1]
  <2> HIDE DEF u
  <2> i \in 1 .. Len(u)
    BY <1>0, <1>2
  <2> QED BY <1>2, RemovedAt
<1>4. /\ l \o t \in Seq(E) /\ Len(l \o t) = Len(l) + Len(t)
      /\ \A j \in 1 .. Len(l) + Len(t) : (l \o t)[j] = IF j <= Len(l) THEN l[j] ELSE t[j - Len(l)]
  <2> HIDE DEF l
  <2> QED BY <1>1, ConcatProperties
<1> HIDE DEF l, u, r
<1>5. ASSUME NEW j \in 1 .. Len(r)
      PROVE  (l \o t)[j] = r[j]
  <2>1. j \in Nat /\ j <= Len(s) + Len(t) - 1 /\ j >= 1
    BY <1>0, <1>2, <1>3
  <2>2. CASE j < i
    <3>1. j \in 1 .. Len(s) - 1 /\ j <= Len(s) /\ j \in 1 .. Len(s) + Len(t)
      BY <2>1, <2>2, <1>0
    <3>2. r[j] = s[j]
      BY <2>2, <3>1, <1>2, <1>3
    <3>3. (l \o t)[j] = l[j]
      BY <3>1, <1>0, <1>1, <1>4
    <3> QED BY <2>2, <3>1, <3>2, <3>3, <1>1
  <2>3. CASE ~(j < i) /\ j <= Len(s) - 1
    <3>1. j \in 1 .. Len(s) - 1 /\ j + 1 <= Len(s) /\ j + 1 \in 1 .. Len(s) + Len(t)
      BY <2>1, <2>3, <1>0
    <3>2. r[j] = s[j + 1]
      BY <2>3, <3>1, <1>2, <1>3
    <3>3. (l \o t)[j] = l[j]
      BY <3>1, <1>0, <1>1, <1>4
    <3> QED BY <2>3, <3>1, <3>2, <3>3, <1>1
  <2>4. CASE ~(j <= Len(s) - 1)
    <3>1. /\ ~(j < i) /\ ~(j + 1 <= Len(s)) /\ j + 1 \in 1 .. Len(s) + Len(t)
          /\ j + 1 - Len(s) = j - (Len(s) - 1)
      BY <2>1, <2>4, <1>0
    <3>2. r[j] = t[j + 1 - Len(s)]
      BY <3>1, <1>2, <1>3
    <3>3. j \in 1 .. Len(l) + Len(t) /\ ~(j <= Len(l))
      BY <2>1, <2>4, <1>0, <1>1
    <3>4. (l \o t)[j] = t[j - (Len(s) - 1)]
      BY <3>3, <1>1, <1>4
    <3> QED BY <3>1, <3>2, <3>4
  <2> QED BY <2>1, <2>2, <2>3, <2>4, <1>0
<1>6. Len(l \o t) = Len(r)
  BY <1>0, <1>1, <1>2, <1>3, <1>4
<1>7. l \o t = r
  BY <1>3, <1>4, <1>5, <1>6, SeqEqual
<1> QED BY <1>7 DEF l, r, u

LEMMA RemovedFromRight ==
  ASSUME NEW E, NEW s \in Seq(E), NEW t \in Seq(E), NEW i \in 1 .. Len(t)
  PROVE  s \o RemoveAt(t, i) = RemoveAt(s \o t, Len(s) + i)
<1> DEFINE l == RemoveAt(t, i)
           u == s \o t
           r == RemoveAt(u, Len(s) + i)
<1>0. Len(t) \in Nat \ {0} /\ Len(s) \in Nat /\ i \in Nat /\ i <= Len(t) /\ i >= 1
  OBVIOUS
<1>1. /\ l \in Seq(E) /\ Len(l) = Len(t) - 1
      /\ \A j \in 1 .. Len(t) - 1 : l[j] = IF j < i THEN t[j] ELSE t[j + 1]
  BY RemovedAt
<1>2. /\ u \in Seq(E) /\ Len(u) = Len(s) + Len(t)
      /\ \A j \in 1 .. Len(s) + Len(t) : u[j] = IF j <= Len(s) THEN s[j] ELSE t[j - Len(s)]
  BY ConcatProperties
<1>3. /\ r \in Seq(E) /\ Len(r) = Len(u) - 1
      /\ \A j \in 1 .. Len(u) - 1 : r[j] = IF j < Len(s) + i THEN u[j] ELSE u[j + 1]
  <2> HIDE DEF u
  <2> Len(s) + i \in 1 .. Len(u)
    BY <1>0, <1>2
  <2> QED BY <1>2, RemovedAt
<1>4. /\ s \o l \in Seq(E) /\ Len(s \o l) = Len(s) + Len(l)
      /\ \A j \in 1 .. Len(s) + Len(l) : (s \o l)[j] = IF j <= Len(s) THEN s[j] ELSE l[j - Len(s)]
  <2> HIDE DEF l
  <2> QED BY <1>1, ConcatProperties
<1> HIDE DEF l, u, r
<1>5. ASSUME NEW j \in 1 .. Len(r)
      PROVE  (s \o l)[j] = r[j]
  <2>1. j \in Nat /\ j <= Len(s) + Len(t) - 1 /\ j >= 1
    BY <1>0, <1>2, <1>3
  <2>2. CASE j <= Len(s)
    <3>1. j < Len(s) + i /\ j \in 1 .. Len(s) + Len(t) /\ j \in 1 .. Len(s) + Len(l)
      BY <2>1, <2>2, <1>0, <1>1
    <3> QED BY <2>2, <3>1, <1>2, <1>3, <1>4
  <2>3. CASE ~(j <= Len(s)) /\ j < Len(s) + i
    <3>1. /\ j \in 1 .. Len(s) + Len(t) /\ j \in 1 .. Len(s) + Len(l)
          /\ j - Len(s) \in 1 .. Len(t) - 1 /\ j - Len(s) < i
      BY <2>1, <2>3, <1>0, <1>1
    <3> QED BY <2>3, <3>1, <1>1, <1>2, <1>3, <1>4
  <2>4. CASE ~(j < Len(s) + i)
    <3>1. /\ j + 1 \in 1 .. Len(s) + Len(t) /\ j \in 1 .. Len(s) + Len(l)
          /\ j - Len(s) \in 1 .. Len(t) - 1 /\ ~(j - Len(s) < i)
          /\ ~(j <= Len(s)) /\ ~(j + 1 <= Len(s))
          /\ j + 1 - Len(s) = j - Len(s) + 1
      BY <2>1, <2>4, <1>0, <1>1
    <3>2. r[j] = t[j + 1 - Len(s)]
      BY <2>4, <3>1, <1>2, <1>3
    <3>3. (s \o l)[j] = t[j - Len(s) + 1]
      BY <3>1, <1>1, <1>4
    <3> QED BY <3>1, <3>2, <3>3
  <2> QED BY <2>1, <2>2, <2>3, <2>4, <1>0
<1>6. Len(s \o l) = Len(r)
  BY <1>0, <1>1, <1>2, <1>3, <1>4
<1>7. s \o l = r
  BY <1>3, <1>4, <1>5, <1>6, SeqEqual
<1> QED BY <1>7 DEF l, r, u

\* Moving the last entry of one list to the front of the other changes nothing
\* of both together.
LEMMA Spilled ==
  ASSUME NEW E, NEW s \in Seq(E), NEW t \in Seq(E), Len(s) > 0
  PROVE  Front(s) \o (<<Last(s)>> \o t) = s \o t
<1>1. /\ Front(s) \in Seq(E) /\ Len(Front(s)) = Len(s) - 1
      /\ \A j \in 1 .. Len(s) - 1 : Front(s)[j] = s[j]
      /\ Last(s) = s[Len(s)] /\ Last(s) \in E
  BY FrontOf
<1> DEFINE f == Front(s)
           z == <<Last(s)>>
<1>2. z \in Seq(E) /\ Len(z) = 1 /\ z[1] = s[Len(s)]
  BY <1>1
<1>3. f \o (z \o t) = (f \o z) \o t
  BY <1>1, <1>2, ConcatAssociative
<1> HIDE DEF f, z
<1>4. /\ f \o z \in Seq(E) /\ Len(f \o z) = Len(f) + 1
      /\ \A j \in 1 .. Len(f) + 1 : (f \o z)[j] = IF j <= Len(f) THEN f[j] ELSE z[j - Len(f)]
  <2>1. f \in Seq(E)
    BY <1>1 DEF f
  <2>2. /\ f \o z \in Seq(E) /\ Len(f \o z) = Len(f) + Len(z)
        /\ \A j \in 1 .. Len(f) + Len(z) : (f \o z)[j] = IF j <= Len(f) THEN f[j] ELSE z[j - Len(f)]
    BY <1>2, <2>1, ConcatProperties
  <2> QED BY <1>2, <2>2
<1>5. Len(f) = Len(s) - 1 /\ \A j \in 1 .. Len(s) - 1 : f[j] = s[j]
  BY <1>1 DEF f
<1>6. Len(s) \in Nat
  OBVIOUS
<1>7. Len(f \o z) = Len(s)
  BY <1>4, <1>5, <1>6
<1>8. ASSUME NEW j \in 1 .. Len(s) PROVE (f \o z)[j] = s[j]
  <2>1. CASE j = Len(s)
    <3>1. ~(j <= Len(f)) /\ j - Len(f) = 1 /\ j \in 1 .. Len(f) + 1
      BY <2>1, <1>5, <1>6
    <3> QED BY <2>1, <3>1, <1>2, <1>4
  <2>2. CASE j # Len(s)
    <3>1. j <= Len(f) /\ j \in 1 .. Len(s) - 1 /\ j \in 1 .. Len(f) + 1
      BY <2>2, <1>5, <1>6
    <3> QED BY <3>1, <1>4, <1>5
  <2> QED BY <2>1, <2>2
<1>9. f \o z = s
  BY <1>4, <1>7, <1>8, SeqEqual
<1> QED BY <1>3, <1>9 DEF f, z

LEMMA LastFromRight ==
  ASSUME NEW E, NEW s \in Seq(E), NEW t \in Seq(E), Len(t) > 0
  PROVE  s \o Front(t) = Front(s \o t) /\ Last(s \o t) = Last(t) /\ Len(s \o t) > 0
<1> DEFINE l == Front(t)
           u == s \o t
           r == Front(u)
<1>0. Len(t) \in Nat \ {0} /\ Len(s) \in Nat
  OBVIOUS
<1>1. /\ l \in Seq(E) /\ Len(l) = Len(t) - 1
      /\ \A j \in 1 .. Len(t) - 1 : l[j] = t[j]
      /\ Last(t) = t[Len(t)]
  BY FrontOf
<1>2. /\ u \in Seq(E) /\ Len(u) = Len(s) + Len(t)
      /\ \A j \in 1 .. Len(s) + Len(t) : u[j] = IF j <= Len(s) THEN s[j] ELSE t[j - Len(s)]
  BY ConcatProperties
<1>3. /\ r \in Seq(E) /\ Len(r) = Len(u) - 1
      /\ \A j \in 1 .. Len(u) - 1 : r[j] = u[j]
      /\ Last(u) = u[Len(u)]
  <2> HIDE DEF u
  <2> Len(u) > 0
    BY <1>0, <1>2
  <2> QED BY <1>2, FrontOf
<1>4. /\ s \o l \in Seq(E) /\ Len(s \o l) = Len(s) + Len(l)
      /\ \A j \in 1 .. Len(s) + Len(l) : (s \o l)[j] = IF j <= Len(s) THEN s[j] ELSE l[j - Len(s)]
  <2> HIDE DEF l
  <2> QED BY <1>1, ConcatProperties
<1> HIDE DEF l, u, r
<1>5. ASSUME NEW j \in 1 .. Len(r)
      PROVE  (s \o l)[j] = r[j]
  <2>1. j \in Nat /\ j <= Len(s) + Len(t) - 1 /\ j >= 1 /\ j \in 1 .. Len(u) - 1
        /\ j \in 1 .. Len(s) + Len(t) /\ j \in 1 .. Len(s) + Len(l)
    BY <1>0, <1>1, <1>2, <1>3
  <2>2. ~(j <= Len(s)) => j - Len(s) \in 1 .. Len(t) - 1
    BY <2>1, <1>0
  <2>3. r[j] = u[j]
    BY <2>1, <1>3
  <2> QED BY <2>1, <2>2, <2>3, <1>1, <1>2, <1>4
<1>6. Len(s \o l) = Len(r)
  BY <1>0, <1>1, <1>2, <1>3, <1>4
<1>7. s \o l = r
  BY <1>3, <1>4, <1>5, <1>6, SeqEqual
<1>8. u[Len(u)] = t[Len(t)]
  <2>1. Len(u) \in 1 .. Len(s) + Len(t) /\ ~(Len(u) <= Len(s)) /\ Len(u) - Len(s) = Len(t)
    BY <1>0, <1>2
  <2> QED BY <2>1, <1>2
<1>9. Len(u) > 0
  BY <1>0, <1>2
<1> QED BY <1>1, <1>3, <1>7, <1>8, <1>9 DEF l, r, u

-----------------------------------------------------------------------------
\* The keys of a list

LEMMA KeysList ==
  ASSUME NEW s \in Seq(Entry)
  PROVE  /\ KeysOf(s) \in Seq(Keys)
         /\ Len(KeysOf(s)) = Len(s)
         /\ \A j \in 1 .. Len(s) : KeysOf(s)[j] = s[j].key
<1>1. \A j \in 1 .. Len(s) : s[j].key \in Keys
  <2>1. \A j \in 1 .. Len(s) : s[j] \in Entry
    OBVIOUS
  <2> QED BY <2>1 DEF Entry
<1>2. Len(s) \in Nat
  OBVIOUS
<1> QED BY <1>1, <1>2 DEF KeysOf

LEMMA KeysPushed ==
  ASSUME NEW s \in Seq(Entry), NEW e \in Entry
  PROVE  KeysOf(<<e>> \o s) = <<e.key>> \o KeysOf(s)
<1> DEFINE t == <<e>> \o s
           q == KeysOf(s)
           r == <<e.key>> \o q
<1>0. e.key \in Keys /\ Len(s) \in Nat
  BY DEF Entry
<1>1. t \in Seq(Entry) /\ Len(t) = Len(s) + 1 /\ t[1] = e /\ \A j \in 1 .. Len(s) : t[j + 1] = s[j]
  BY Pushed
<1>2. q \in Seq(Keys) /\ Len(q) = Len(s) /\ \A j \in 1 .. Len(s) : q[j] = s[j].key
  BY KeysList
<1>3. r \in Seq(Keys) /\ Len(r) = Len(q) + 1 /\ r[1] = e.key /\ \A j \in 1 .. Len(q) : r[j + 1] = q[j]
  <2> HIDE DEF q
  <2> QED BY <1>0, <1>2, Pushed
<1> HIDE DEF t, q, r
<1>4. KeysOf(t) \in Seq(Keys) /\ Len(KeysOf(t)) = Len(t) /\ \A j \in 1 .. Len(t) : KeysOf(t)[j] = t[j].key
  BY <1>1, KeysList
<1>5. ASSUME NEW j \in 1 .. Len(r) PROVE KeysOf(t)[j] = r[j]
  <2>1. CASE j = 1
    BY <2>1, <1>0, <1>1, <1>2, <1>3, <1>4
  <2>2. CASE j # 1
    <3>1. PICK i \in 1 .. Len(s) : j = i + 1
      <4>1. j - 1 \in 1 .. Len(s) /\ j = (j - 1) + 1
        BY <2>2, <1>0, <1>2, <1>3
      <4> QED BY <4>1
    <3>2. j \in 1 .. Len(t)
      BY <1>1, <1>2, <1>3
    <3> QED BY <3>1, <3>2, <1>1, <1>2, <1>3, <1>4
  <2> QED BY <2>1, <2>2
<1>6. KeysOf(t) = r
  BY <1>1, <1>2, <1>3, <1>4, <1>5, SeqEqual
<1> QED BY <1>6 DEF t, q, r

LEMMA KeysRemoved ==
  ASSUME NEW s \in Seq(Entry), NEW i \in 1 .. Len(s)
  PROVE  KeysOf(RemoveAt(s, i)) = RemoveAt(KeysOf(s), i)
<1> DEFINE t == RemoveAt(s, i)
           q == KeysOf(s)
           r == RemoveAt(q, i)
<1>0. Len(s) \in Nat
  OBVIOUS
<1>1. t \in Seq(Entry) /\ Len(t) = Len(s) - 1
      /\ \A j \in 1 .. Len(s) - 1 : t[j] = IF j < i THEN s[j] ELSE s[j + 1]
  BY RemovedAt
<1>2. q \in Seq(Keys) /\ Len(q) = Len(s) /\ \A j \in 1 .. Len(s) : q[j] = s[j].key
  BY KeysList
<1>3. r \in Seq(Keys) /\ Len(r) = Len(q) - 1
      /\ \A j \in 1 .. Len(q) - 1 : r[j] = IF j < i THEN q[j] ELSE q[j + 1]
  <2> HIDE DEF q
  <2> i \in 1 .. Len(q)
    BY <1>2
  <2> QED BY <1>2, RemovedAt
<1> HIDE DEF t, q, r
<1>4. KeysOf(t) \in Seq(Keys) /\ Len(KeysOf(t)) = Len(t) /\ \A j \in 1 .. Len(t) : KeysOf(t)[j] = t[j].key
  BY <1>1, KeysList
<1>5. ASSUME NEW j \in 1 .. Len(r) PROVE KeysOf(t)[j] = r[j]
  <2>1. j \in 1 .. Len(s) - 1 /\ j \in 1 .. Len(s) /\ j + 1 \in 1 .. Len(s)
    BY <1>0, <1>2, <1>3
  <2> QED BY <2>1, <1>1, <1>2, <1>3, <1>4
<1>6. KeysOf(t) = r
  BY <1>1, <1>2, <1>3, <1>4, <1>5, SeqEqual
<1> QED BY <1>6 DEF t, q, r

LEMMA KeysFront ==
  ASSUME NEW s \in Seq(Entry), Len(s) > 0
  PROVE  KeysOf(Front(s)) = Front(KeysOf(s)) /\ Last(KeysOf(s)) = Last(s).key
<1> DEFINE t == Front(s)
           q == KeysOf(s)
           r == Front(q)
<1>0. Len(s) \in Nat
  OBVIOUS
<1>1. t \in Seq(Entry) /\ Len(t) = Len(s) - 1 /\ Last(s) = s[Len(s)]
      /\ \A j \in 1 .. Len(s) - 1 : t[j] = s[j]
  BY FrontOf
<1>2. q \in Seq(Keys) /\ Len(q) = Len(s) /\ \A j \in 1 .. Len(s) : q[j] = s[j].key
  BY KeysList
<1>3. r \in Seq(Keys) /\ Len(r) = Len(q) - 1 /\ Last(q) = q[Len(q)]
      /\ \A j \in 1 .. Len(q) - 1 : r[j] = q[j]
  <2> HIDE DEF q
  <2> QED BY <1>2, FrontOf
<1> HIDE DEF t, q, r
<1>4. KeysOf(t) \in Seq(Keys) /\ Len(KeysOf(t)) = Len(t) /\ \A j \in 1 .. Len(t) : KeysOf(t)[j] = t[j].key
  BY <1>1, KeysList
<1>5. ASSUME NEW j \in 1 .. Len(r) PROVE KeysOf(t)[j] = r[j]
  <2>1. j \in 1 .. Len(s) - 1 /\ j \in 1 .. Len(s)
    BY <1>0, <1>2, <1>3
  <2> QED BY <2>1, <1>1, <1>2, <1>3, <1>4
<1>6. KeysOf(t) = r
  BY <1>1, <1>2, <1>3, <1>4, <1>5, SeqEqual
<1>7. Last(q) = Last(s).key
  BY <1>0, <1>1, <1>2, <1>3
<1> QED BY <1>6, <1>7 DEF t, q, r


-----------------------------------------------------------------------------
\* One list of buckets

\* Two lists that share no key make one list without duplicates.
LEMMA Joined ==
  ASSUME NEW s \in Seq(Entry), NEW t \in Seq(Entry),
         Injective(s), Injective(t), Apart(s, t)
  PROVE  /\ s \o t \in Seq(Entry)
         /\ Len(s \o t) = Len(s) + Len(t)
         /\ \A j \in 1 .. Len(s) : (s \o t)[j] = s[j]
         /\ \A j \in 1 .. Len(t) : (s \o t)[Len(s) + j] = t[j]
         /\ EntriesOf(s \o t) = EntriesOf(s) \cup EntriesOf(t)
         /\ Injective(s \o t)
<1> DEFINE u == s \o t
<1>0. Len(s) \in Nat /\ Len(t) \in Nat
  OBVIOUS
<1>1. /\ u \in Seq(Entry) /\ Len(u) = Len(s) + Len(t)
      /\ \A j \in 1 .. Len(s) + Len(t) : u[j] = IF j <= Len(s) THEN s[j] ELSE t[j - Len(s)]
  BY ConcatProperties
<1> HIDE DEF u
<1>2. \A j \in 1 .. Len(s) : j \in 1 .. Len(u) /\ u[j] = s[j]
  BY <1>0, <1>1
<1>3. \A j \in 1 .. Len(t) : Len(s) + j \in 1 .. Len(u) /\ u[Len(s) + j] = t[j]
  <2> TAKE j \in 1 .. Len(t)
  <2>1. ~(Len(s) + j <= Len(s)) /\ Len(s) + j \in 1 .. Len(s) + Len(t) /\ Len(s) + j - Len(s) = j
    BY <1>0
  <2> QED BY <2>1, <1>1
<1>4. \A j \in 1 .. Len(u) : \/ j \in 1 .. Len(s) /\ u[j] = s[j]
                             \/ \E m \in 1 .. Len(t) : j = Len(s) + m /\ u[j] = t[m]
  <2> TAKE j \in 1 .. Len(u)
  <2>1. CASE j <= Len(s)
    <3>1. j \in 1 .. Len(s)
      BY <2>1, <1>0
    <3> QED BY <3>1, <1>2
  <2>2. CASE ~(j <= Len(s))
    <3>1. j - Len(s) \in 1 .. Len(t) /\ j = Len(s) + (j - Len(s))
      BY <2>2, <1>0, <1>1
    <3> QED BY <3>1, <2>2, <1>1
  <2> QED BY <2>1, <2>2
<1>5. EntriesOf(u) = EntriesOf(s) \cup EntriesOf(t)
  <2>1. \A x \in EntriesOf(u) : x \in EntriesOf(s) \cup EntriesOf(t)
    BY <1>4 DEF EntriesOf
  <2>2. \A x \in EntriesOf(s) \cup EntriesOf(t) : x \in EntriesOf(u)
    BY <1>2, <1>3 DEF EntriesOf
  <2> QED BY <2>1, <2>2
<1>6. Injective(u)
  <2> SUFFICES ASSUME NEW i \in 1 .. Len(u), NEW j \in 1 .. Len(u), u[i].key = u[j].key
               PROVE  i = j
    BY DEF Injective
  <2>1. \A a \in 1 .. Len(s), b \in 1 .. Len(t) : s[a].key # t[b].key
    BY DEF Apart, EntriesOf
  <2>2. CASE i \in 1 .. Len(s) /\ u[i] = s[i]
    <3>1. ~ \E m \in 1 .. Len(t) : j = Len(s) + m /\ u[j] = t[m]
      BY <2>1, <2>2
    <3>2. j \in 1 .. Len(s) /\ u[j] = s[j]
      BY <3>1, <1>4
    <3> QED BY <2>2, <3>2 DEF Injective
  <2>3. CASE \E m \in 1 .. Len(t) : i = Len(s) + m /\ u[i] = t[m]
    <3>1. PICK m \in 1 .. Len(t) : i = Len(s) + m /\ u[i] = t[m]
      BY <2>3
    <3>2. ~(j \in 1 .. Len(s) /\ u[j] = s[j])
      BY <2>1, <3>1
    <3>3. PICK n \in 1 .. Len(t) : j = Len(s) + n /\ u[j] = t[n]
      BY <3>2, <1>4
    <3>4. m = n
      BY <3>1, <3>3 DEF Injective
    <3> QED BY <3>1, <3>3, <3>4
  <2> QED BY <2>2, <2>3, <1>4
<1> QED BY <1>1, <1>2, <1>3, <1>5, <1>6 DEF u

\* The entry of a key in a list without duplicates.
LEMMA EntryOfKey ==
  ASSUME NEW s \in Seq(Entry), Injective(s)
  PROVE  /\ \A e \in EntriesOf(s) :
              Lists(s, e.key) /\ (CHOOSE x \in ToSet(s) : x.key = e.key) = e
         /\ \A k : Lists(s, k) => ~Free(s, k)
<1>1. ToSet(s) = EntriesOf(s)
  BY DEF ToSet, EntriesOf
<1>2. \A x, y \in EntriesOf(s) : x.key = y.key => x = y
  BY DEF EntriesOf, Injective
<1>3. ASSUME NEW e \in EntriesOf(s)
      PROVE  Lists(s, e.key) /\ (CHOOSE x \in ToSet(s) : x.key = e.key) = e
  BY <1>1, <1>2 DEF EntriesOf, Lists
<1>4. \A k : Lists(s, k) => ~Free(s, k)
  BY DEF Lists, Free, EntriesOf
<1> QED BY <1>3, <1>4

\* The two lists seen as one, and the buckets read from it.
OneList ==
  /\ Tracked \in Seq(Entry)
  /\ Len(Tracked) = Len(active) + Len(snapshot)
  /\ Injective(Tracked)
  /\ EntriesOf(Tracked) = Residents
  /\ \A e \in Residents : BucketOf(e.key) = tokens[e.limiter]
  /\ \A k \in Keys : Free(Tracked, k) => BucketOf(k) = Burst

LEMMA ListsJoined == LimiterInv => OneList
<1> SUFFICES ASSUME LimiterInv PROVE OneList
  OBVIOUS
<1>1. /\ Tracked \in Seq(Entry) /\ Len(Tracked) = Len(active) + Len(snapshot)
      /\ Injective(Tracked) /\ EntriesOf(Tracked) = Residents
  BY Joined DEF LimiterInv, LimiterTypeOK, Placed, Tracked, Residents
<1> HIDE DEF Tracked
<1>2. \A e \in Residents : BucketOf(e.key) = tokens[e.limiter]
  BY <1>1, EntryOfKey DEF BucketOf
<1>3. \A k \in Keys : Free(Tracked, k) => BucketOf(k) = Burst
  BY <1>1, EntryOfKey DEF BucketOf
<1> QED BY <1>1, <1>2, <1>3 DEF OneList

\* A caller holds the bucket of its key or one that was forgotten: nobody
\* else's.
Owned ==
  \A c \in Callers : \A x \in Residents :
    holds[c] # NoEntry /\ holds[c].limiter = x.limiter => holds[c] = x

-----------------------------------------------------------------------------
\* What limiterForKey does to the one list

LEMMA PromoteMoves ==
  ASSUME LimiterInv, OneList, NEW c \in Callers, NEW k \in Keys, Promote(c, k)
  PROVE  \E i \in 1 .. Len(Tracked) :
           /\ Tracked[i].key = k
           /\ Tracked' = <<Tracked[i]>> \o RemoveAt(Tracked, i)
           /\ Hand(c, Tracked[i])
<1>1. PICK i \in 1 .. Len(active) :
         /\ active[i].key = k
         /\ active' = <<active[i]>> \o RemoveAt(active, i)
         /\ Hand(c, active[i])
  BY DEF Promote, At
<1>2. snapshot' = snapshot
  BY DEF Promote
<1>3. active \in Seq(Entry) /\ snapshot \in Seq(Entry)
  BY DEF LimiterInv, LimiterTypeOK
<1>4. i \in 1 .. Len(Tracked) /\ Tracked[i] = active[i]
  <2>1. Len(active) \in Nat /\ Len(snapshot) \in Nat
    BY <1>3
  <2>2. Tracked[i] = active[i]
    BY <1>3, Joined DEF LimiterInv, Placed, Tracked
  <2> QED BY <2>1, <2>2 DEF OneList
<1>5. RemoveAt(active, i) \in Seq(Entry) /\ <<active[i]>> \in Seq(Entry)
  BY <1>3, RemovedAt
<1>6. Tracked' = <<active[i]>> \o (RemoveAt(active, i) \o snapshot)
  BY <1>1, <1>2, <1>3, <1>5, ConcatAssociative DEF Tracked
<1>7. RemoveAt(active, i) \o snapshot = RemoveAt(Tracked, i)
  BY <1>3, RemovedFromLeft DEF Tracked
<1> QED BY <1>1, <1>4, <1>6, <1>7

LEMMA RestoreMoves ==
  ASSUME LimiterAssumption, LimiterInv, OneList, NEW c \in Callers, NEW k \in Keys, Restore(c, k)
  PROVE  \E i \in 1 .. Len(Tracked) :
           /\ Tracked[i].key = k
           /\ Tracked' = <<Tracked[i]>> \o RemoveAt(Tracked, i)
           /\ Hand(c, Tracked[i])
<1>1. PICK i \in 1 .. Len(snapshot) :
         /\ snapshot[i].key = k
         /\ Admit(snapshot[i], RemoveAt(snapshot, i))
         /\ Hand(c, snapshot[i])
  BY DEF Restore, At
<1>2. /\ active \in Seq(Entry) /\ snapshot \in Seq(Entry)
      /\ Len(active) \in Nat /\ Len(snapshot) \in Nat \ {0} /\ MaxKeys \in Nat \ {0}
      /\ Len(active) <= MaxKeys /\ Len(snapshot) <= MaxKeys
  BY DEF LimiterInv, LimiterTypeOK, LimiterAssumption
<1>3. Len(active) >= MaxKeys /\ Len(active) > 0
  BY <1>2 DEF LimiterInv, Filled
<1> DEFINE e == snapshot[i]
           rest == RemoveAt(snapshot, i)
           p == Len(active) + i
<1>4. p \in 1 .. Len(Tracked) /\ Tracked[p] = e
  <2>1. Tracked[p] = e
    BY <1>2, Joined DEF LimiterInv, Placed, Tracked
  <2> QED BY <2>1, <1>2 DEF OneList
<1>5. rest \in Seq(Entry) /\ Len(rest) = Len(snapshot) - 1 /\ <<e>> \in Seq(Entry)
  BY <1>2, RemovedAt
<1>6. /\ active' = <<e>> \o Front(active)
      /\ snapshot' = <<Last(active)>> \o rest
  <2>1. ~(Len(rest) >= MaxKeys)
    BY <1>2, <1>5
  <2> QED BY <2>1, <1>1, <1>3 DEF Admit, StoreSnapshot
<1>7. Front(active) \in Seq(Entry) /\ <<Last(active)>> \o rest \in Seq(Entry)
  <2>1. Front(active) \in Seq(Entry) /\ Last(active) \in Entry
    BY <1>2, <1>3, FrontOf
  <2> HIDE DEF rest
  <2> QED BY <1>5, <2>1, Pushed
<1> HIDE DEF e, rest
<1>8. Tracked' = <<e>> \o (Front(active) \o (<<Last(active)>> \o rest))
  BY <1>5, <1>6, <1>7, ConcatAssociative DEF Tracked
<1>9. Front(active) \o (<<Last(active)>> \o rest) = active \o rest
  BY <1>2, <1>3, <1>5, Spilled
<1>10. active \o rest = RemoveAt(Tracked, p)
  BY <1>2, RemovedFromRight DEF Tracked, rest
<1> HIDE DEF p
<1>11. Tracked' = <<Tracked[p]>> \o RemoveAt(Tracked, p)
  BY <1>4, <1>8, <1>9, <1>10
<1>12. Tracked[p].key = k /\ Hand(c, Tracked[p])
  BY <1>1, <1>4 DEF e
<1> QED BY <1>4, <1>11, <1>12

LEMMA CreateMoves ==
  ASSUME LimiterAssumption, LimiterInv, OneList, NEW c \in Callers, NEW k \in Keys, Create(c, k),
         NEW e, e = [key |-> k, limiter |-> made + 1]
  PROVE  /\ e \in Entry /\ Free(Tracked, k) /\ Hand(c, e)
         /\ IF Len(Tracked) < 2 * MaxKeys
            THEN Tracked' = <<e>> \o Tracked
            ELSE Len(Tracked) > 0 /\ Tracked' = <<e>> \o Front(Tracked)
<1>1. /\ active \in Seq(Entry) /\ snapshot \in Seq(Entry)
      /\ Len(active) \in Nat /\ Len(snapshot) \in Nat /\ MaxKeys \in Nat \ {0}
      /\ Len(active) <= MaxKeys /\ Len(snapshot) <= MaxKeys
  BY DEF LimiterInv, LimiterTypeOK, LimiterAssumption
<1>2. e \in Entry
  BY DEF Create, LimiterInv, LimiterTypeOK, Entry, Limiters, LimiterAssumption
<1>3. Free(Tracked, k)
  <2>1. \A x \in EntriesOf(active) \cup EntriesOf(snapshot) : x.key # k
    BY DEF Create, Lists, EntriesOf
  <2> QED BY <2>1 DEF Free, OneList, Residents
<1>4. Hand(c, e) /\ Admit(e, snapshot)
  BY DEF Create
<1>5. Len(Tracked) = Len(active) + Len(snapshot)
  BY DEF OneList
<1>6. <<e>> \in Seq(Entry)
  BY <1>2
<1>7. CASE ~(Len(active) >= MaxKeys)
  <2>1. active' = <<e>> \o active /\ snapshot' = snapshot
    BY <1>4, <1>7 DEF Admit
  <2>2. snapshot = <<>>
    BY <1>1, <1>7 DEF LimiterInv, Filled
  <2>3. Len(Tracked) < 2 * MaxKeys
    BY <2>2, <1>1, <1>5, <1>7
  <2>4. Tracked' = <<e>> \o Tracked
    BY <2>1, <1>1, <1>6, ConcatAssociative DEF Tracked
  <2> QED BY <1>2, <1>3, <1>4, <2>3, <2>4
<1>8. CASE Len(active) >= MaxKeys
  <2> DEFINE kept == IF Len(snapshot) >= MaxKeys THEN Front(snapshot) ELSE snapshot
  <2>1. active' = <<e>> \o Front(active) /\ snapshot' = <<Last(active)>> \o kept
    BY <1>4, <1>8 DEF Admit, StoreSnapshot
  <2>2. Front(active) \in Seq(Entry) /\ Last(active) \in Entry /\ Len(active) > 0
    BY <1>1, <1>8, FrontOf
  <2>3. kept \in Seq(Entry)
    BY <1>1, FrontOf
  <2> HIDE DEF kept
  <2>4. <<Last(active)>> \o kept \in Seq(Entry)
    BY <2>2, <2>3, Pushed
  <2>5. Tracked' = <<e>> \o (Front(active) \o (<<Last(active)>> \o kept))
    BY <2>1, <2>2, <2>4, <1>6, ConcatAssociative DEF Tracked
  <2>6. Front(active) \o (<<Last(active)>> \o kept) = active \o kept
    BY <2>2, <2>3, <1>1, Spilled
  <2>7. CASE Len(snapshot) >= MaxKeys
    <3>1. ~(Len(Tracked) < 2 * MaxKeys) /\ Len(snapshot) > 0
      BY <2>7, <1>1, <1>5, <1>8
    <3>2. active \o kept = Front(Tracked) /\ Len(Tracked) > 0
      BY <2>7, <3>1, <1>1, LastFromRight DEF kept, Tracked
    <3> QED BY <3>1, <3>2, <2>5, <2>6, <1>2, <1>3, <1>4
  <2>8. CASE ~(Len(snapshot) >= MaxKeys)
    <3>1. Len(Tracked) < 2 * MaxKeys
      BY <2>8, <1>1, <1>5
    <3>2. active \o kept = Tracked
      BY <2>8 DEF kept, Tracked
    <3> QED BY <3>1, <3>2, <2>5, <2>6, <1>2, <1>3, <1>4
  <2> QED BY <2>7, <2>8
<1> QED BY <1>7, <1>8

-----------------------------------------------------------------------------
\* Steps of the one list

LEMMA NoEntryNoKey ==
  ASSUME LimiterAssumption, NEW e \in Entry
  PROVE  e # NoEntry /\ e.key \in Keys /\ e.key # NoEntry
<1>1. e.key \in Keys
  BY DEF Entry
<1>2. DOMAIN e = {"key", "limiter"}
  BY DEF Entry
<1>3. DOMAIN <<>> = {}
  OBVIOUS
<1>4. e # <<>>
  BY <1>2, <1>3
<1> QED BY <1>1, <1>4 DEF NoEntry, LimiterAssumption

\* A caller is handed the entry of the key it asks for.
LEMMA Handed ==
  ASSUME LimiterAssumption, LimiterInv, NEW c \in Callers, NEW e \in Entry,
         holds[c] = NoEntry, Hand(c, e)
  PROVE  Asked[c] = NoEntry /\ Asked' = [Asked EXCEPT ![c] = e.key]
<1>1. \A d \in Callers : holds'[d] = IF d = c THEN e ELSE holds[d]
  BY DEF Hand, LimiterInv, LimiterTypeOK
<1>2. e # NoEntry
  BY NoEntryNoKey
<1> QED BY <1>1, <1>2 DEF Asked

\* An entry of the list is moved to its front: no bucket changes.
LEMMA MoveStep ==
  ASSUME LimiterAssumption, LimiterInv, OneList, OneList', Owned,
         NEW c \in Callers, NEW k \in Keys, holds[c] = NoEntry,
         NEW i \in 1 .. Len(Tracked), Tracked[i].key = k,
         Tracked' = <<Tracked[i]>> \o RemoveAt(Tracked, i),
         Hand(c, Tracked[i]), tokens' = tokens
  PROVE  Owned' /\ Buckets!Use(c, k)
<1> DEFINE e == Tracked[i]
           rest == RemoveAt(Tracked, i)
<1>1. e \in Entry /\ e \in EntriesOf(Tracked) /\ rest \in Seq(Entry)
  BY RemovedAt DEF OneList, EntriesOf
<1>2. /\ EntriesOf(rest) = EntriesOf(Tracked) \ {e}
      /\ Injective(rest)
      /\ Free(rest, e.key)
  BY RemovedEntries DEF OneList
<1>3. EntriesOf(Tracked') = {e} \cup EntriesOf(rest)
  <2> HIDE DEF rest, e
  <2>1. Tracked' = <<e>> \o rest
    BY DEF e, rest
  <2> QED BY <1>1, <1>2, <2>1, PushedEntries
<1>4. Residents' = Residents
  BY <1>1, <1>2, <1>3 DEF OneList
<1>5. KeysOf(Tracked)' = <<k>> \o RemoveAt(KeysOf(Tracked), i)
  <2>1. KeysOf(<<e>> \o rest) = <<e.key>> \o KeysOf(rest)
    <3> HIDE DEF e, rest
    <3> QED BY <1>1, KeysPushed
  <2>2. KeysOf(rest) = RemoveAt(KeysOf(Tracked), i)
    BY KeysRemoved DEF OneList
  <2>3. KeysOf(Tracked)' = KeysOf(<<e>> \o rest)
    BY DEF KeysOf
  <2> QED BY <2>1, <2>2, <2>3
<1>6. KeysOf(Tracked)[i] = k /\ i \in 1 .. Len(KeysOf(Tracked))
  BY KeysList DEF OneList
<1>7. \A j \in Keys : BucketOf(j)' = BucketOf(j)
  <2> TAKE j \in Keys
  <2>1. CASE Free(Tracked, j)
    <3>1. Free(Tracked, j)'
      BY <2>1, <1>4 DEF Free, OneList
    <3> QED BY <2>1, <3>1 DEF OneList
  <2>2. CASE ~Free(Tracked, j)
    <3>1. PICK x \in Residents : x.key = j
      BY <2>2 DEF Free, OneList
    <3>2. BucketOf(j) = tokens[x.limiter]
      BY <3>1 DEF OneList
    <3>3. BucketOf(j)' = tokens'[x.limiter]
      BY <3>1, <1>4 DEF OneList
    <3> QED BY <3>2, <3>3
  <2> QED BY <2>1, <2>2
<1>0. e.key = k /\ Hand(c, e)
  OBVIOUS
<1> HIDE DEF e, rest
<1>8. Asked[c] = NoEntry /\ Asked' = [Asked EXCEPT ![c] = k]
  BY <1>0, <1>1, Handed
<1>9. Owned'
  <2>1. \A d \in Callers : holds'[d] = IF d = c THEN e ELSE holds[d]
    BY <1>0 DEF Hand, LimiterInv, LimiterTypeOK
  <2>2. e \in Residents
    BY <1>1 DEF OneList
  <2> QED BY <2>1, <2>2, <1>4 DEF Owned, LimiterInv, Fresh
<1>10. UNCHANGED [j \in Keys |-> BucketOf(j)]
  BY <1>7
<1>11. \E n \in 1 .. Len(KeysOf(Tracked)) :
         /\ KeysOf(Tracked)[n] = k
         /\ KeysOf(Tracked)' = <<k>> \o RemoveAt(KeysOf(Tracked), n)
         /\ UNCHANGED [j \in Keys |-> BucketOf(j)]
  BY <1>5, <1>6, <1>10
<1> QED BY <1>8, <1>9, <1>11 DEF Buckets!Use, Buckets!RemoveAt, RemoveAt

\* A new entry is pushed to the front of the list, and the last one is
\* forgotten when both lists are full.
LEMMA PushStep ==
  ASSUME LimiterAssumption, LimiterInv, OneList, OneList', Owned,
         NEW c \in Callers, NEW k \in Keys, Create(c, k)
  PROVE  Owned' /\ Buckets!Use(c, k)
<1> DEFINE e == [key |-> k, limiter |-> made + 1]
           rest == IF Len(Tracked) < 2 * MaxKeys THEN Tracked ELSE Front(Tracked)
<1>1. /\ e \in Entry /\ Free(Tracked, k) /\ Hand(c, e)
      /\ Tracked' = <<e>> \o rest
      /\ ~(Len(Tracked) < 2 * MaxKeys) => Len(Tracked) > 0
  BY CreateMoves
<1>2. holds[c] = NoEntry /\ tokens' = tokens /\ tokens[e.limiter] = Burst
  <2>1. made + 1 \in Limiters /\ made + 1 > made
    BY DEF Create, LimiterInv, LimiterTypeOK, Limiters, LimiterAssumption
  <2> QED BY <2>1 DEF Create, LimiterInv, Fresh
<1>3. /\ rest \in Seq(Entry) /\ Injective(rest) /\ EntriesOf(rest) \subseteq EntriesOf(Tracked)
      /\ Len(Tracked) < 2 * MaxKeys => EntriesOf(rest) = EntriesOf(Tracked)
      /\ ~(Len(Tracked) < 2 * MaxKeys) =>
           /\ EntriesOf(rest) = EntriesOf(Tracked) \ {Last(Tracked)}
           /\ Last(Tracked) \in EntriesOf(Tracked)
           /\ Free(rest, Last(Tracked).key)
  BY <1>1, FrontOf, FrontEntries DEF OneList
<1>4. Free(rest, k) /\ e.key = k
  BY <1>1, <1>3 DEF Free
<1> HIDE DEF e, rest
<1>5. Residents' = {e} \cup EntriesOf(rest)
  BY <1>1, <1>3, <1>4, PushedEntries DEF OneList
<1>6. KeysOf(Tracked)' = <<k>> \o KeysOf(rest)
  <2>1. KeysOf(<<e>> \o rest) = <<k>> \o KeysOf(rest)
    BY <1>1, <1>3, <1>4, KeysPushed
  <2> QED BY <1>1, <2>1 DEF KeysOf
<1>7. \A i \in 1 .. Len(KeysOf(Tracked)) : KeysOf(Tracked)[i] # k
  <2>1. \A i \in 1 .. Len(Tracked) : Tracked[i].key # k
    BY <1>1 DEF Free, EntriesOf
  <2> QED BY <2>1, KeysList DEF OneList
<1>8. Asked[c] = NoEntry /\ Asked' = [Asked EXCEPT ![c] = k]
  BY <1>1, <1>2, <1>4, Handed
<1>9. Owned'
  <2>1. \A d \in Callers : holds'[d] = IF d = c THEN e ELSE holds[d]
    BY <1>1 DEF Hand, LimiterInv, LimiterTypeOK
  <2>2. e.limiter = made + 1 /\ made \in Nat
    BY DEF e, LimiterInv, LimiterTypeOK
  <2>3. \A d \in Callers : holds[d] # NoEntry => holds[d].limiter # e.limiter
    <3>1. \A d \in Callers : holds[d] # NoEntry => holds[d].limiter \in Nat /\ holds[d].limiter <= made
      BY DEF LimiterInv, LimiterTypeOK, Fresh, Entry, Limiters
    <3> QED BY <3>1, <2>2
  <2>4. \A x \in Residents : x.limiter # e.limiter
    <3>1. \A x \in Residents : x \in Entry
      BY ElementOfSeq DEF EntriesOf, OneList
    <3>2. \A x \in Residents : x.limiter \in Nat /\ x.limiter <= made
      BY <3>1 DEF LimiterInv, Fresh, Entry, Limiters
    <3> QED BY <3>2, <2>2
  <2>5. EntriesOf(rest) \subseteq Residents
    BY <1>3 DEF OneList
  <2> QED BY <2>1, <2>3, <2>4, <2>5, <1>5 DEF Owned
<1>10. \A j \in Keys : Free(rest, j) => BucketOf(j)' = Burst
  <2> TAKE j \in Keys
  <2> HAVE Free(rest, j)
  <2>1. CASE j = k
    BY <2>1, <1>2, <1>4, <1>5 DEF OneList
  <2>2. CASE j # k
    <3>1. Free(Tracked, j)'
      BY <2>2, <1>4, <1>5 DEF Free, OneList
    <3> QED BY <3>1 DEF OneList
  <2> QED BY <2>1, <2>2
<1>11. \A x \in EntriesOf(rest) : BucketOf(x.key)' = BucketOf(x.key)
  BY <1>2, <1>3, <1>5 DEF OneList
<1>12. CASE Len(Tracked) < 2 * MaxKeys
  <2>1. rest = Tracked
    BY <1>12 DEF rest
  <2>2. \A j \in Keys : BucketOf(j)' = BucketOf(j)
    BY <2>1, <1>10, <1>11 DEF Free, OneList
  <2>3. UNCHANGED [j \in Keys |-> BucketOf(j)]
    BY <2>2
  <2>4. Len(KeysOf(Tracked)) < 2 * MaxKeys
    BY <1>12, KeysList DEF OneList
  <2> QED BY <2>1, <2>3, <2>4, <1>6, <1>7, <1>8, <1>9 DEF Buckets!Use
<1>13. CASE ~(Len(Tracked) < 2 * MaxKeys)
  <2>1. rest = Front(Tracked)
    BY <1>13 DEF rest
  <2> DEFINE l == Last(Tracked)
  <2>2. l \in Entry /\ l.key \in Keys
    <3>1. l \in Entry
      BY <1>1, <1>13, FrontOf DEF OneList
    <3> QED BY <3>1 DEF Entry
  <2>3. KeysOf(Front(Tracked)) = Front(KeysOf(Tracked)) /\ Last(KeysOf(Tracked)) = l.key
    BY <1>1, <1>13, KeysFront DEF OneList
  <2>4. \A j \in Keys : j = l.key => BucketOf(j)' = Burst
    BY <1>3, <1>10, <1>13
  <2>5. \A j \in Keys : j # l.key => BucketOf(j)' = BucketOf(j)
    <3> SUFFICES ASSUME NEW j \in Keys, j # l.key PROVE BucketOf(j)' = BucketOf(j)
      OBVIOUS
    <3>1. CASE Free(rest, j)
      <4>1. Free(Tracked, j)
        BY <3>1, <1>3, <1>13 DEF Free
      <4> QED BY <3>1, <4>1, <1>10 DEF OneList
    <3>2. CASE ~Free(rest, j)
      BY <3>2, <1>11 DEF Free
    <3> QED BY <3>1, <3>2
  <2> HIDE DEF l
  <2>6. [j \in Keys |-> BucketOf(j)]' = [[j \in Keys |-> BucketOf(j)] EXCEPT ![l.key] = Burst]
    <3>1. \A j \in Keys : BucketOf(j)' = IF j = l.key THEN Burst ELSE BucketOf(j)
      BY <2>4, <2>5
    <3> QED BY <3>1, <2>2
  <2>7. ~(Len(KeysOf(Tracked)) < 2 * MaxKeys)
    BY <1>13, KeysList DEF OneList
  <2> QED BY <2>1, <2>3, <2>6, <2>7, <1>6, <1>7, <1>8, <1>9
       DEF Buckets!Use, Buckets!Front, Buckets!Last, Front, Last
<1> QED BY <1>12, <1>13

\* A caller that is answered takes a token of its key's bucket, or leaves the
\* buckets alone: the one it was handed is empty or forgotten.
LEMMA GrantAnswers ==
  ASSUME LimiterAssumption, LimiterInv, OneList, OneList', Owned,
         NEW c \in Callers, Grant(c)
  PROVE  Owned' /\ Buckets!Answer(c)
<1> DEFINE e == holds[c]
<1>1. e \in Entry /\ e # NoEntry /\ tokens[e.limiter] > 0
  BY DEF Grant, LimiterInv, LimiterTypeOK
<1>2. e.key \in Keys /\ e.limiter \in Limiters /\ e.key # NoEntry
  BY <1>1, NoEntryNoKey DEF Entry
<1>3. /\ tokens' = [tokens EXCEPT ![e.limiter] = @ - 1]
      /\ holds' = [holds EXCEPT ![c] = NoEntry]
      /\ UNCHANGED <<active, snapshot>>
  BY DEF Grant, Release
<1>4. Asked[c] = e.key
  BY <1>1 DEF Asked
<1> HIDE DEF e
<1>5. Residents' = Residents /\ Tracked' = Tracked /\ KeysOf(Tracked)' = KeysOf(Tracked)
  BY <1>3 DEF Residents, Tracked, KeysOf
<1>6. \A d \in Callers : holds'[d] = IF d = c THEN NoEntry ELSE holds[d]
  BY <1>3 DEF LimiterInv, LimiterTypeOK
<1>7. Owned'
  BY <1>5, <1>6 DEF Owned
<1>8. Asked' = [Asked EXCEPT ![c] = NoEntry]
  BY <1>6 DEF Asked
<1>9. \A l \in Limiters : tokens'[l] = IF l = e.limiter THEN tokens[l] - 1 ELSE tokens[l]
  BY <1>3 DEF LimiterInv, LimiterTypeOK
<1>10. \A x \in Residents : x.key \in Keys /\ x.limiter \in Limiters
  <2>1. \A x \in Residents : x \in Entry
    BY ElementOfSeq DEF EntriesOf, OneList
  <2> QED BY <2>1 DEF Entry
<1>11. \A j \in Keys : Free(Tracked, j) => BucketOf(j)' = BucketOf(j)
  <2> TAKE j \in Keys
  <2> HAVE Free(Tracked, j)
  <2>1. Free(Tracked, j)'
    BY <1>5 DEF Free
  <2> QED BY <2>1 DEF OneList
<1>12. CASE e \in Residents
  <2>1. \A x \in Residents : x # e => x.limiter # e.limiter /\ x.key # e.key
    <3>1. \A x \in Residents : x # e => x.key # e.key
      BY <1>12 DEF OneList, Injective, EntriesOf
    <3> QED BY <3>1, <1>12 DEF LimiterInv, Fresh
  <2>2. /\ BucketOf(e.key) = tokens[e.limiter]
        /\ \A j \in Keys : j = e.key => BucketOf(j)' = tokens[e.limiter] - 1
    <3>1. BucketOf(e.key) = tokens[e.limiter]
      BY <1>12 DEF OneList
    <3>2. ASSUME NEW j \in Keys, j = e.key
          PROVE  BucketOf(j)' = tokens'[e.limiter]
      <4>1. PICK x \in Residents : x = e
        BY <1>12
      <4>2. BucketOf(x.key)' = tokens'[x.limiter]
        BY <1>5 DEF OneList
      <4> QED BY <3>2, <4>1, <4>2
    <3> QED BY <3>1, <3>2, <1>2, <1>9
  <2>3. ASSUME NEW j \in Keys, j # e.key
        PROVE  BucketOf(j)' = BucketOf(j)
    <3>1. CASE Free(Tracked, j)
      BY <3>1, <1>11
    <3>2. CASE ~Free(Tracked, j)
      <4>1. PICK x \in Residents : x.key = j
        BY <3>2 DEF Free, OneList
      <4>2. BucketOf(j) = tokens[x.limiter]
        BY <4>1 DEF OneList
      <4>3. BucketOf(j)' = tokens'[x.limiter]
        BY <4>1, <1>5 DEF OneList
      <4>4. x.limiter \in Limiters /\ x.limiter # e.limiter
        BY <4>1, <2>1, <2>3, <1>10
      <4> QED BY <4>2, <4>3, <4>4, <1>9
    <3> QED BY <3>1, <3>2
  <2>4. \A j \in Keys : BucketOf(j)' = IF j = e.key THEN tokens[e.limiter] - 1 ELSE BucketOf(j)
    BY <2>2, <2>3
  <2>5. [j \in Keys |-> BucketOf(j)]' = [[j \in Keys |-> BucketOf(j)] EXCEPT ![e.key] = @ - 1]
    BY <2>2, <2>4, <1>2
  <2>6. [j \in Keys |-> BucketOf(j)][e.key] > 0
    BY <2>2, <1>1, <1>2
  <2> QED BY <2>5, <2>6, <1>2, <1>4, <1>5, <1>7, <1>8 DEF Buckets!Answer
<1>13. CASE e \notin Residents
  <2>1. \A x \in Residents : x.limiter # e.limiter
    BY <1>1, <1>13 DEF Owned, e
  <2>2. ASSUME NEW j \in Keys
        PROVE  BucketOf(j)' = BucketOf(j)
    <3>1. CASE Free(Tracked, j)
      BY <3>1, <1>11
    <3>2. CASE ~Free(Tracked, j)
      <4>1. PICK x \in Residents : x.key = j
        BY <3>2 DEF Free, OneList
      <4>2. BucketOf(j) = tokens[x.limiter]
        BY <4>1 DEF OneList
      <4>3. BucketOf(j)' = tokens'[x.limiter]
        BY <4>1, <1>5 DEF OneList
      <4>4. x.limiter \in Limiters /\ x.limiter # e.limiter
        BY <2>1, <1>10
      <4> QED BY <4>2, <4>3, <4>4, <1>9
    <3> QED BY <3>1, <3>2
  <2>3. UNCHANGED [j \in Keys |-> BucketOf(j)]
    BY <2>2
  <2> QED BY <2>3, <1>2, <1>4, <1>5, <1>7, <1>8 DEF Buckets!Answer
<1> QED BY <1>12, <1>13

LEMMA DenyAnswers ==
  ASSUME LimiterAssumption, LimiterInv, Owned, NEW c \in Callers, Deny(c)
  PROVE  Owned' /\ Buckets!Answer(c)
<1> DEFINE e == holds[c]
<1>1. e \in Entry /\ e # NoEntry
  BY DEF Deny, LimiterInv, LimiterTypeOK
<1>2. e.key # NoEntry
  BY <1>1, NoEntryNoKey
<1>3. holds' = [holds EXCEPT ![c] = NoEntry] /\ UNCHANGED <<active, snapshot, tokens>>
  BY DEF Deny, Release
<1>4. Asked[c] = e.key
  BY <1>1 DEF Asked
<1> HIDE DEF e
<1>5. Residents' = Residents /\ Tracked' = Tracked
  BY <1>3 DEF Residents, Tracked
<1>6. \A d \in Callers : holds'[d] = IF d = c THEN NoEntry ELSE holds[d]
  BY <1>3 DEF LimiterInv, LimiterTypeOK
<1>7. Owned'
  BY <1>5, <1>6 DEF Owned
<1>8. Asked' = [Asked EXCEPT ![c] = NoEntry]
  BY <1>6 DEF Asked
<1>9. UNCHANGED KeysOf(Tracked) /\ UNCHANGED [k \in Keys |-> BucketOf(k)]
  BY <1>3, <1>5 DEF KeysOf, BucketOf
<1> QED BY <1>2, <1>4, <1>7, <1>8, <1>9 DEF Buckets!Answer

LEMMA TickRefills ==
  ASSUME LimiterAssumption, LimiterInv, OneList, OneList', Owned, Tick
  PROVE  Owned' /\ Buckets!Refill
<1>1. /\ tokens' = [l \in Limiters |->
                      IF tokens[l] < Burst THEN tokens[l] + 1 ELSE Burst]
      /\ UNCHANGED <<active, snapshot, holds>>
  BY DEF Tick
<1>2. Residents' = Residents /\ Tracked' = Tracked
  BY <1>1 DEF Residents, Tracked
<1>3. Owned'
  BY <1>1, <1>2 DEF Owned
<1>4. ASSUME NEW j \in Keys
      PROVE  BucketOf(j)' = IF BucketOf(j) < Burst THEN BucketOf(j) + 1 ELSE Burst
  <2>1. CASE Free(Tracked, j)
    <3>1. Free(Tracked, j)'
      BY <2>1, <1>2 DEF Free
    <3>2. BucketOf(j) = Burst /\ BucketOf(j)' = Burst
      BY <2>1, <3>1 DEF OneList
    <3> QED BY <3>2
  <2>2. CASE ~Free(Tracked, j)
    <3>1. PICK x \in Residents : x.key = j
      BY <2>2 DEF Free, OneList
    <3>2. BucketOf(j) = tokens[x.limiter]
      BY <3>1 DEF OneList
    <3>3. BucketOf(j)' = tokens'[x.limiter]
      BY <3>1, <1>2 DEF OneList
    <3>4. x.limiter \in Limiters
      <4>1. x \in Entry
        BY ElementOfSeq DEF EntriesOf, OneList
      <4> QED BY <4>1 DEF Entry
    <3> QED BY <3>2, <3>3, <3>4, <1>1
  <2> QED BY <2>1, <2>2
<1>5. [j \in Keys |-> BucketOf(j)]'
        = [j \in Keys |-> IF [i \in Keys |-> BucketOf(i)][j] < Burst
                          THEN [i \in Keys |-> BucketOf(i)][j] + 1 ELSE Burst]
  BY <1>4
<1>6. UNCHANGED KeysOf(Tracked) /\ UNCHANGED Asked
  BY <1>1, <1>2 DEF KeysOf, Asked
<1> QED BY <1>3, <1>5, <1>6 DEF Buckets!Refill

LEMMA BucketsStep ==
  ASSUME LimiterAssumption, LimiterInv, OneList, OneList', Owned,
         [LimiterNext]_limiterVars
  PROVE  Owned' /\ [Buckets!Next]_(Buckets!vars)
<1>1. CASE Tick
  BY <1>1, TickRefills DEF Buckets!Next
<1>2. ASSUME NEW c \in Callers, NEW k \in Keys, Promote(c, k)
      PROVE  Owned' /\ Buckets!Use(c, k)
  <2>1. PICK i \in 1 .. Len(Tracked) :
           /\ Tracked[i].key = k
           /\ Tracked' = <<Tracked[i]>> \o RemoveAt(Tracked, i)
           /\ Hand(c, Tracked[i])
    BY <1>2, PromoteMoves
  <2>2. holds[c] = NoEntry /\ tokens' = tokens
    BY <1>2 DEF Promote
  <2> QED BY <2>1, <2>2, MoveStep
<1>3. ASSUME NEW c \in Callers, NEW k \in Keys, Restore(c, k)
      PROVE  Owned' /\ Buckets!Use(c, k)
  <2>1. PICK i \in 1 .. Len(Tracked) :
           /\ Tracked[i].key = k
           /\ Tracked' = <<Tracked[i]>> \o RemoveAt(Tracked, i)
           /\ Hand(c, Tracked[i])
    BY <1>3, RestoreMoves
  <2>2. holds[c] = NoEntry /\ tokens' = tokens
    BY <1>3 DEF Restore
  <2> QED BY <2>1, <2>2, MoveStep
<1>4. ASSUME NEW c \in Callers, Allow(c)
      PROVE  Owned' /\ Buckets!Next
  <2>1. CASE \E k \in Keys : Promote(c, k) \/ Restore(c, k) \/ Create(c, k)
    <3>1. PICK k \in Keys : Promote(c, k) \/ Restore(c, k) \/ Create(c, k)
      BY <2>1
    <3>2. Owned' /\ Buckets!Use(c, k)
      BY <3>1, <1>2, <1>3, PushStep
    <3> QED BY <3>2 DEF Buckets!Next
  <2>2. CASE Grant(c)
    BY <2>2, GrantAnswers DEF Buckets!Next
  <2>3. CASE Deny(c)
    BY <2>3, DenyAnswers DEF Buckets!Next
  <2> QED BY <1>4, <2>1, <2>2, <2>3 DEF Allow
<1>5. CASE UNCHANGED limiterVars
  <2>1. UNCHANGED KeysOf(Tracked) /\ UNCHANGED [k \in Keys |-> BucketOf(k)] /\ UNCHANGED Asked
    BY <1>5 DEF limiterVars, KeysOf, Tracked, BucketOf, Asked
  <2>2. Owned'
    BY <1>5 DEF limiterVars, Owned, Residents
  <2> QED BY <2>1, <2>2 DEF Buckets!vars
<1> QED BY <1>1, <1>4, <1>5 DEF LimiterNext

LEMMA BucketsStart ==
  ASSUME LimiterInit
  PROVE  Owned /\ Buckets!Init
<1>1. active = <<>> /\ snapshot = <<>> /\ holds = [c \in Callers |-> NoEntry]
  BY DEF LimiterInit
<1>2. Tracked = <<>>
  BY <1>1 DEF Tracked
<1>3. KeysOf(Tracked) = <<>>
  BY <1>2 DEF KeysOf
<1>4. \A k : ~Lists(Tracked, k)
  BY <1>2 DEF Lists
<1>5. [k \in Keys |-> BucketOf(k)] = [k \in Keys |-> Burst]
  BY <1>4 DEF BucketOf
<1>6. Asked = [c \in Callers |-> NoEntry]
  BY <1>1 DEF Asked
<1>7. Owned
  BY <1>1 DEF Owned
<1> QED BY <1>3, <1>5, <1>6, <1>7 DEF Buckets!Init

\* The limiter implements one exact LRU list of 2 * MaxKeys buckets, whatever
\* the keys and the number of callers: every step of its two lists is a step
\* of that list, and a bucket is forgotten only when 2 * MaxKeys other keys
\* were used since.
THEOREM ImplementsBuckets == LimiterSpec => IsExactLRU
<1>1. LimiterInit => Owned /\ Buckets!Init
  BY BucketsStart
<1>2. /\ LimiterInv /\ OneList /\ OneList' /\ Owned /\ [LimiterNext]_limiterVars
      => Owned' /\ [Buckets!Next]_(Buckets!vars)
  BY BucketsStep, LimiterAssumption
<1>3. LimiterInv => OneList
  BY ListsJoined
<1> QED BY <1>1, <1>2, <1>3, LimiterInvariant, PTL DEF LimiterSpec, IsExactLRU, Buckets!Spec

-----------------------------------------------------------------------------
\* The evergreen documents

USE EvergreenAssumption

-----------------------------------------------------------------------------
\* The values

LEMMA SiteFields ==
  ASSUME site \in Sites
  PROVE  /\ site.docs \in Nat /\ site.calls \in Nat
         /\ site.runs \in 0 .. MaxRuns /\ site.refills \in 0 .. MaxRefills
         /\ site.edits \in 0 .. MaxEdits
         /\ site.reader \in {"none", "up"} /\ site.hashes \in BOOLEAN
         /\ site.replies \subseteq Replies
BY DEF EvergreenAssumption

\* A call that is somewhere is one.
LEMMA CallFields ==
  ASSUME TypeOK, NEW c \in Clients, ~Idle(c)
  PROVE  /\ call[c] \in Calls /\ call[c].doc \in Docs /\ call[c].ack \in BOOLEAN
         /\ call[c].at \in {"session", "document", "executor", "save"}
         /\ call[c].at = "save" => call[c].answer \in RunNumbers
         /\ call[c].at # "save" => call[c].answer = 0
BY DEF TypeOK, Idle, Calls

LEMMA Somewhere ==
  ASSUME NEW c \in Clients, call[c].at # "idle"
  PROVE  ~Idle(c)
BY DEF Idle, NoCall

\* A call goes on to the next bucket or to the executor.
LEMMA GoesOn ==
  ASSUME TypeOK, NEW c \in Clients, call[c].at \in {"session", "document", "executor"},
         NEW at \in {"session", "document", "executor"}, Goes(c, at)
  PROVE  /\ call' \in [Clients -> Calls \cup {NoCall}]
         /\ call'[c] = [call[c] EXCEPT !.at = at] /\ call'[c] \in Calls
         /\ \A b \in Clients \ {c} : call'[b] = call[b]
<1>1. ~Idle(c) /\ call[c] \in Calls
  BY Somewhere, CallFields
<1>2. [call[c] EXCEPT !.at = at] \in Calls
  BY <1>1 DEF Calls
<1>3. call' = [call EXCEPT ![c] = [call[c] EXCEPT !.at = at]]
  BY DEF Goes, TypeOK
<1> QED BY <1>2, <1>3 DEF TypeOK

LEMMA EndsOff ==
  ASSUME TypeOK, NEW c \in Clients, Ends(c)
  PROVE  /\ call' \in [Clients -> Calls \cup {NoCall}]
         /\ call'[c] = NoCall
         /\ \A b \in Clients \ {c} : call'[b] = call[b]
BY DEF TypeOK, Ends

\* An executor run is appended to the answers.
LEMMA AnswerGiven ==
  ASSUME TypeOK, NEW reply \in site.replies, Answers(reply)
  PROVE  /\ answers' \in Seq(Answered)
         /\ runs' = runs + 1 /\ runs' <= MaxRuns /\ runs + 1 \in RunNumbers
<1>1. PICK reader \in {"none", "up", "down"} :
        answers' = Append(answers,
          [manifest |-> Resolve(Entries(reply), reader, claims, site.hashes),
           seen |-> claims, reply |-> reply])
  BY SiteFields DEF Answers, TypeOK
<1> DEFINE a == [manifest |-> Resolve(Entries(reply), reader, claims, site.hashes),
                 seen |-> claims, reply |-> reply]
<1>2. a \in Answered
  BY SiteFields DEF Answered, TypeOK
<1> HIDE DEF a
<1>3. answers' = Append(answers, a)
  BY <1>1 DEF a
<1>4. /\ answers \in Seq(Answered) /\ Len(answers) \in Nat
      /\ Len(answers) < site.runs /\ site.runs \in 0 .. MaxRuns
  BY SiteFields DEF TypeOK, Answers, runs
<1> QED BY <1>2, <1>3, <1>4 DEF EvergreenAssumption, runs, RunNumbers

-----------------------------------------------------------------------------
\* The revisions

\* The rows of a document answered n times.
History(n, a) ==
  {[num |-> k, answer |-> a[k]] : k \in {k \in 1 .. n - 1 : k + MaxRevisions > n - 1}}

LEMMA MaxOf ==
  ASSUME NEW S, NEW m \in S, \A k \in S : k \in Nat /\ k <= m
  PROVE  Max(S) = m
BY DEF Max

\* The highest revision number of a document answered n times is n - 1.
LEMMA HighestOf ==
  ASSUME NEW n \in Nat \ {0}, NEW a
  PROVE  Highest(History(n, a)) = n - 1
<1> DEFINE K == {0} \cup {r.num : r \in History(n, a)}
<1>1. n - 1 \in K
  <2>1. CASE n = 1
    BY <2>1
  <2>2. CASE n # 1
    <3>1. n - 1 \in 1 .. n - 1 /\ (n - 1) + MaxRevisions > n - 1
      BY <2>2 DEF EvergreenAssumption
    <3>2. [num |-> n - 1, answer |-> a[n - 1]] \in History(n, a)
      BY <3>1 DEF History
    <3> QED BY <3>2
  <2> QED BY <2>1, <2>2
<1>2. \A k \in K : k \in Nat /\ k <= n - 1
  BY DEF History
<1> HIDE DEF K
<1>3. Max(K) = n - 1
  BY <1>1, <1>2, MaxOf
<1> QED BY <1>3 DEF K, Highest

\* Capturing the answer before the next one is saved.
LEMMA CapturedNext ==
  ASSUME NEW n \in Nat \ {0}, NEW a, NEW b, \A k \in 1 .. n : b[k] = a[k]
  PROVE  Pruned(History(n, a) \cup {[num |-> n, answer |-> a[n]]}) = History(n + 1, b)
<1> DEFINE next == [num |-> n, answer |-> a[n]]
           revs == History(n, a) \cup {next}
           K == {0} \cup {r.num : r \in revs}
<1>1. n \in K
  <2>1. next \in revs /\ next.num = n
    OBVIOUS
  <2> HIDE DEF next, revs
  <2> QED BY <2>1
<1>2. \A k \in K : k \in Nat /\ k <= n
  BY DEF History
<1>3. Highest(revs) = n
  <2> HIDE DEF K
  <2>1. Max(K) = n
    BY <1>1, <1>2, MaxOf
  <2> QED BY <2>1 DEF K, Highest
<1>4. Pruned(revs) = {r \in revs : r.num + MaxRevisions > n}
  BY <1>3 DEF Pruned
<1>5. MaxRevisions \in Nat \ {0}
  BY DEF EvergreenAssumption
<1>6. \A r : r \in revs /\ r.num + MaxRevisions > n => r \in History(n + 1, b)
  <2> SUFFICES ASSUME NEW r \in revs, r.num + MaxRevisions > n
               PROVE  r \in History(n + 1, b)
    OBVIOUS
  <2>1. CASE r = next
    <3>1. n \in 1 .. (n + 1) - 1 /\ n + MaxRevisions > (n + 1) - 1 /\ a[n] = b[n]
      BY <1>5
    <3> QED BY <2>1, <3>1 DEF History
  <2>2. CASE r # next
    <3>1. PICK k \in 1 .. n - 1 : r = [num |-> k, answer |-> a[k]]
      BY <2>2 DEF History
    <3>2. k \in 1 .. (n + 1) - 1 /\ k + MaxRevisions > (n + 1) - 1 /\ a[k] = b[k]
      BY <3>1
    <3> QED BY <3>1, <3>2 DEF History
  <2> QED BY <2>1, <2>2
<1>7. \A r \in History(n + 1, b) : r \in revs /\ r.num + MaxRevisions > n
  <2> TAKE r \in History(n + 1, b)
  <2>1. PICK k \in 1 .. (n + 1) - 1 :
          k + MaxRevisions > (n + 1) - 1 /\ r = [num |-> k, answer |-> b[k]]
    BY DEF History
  <2>2. k \in 1 .. n /\ a[k] = b[k] /\ k + MaxRevisions > n
    BY <2>1
  <2>3. CASE k = n
    BY <2>1, <2>2, <2>3
  <2>4. CASE k # n
    <3>1. k \in 1 .. n - 1 /\ k + MaxRevisions > n - 1
      BY <1>5, <2>2, <2>4
    <3> QED BY <2>1, <2>2, <3>1 DEF History
  <2> QED BY <2>3, <2>4
<1> QED BY <1>4, <1>6, <1>7

\* HistoryKept, of one document.
Whole(d) ==
  IF stored[d] = <<>> THEN ~Stored(d) /\ revisions[d] = {}
  ELSE /\ row[d].answer = stored[d][Len(stored[d])]
       /\ revisions[d] = History(Len(stored[d]), stored[d])

LEMMA HistoryWhole ==
  ASSUME stored \in [Docs -> Seq(RunNumbers)]
  PROVE  HistoryKept <=> \A d \in Docs : Whole(d)
BY DEF HistoryKept, Whole, History

LEMMA WholeHistory ==
  ASSUME stored' \in [Docs -> Seq(RunNumbers)], \A d \in Docs : Whole(d)'
  PROVE  HistoryKept'
<1>1. \A d \in Docs : stored'[d] \in Seq(RunNumbers)
  OBVIOUS
<1>2. \A d \in Docs : Len(stored'[d]) = 0 <=> stored'[d] = <<>>
  BY <1>1
<1> QED BY <1>2 DEF HistoryKept, Whole, History

LEMMA SaveKeeps ==
  ASSUME TypeOK, HistoryKept, NEW d \in Docs, NEW answer \in RunNumbers,
         Save(d, answer)
  PROVE  /\ row' \in [Docs -> Rows \cup {NoRow}]
         /\ revisions' \in [Docs -> SUBSET Revisions]
         /\ stored' \in [Docs -> Seq(RunNumbers)]
         /\ age' \in [Docs -> 0 .. MaxAge + 1]
         /\ HistoryKept'
<1> DEFINE n == Len(stored[d])
           new == [answer |-> answer, status |-> "fresh"]
           longer == Append(stored[d], answer)
<1>1. stored[d] \in Seq(RunNumbers) /\ n \in Nat /\ \A q \in Docs : Whole(q)
  BY HistoryWhole DEF TypeOK
<1>2. /\ longer \in Seq(RunNumbers) /\ Len(longer) = n + 1 /\ longer[n + 1] = answer
      /\ \A k \in 1 .. n : longer[k] = stored[d][k]
  BY <1>1
<1>3. /\ row' = [row EXCEPT ![d] = new] /\ stored' = [stored EXCEPT ![d] = longer]
      /\ revisions' = [revisions EXCEPT ![d] = CaptureRevision(d)]
      /\ age' = [age EXCEPT ![d] = 0]
  BY DEF Save, TypeOK
<1>4. CaptureRevision(d) = History(n + 1, longer)
  <2>1. CASE n = 0
    <3>1. ~Stored(d) /\ revisions[d] = {}
      BY <1>1, <2>1 DEF Whole
    <3>2. History(n + 1, longer) = {}
      BY <2>1 DEF History
    <3> QED BY <3>1, <3>2 DEF CaptureRevision
  <2>2. CASE n # 0
    <3>1. /\ stored[d] # <<>> /\ row[d].answer = stored[d][n]
          /\ revisions[d] = History(n, stored[d])
      BY <1>1, <2>2 DEF Whole
    <3>2. stored[d][n] \in 1 .. MaxRuns
      BY <1>1, <2>2 DEF RunNumbers
    <3>3. Stored(d)
      BY <3>1, <3>2 DEF Stored, NoRow
    <3>4. Highest(revisions[d]) + 1 = n
      <4>1. Highest(History(n, stored[d])) = n - 1
        BY <1>1, <2>2, HighestOf
      <4> QED BY <1>1, <3>1, <4>1
    <3>5. CaptureRevision(d) =
            Pruned(History(n, stored[d]) \cup {[num |-> n, answer |-> stored[d][n]]})
      BY <3>1, <3>3, <3>4 DEF CaptureRevision
    <3> QED BY <1>1, <1>2, <2>2, <3>5, CapturedNext
  <2> QED BY <2>1, <2>2
<1>5. History(n + 1, longer) \subseteq Revisions
  <2> SUFFICES ASSUME NEW k \in 1 .. (n + 1) - 1
               PROVE  [num |-> k, answer |-> longer[k]] \in Revisions
    BY DEF History
  <2>1. k \in 1 .. n + 1 /\ k \in Nat \ {0}
    BY <1>1
  <2>2. longer[k] \in RunNumbers
    BY <1>2, <2>1
  <2> QED BY <2>1, <2>2 DEF Revisions
<1> HIDE DEF n, longer
<1>6. /\ row' \in [Docs -> Rows \cup {NoRow}]
      /\ revisions' \in [Docs -> SUBSET Revisions]
      /\ stored' \in [Docs -> Seq(RunNumbers)]
      /\ age' \in [Docs -> 0 .. MaxAge + 1]
  <2>1. new \in Rows
    BY DEF Rows, Statuses
  <2>2. 0 \in 0 .. MaxAge + 1
    BY DEF EvergreenAssumption
  <2> QED BY <1>2, <1>3, <1>4, <1>5, <2>1, <2>2 DEF TypeOK
<1>7. ASSUME NEW q \in Docs PROVE Whole(q)'
  <2>1. CASE q # d
    <3>1. row'[q] = row[q] /\ revisions'[q] = revisions[q] /\ stored'[q] = stored[q]
      BY <1>3, <2>1 DEF TypeOK
    <3>2. Whole(q)
      BY <1>1
    <3> QED BY <3>1, <3>2 DEF Whole, Stored
  <2>2. CASE q = d
    <3>1. row'[q] = new /\ revisions'[q] = History(n + 1, longer) /\ stored'[q] = longer
      BY <1>3, <1>4, <2>2 DEF TypeOK
    <3>2. longer # <<>>
      BY <1>1, <1>2
    <3> QED BY <1>2, <3>1, <3>2 DEF Whole
  <2> QED BY <2>1, <2>2
<1> QED BY <1>6, <1>7, WholeHistory

-----------------------------------------------------------------------------
\* Types and history

Kept == TypeOK /\ HistoryKept

LEMMA InitKept == Init => Kept
<1> SUFFICES ASSUME Init PROVE Kept
  OBVIOUS
<1>1. claims \in Claims
  <2> DEFINE n == Cardinality(Places)
  <2>1. n \in Nat /\ ExistsBijection(Places, 1 .. n)
    BY FS_CardinalityType, Fun_ExistsBijSymmetric DEF EvergreenAssumption
  <2> HIDE DEF n
  <2>2. Injection(Places, 1 .. n) # {}
    BY <2>1 DEF ExistsBijection, Bijection
  <2>3. FirstId \in [Places -> 1 .. n]
    BY <2>2 DEF FirstId, Injection, n
  <2>4. \A p \in Places : [id |-> FirstId[p], sig |-> 1, body |-> 1] \in Symbols
    <3>1. \A i \in 1 .. n : i \in 1 .. n + MaxEdits
      BY <2>1 DEF EvergreenAssumption
    <3> QED BY <2>3, <3>1 DEF Symbols, n
  <2> QED BY <2>4 DEF Init, Claims
<1>2. answers \in Seq(Answered) /\ runs <= MaxRuns /\ stored \in [Docs -> Seq(RunNumbers)]
  <2>1. <<>> \in Seq(Answered) /\ <<>> \in Seq(RunNumbers) /\ Len(<<>>) = 0
    OBVIOUS
  <2> QED BY <2>1 DEF Init, runs, EvergreenAssumption
<1>3. TypeOK
  BY <1>1, <1>2 DEF Init, TypeOK, EvergreenAssumption
<1>4. HistoryKept
  BY DEF Init, HistoryKept, Stored
<1> QED BY <1>3, <1>4 DEF Kept

LEMMA SaveNewKeeps ==
  ASSUME Kept, NEW d \in Docs, SaveNew(d)
  PROVE  Kept'
<1>1. PICK reply \in site.replies : Answers(reply)
  BY DEF SaveNew
<1>2. /\ answers' \in Seq(Answered) /\ runs' <= MaxRuns /\ runs + 1 \in RunNumbers
  BY <1>1, AnswerGiven DEF Kept
<1>3. /\ minted' = minted \cup {d} /\ Save(d, runs + 1)
      /\ UNCHANGED <<call, overtaken, limits, code>>
  BY DEF SaveNew
<1>4. /\ row' \in [Docs -> Rows \cup {NoRow}]
      /\ revisions' \in [Docs -> SUBSET Revisions]
      /\ stored' \in [Docs -> Seq(RunNumbers)]
      /\ age' \in [Docs -> 0 .. MaxAge + 1]
      /\ HistoryKept'
  BY <1>2, <1>3, SaveKeeps DEF Kept
<1> QED BY <1>2, <1>3, <1>4 DEF Kept, TypeOK, limits, code

LEMMA DeleteKeeps ==
  ASSUME Kept, NEW d \in Docs, Delete(d)
  PROVE  Kept'
<1>1. TypeOK'
  <2>1. overtaken' \in [orphaned : SUBSET Clients, deleted : SUBSET Clients]
    BY DEF Kept, TypeOK, Delete, Under
  <2>2. /\ row' \in [Docs -> Rows \cup {NoRow}]
        /\ revisions' \in [Docs -> SUBSET Revisions]
        /\ stored' \in [Docs -> Seq(RunNumbers)]
    <3>1. <<>> \in Seq(RunNumbers)
      OBVIOUS
    <3> QED BY <3>1 DEF Kept, TypeOK, Delete
  <2> QED BY <2>1, <2>2 DEF Kept, TypeOK, Delete, limits, code, runs
<1>2. ASSUME NEW q \in Docs PROVE Whole(q)'
  <2>1. Whole(q)
    BY HistoryWhole DEF Kept, TypeOK
  <2> QED BY <2>1 DEF Kept, TypeOK, Delete, Whole, Stored
<1> QED BY <1>1, <1>2, WholeHistory DEF Kept, TypeOK

LEMMA UpdateStatusKeeps ==
  ASSUME Kept, NEW d \in Docs, NEW status \in Statuses, UpdateStatus(d, status)
  PROVE  Kept'
<1>1. row[d] \in Rows /\ [row[d] EXCEPT !.status = status] \in Rows
  <2>1. row[d] \in Rows
    BY DEF Kept, TypeOK, UpdateStatus, Stored
  <2> QED BY <2>1 DEF Rows
<1>2. row' = [row EXCEPT ![d] = [row[d] EXCEPT !.status = status]]
  BY DEF Kept, TypeOK, UpdateStatus
<1>3. TypeOK'
  <2>1. overtaken' \in [orphaned : SUBSET Clients, deleted : SUBSET Clients]
    BY DEF Kept, TypeOK, UpdateStatus, Under
  <2>2. row' \in [Docs -> Rows \cup {NoRow}]
    BY <1>1, <1>2 DEF Kept, TypeOK
  <2> QED BY <2>1, <2>2 DEF Kept, TypeOK, UpdateStatus, limits, code, runs
<1>4. ASSUME NEW q \in Docs PROVE Whole(q)'
  <2>1. Whole(q)
    BY HistoryWhole DEF Kept, TypeOK
  <2>2. row'[q].answer = row[q].answer /\ (row'[q] = NoRow <=> row[q] = NoRow)
    <3>1. CASE q = d
      BY SMTT(80), <1>1, <1>2, <3>1 DEF Kept, TypeOK, Rows, NoRow, Statuses
    <3>2. CASE q # d
      BY <1>2, <3>2 DEF Kept, TypeOK
    <3> QED BY <3>1, <3>2
  <2>3. revisions' = revisions /\ stored' = stored
    BY DEF UpdateStatus
  <2> QED BY <2>1, <2>2, <2>3 DEF Whole, Stored
<1> QED BY <1>3, <1>4, WholeHistory DEF Kept, TypeOK

\* The history of a document depends on the rows alone.
LEMMA HistorySame ==
  ASSUME Kept, UNCHANGED <<row, revisions, stored>>
  PROVE  HistoryKept'
BY DEF Kept, HistoryKept, Stored

LEMMA LoadKeeps ==
  ASSUME Kept, NEW c \in Clients, NEW d \in Docs, NEW ack \in BOOLEAN, Load(c, d, ack)
  PROVE  Kept'
<1>1. [at |-> "session", doc |-> d, ack |-> ack, answer |-> 0] \in Calls
  BY DEF Calls
<1>2. /\ call' \in [Clients -> Calls \cup {NoCall}]
      /\ overtaken' \in [orphaned : SUBSET Clients, deleted : SUBSET Clients]
  BY <1>1 DEF Kept, TypeOK, Load
<1>3. UNCHANGED <<row, revisions, minted, stored, age, answers, limits, code>>
  BY DEF Load
<1> QED BY <1>2, <1>3, HistorySame DEF Kept, TypeOK, limits, code, runs

LEMMA AllowSessionKeeps ==
  ASSUME Kept, NEW c \in Clients, AllowSession(c)
  PROVE  Kept'
<1>1. /\ call[c].at = "session" /\ SessionOf[c] \in Sessions
      /\ UNCHANGED <<store, docTokens, ran, refills, site, answers, code>>
  BY DEF AllowSession, EvergreenAssumption
<1>2. call' \in [Clients -> Calls \cup {NoCall}]
  BY <1>1, GoesOn, EndsOff DEF AllowSession, Kept
<1>3. sessionTokens' \in [Sessions -> 0 .. SessionBurst]
  <2> DEFINE s == SessionOf[c]
  <2>1. sessionTokens \in [Sessions -> 0 .. SessionBurst] /\ SessionBurst \in Nat
    BY DEF Kept, TypeOK, EvergreenAssumption
  <2>2. CASE UNCHANGED sessionTokens
    BY <2>1, <2>2
  <2>3. CASE /\ sessionTokens[s] > 0
             /\ sessionTokens' = [sessionTokens EXCEPT ![s] = sessionTokens[s] - 1]
    <3>1. sessionTokens[s] - 1 \in 0 .. SessionBurst
      BY <1>1, <2>1, <2>3
    <3> QED BY <2>1, <2>3, <3>1
  <2> QED BY <2>2, <2>3 DEF AllowSession
<1> QED BY <1>1, <1>2, <1>3, HistorySame DEF Kept, TypeOK, store, code, runs

\* What a run takes from the bucket of the pair.
LEMMA TokenSpent ==
  ASSUME Kept, NEW c \in Clients, AllowDocument(c)
  PROVE  LET s == SessionOf[c]
             d == call[c].doc
         IN \/ UNCHANGED <<docTokens, ran>>
            \/ /\ docTokens[s][d] > 0
               /\ docTokens' = [docTokens EXCEPT ![s] =
                                  [docTokens[s] EXCEPT ![d] = docTokens[s][d] - 1]]
               /\ ran' = [doc |-> [ran.doc EXCEPT ![s] =
                                     [ran.doc[s] EXCEPT ![d] = ran.doc[s][d] + 1]],
                          session |-> [ran.session EXCEPT ![s] = ran.session[s] + 1]]
<1> DEFINE s == SessionOf[c]
           d == call[c].doc
<1>1. s \in Sessions /\ d \in Docs
  BY Somewhere, CallFields DEF AllowDocument, EvergreenAssumption, Kept
<1>2. CASE UNCHANGED <<docTokens, ran>>
  BY <1>2
<1>3. CASE /\ docTokens[s][d] > 0
           /\ docTokens' = [docTokens EXCEPT ![s][d] = @ - 1]
           /\ ran' = [ran EXCEPT !.doc[s][d] = @ + 1, !.session[s] = @ + 1]
  <2>1. docTokens' = [docTokens EXCEPT ![s] =
                        [docTokens[s] EXCEPT ![d] = docTokens[s][d] - 1]]
    BY <1>1, <1>3 DEF Kept, TypeOK
  <2>2. ran' = [doc |-> [ran.doc EXCEPT ![s] =
                           [ran.doc[s] EXCEPT ![d] = ran.doc[s][d] + 1]],
                session |-> [ran.session EXCEPT ![s] = ran.session[s] + 1]]
    BY <1>1, <1>3 DEF Kept, TypeOK
  <2> QED BY <1>3, <2>1, <2>2
<1> QED BY <1>2, <1>3 DEF AllowDocument

LEMMA AllowDocumentKeeps ==
  ASSUME Kept, NEW c \in Clients, AllowDocument(c)
  PROVE  Kept'
<1>1. /\ call[c].at = "document" /\ SessionOf[c] \in Sessions /\ call[c].doc \in Docs
      /\ UNCHANGED <<store, sessionTokens, refills, site, answers, code>>
  BY Somewhere, CallFields DEF AllowDocument, EvergreenAssumption, Kept
<1>2. call' \in [Clients -> Calls \cup {NoCall}]
  BY <1>1, GoesOn, EndsOff DEF AllowDocument, Kept
<1> DEFINE s == SessionOf[c]
           d == call[c].doc
<1>3. \/ UNCHANGED <<docTokens, ran>>
      \/ /\ docTokens[s][d] > 0
         /\ docTokens' = [docTokens EXCEPT ![s] =
                            [docTokens[s] EXCEPT ![d] = docTokens[s][d] - 1]]
         /\ ran' = [doc |-> [ran.doc EXCEPT ![s] =
                               [ran.doc[s] EXCEPT ![d] = ran.doc[s][d] + 1]],
                    session |-> [ran.session EXCEPT ![s] = ran.session[s] + 1]]
  BY <1>1, TokenSpent DEF AllowDocument
<1>4. docTokens' \in [Sessions -> [Docs -> 0 .. DocBurst]]
  <2>1. docTokens \in [Sessions -> [Docs -> 0 .. DocBurst]] /\ DocBurst \in Nat
    BY DEF Kept, TypeOK, EvergreenAssumption
  <2> DEFINE g == [docTokens[s] EXCEPT ![d] = docTokens[s][d] - 1]
  <2>2. CASE docTokens[s][d] > 0 /\ docTokens' = [docTokens EXCEPT ![s] = g]
    <3>1. docTokens[s] \in [Docs -> 0 .. DocBurst] /\ docTokens[s][d] \in 0 .. DocBurst
      BY <1>1, <2>1
    <3>2. docTokens[s][d] - 1 \in 0 .. DocBurst
      BY <2>1, <2>2, <3>1
    <3>3. g \in [Docs -> 0 .. DocBurst]
      BY <3>1, <3>2
    <3> HIDE DEF g
    <3> QED BY <2>1, <2>2, <3>3
  <2> QED BY <1>3, <2>1, <2>2
<1>5. ran' \in [doc : [Sessions -> [Docs -> Nat]], session : [Sessions -> Nat]]
  <2> DEFINE g == [ran.doc[s] EXCEPT ![d] = ran.doc[s][d] + 1]
             h == [ran.session EXCEPT ![s] = ran.session[s] + 1]
  <2>1. /\ ran \in [doc : [Sessions -> [Docs -> Nat]], session : [Sessions -> Nat]]
        /\ ran.doc \in [Sessions -> [Docs -> Nat]] /\ ran.session \in [Sessions -> Nat]
    BY DEF Kept, TypeOK
  <2>2. CASE ran' = [doc |-> [ran.doc EXCEPT ![s] = g], session |-> h]
    <3>1. ran.doc[s] \in [Docs -> Nat] /\ ran.doc[s][d] + 1 \in Nat
      BY <1>1, <2>1
    <3>2. g \in [Docs -> Nat] /\ h \in [Sessions -> Nat]
      BY <1>1, <2>1, <3>1
    <3> HIDE DEF g, h
    <3>3. [ran.doc EXCEPT ![s] = g] \in [Sessions -> [Docs -> Nat]]
      BY <2>1, <3>2
    <3> QED BY <2>2, <3>2, <3>3
  <2> QED BY <1>3, <2>1, <2>2
<1> QED BY <1>1, <1>2, <1>4, <1>5, HistorySame DEF Kept, TypeOK, store, code, runs

LEMMA ExecuteKeeps ==
  ASSUME Kept, NEW c \in Clients, Execute(c)
  PROVE  Kept'
<1>1. PICK reply \in site.replies : Answers(reply)
  BY DEF Execute
<1>2. answers' \in Seq(Answered) /\ runs' <= MaxRuns /\ runs + 1 \in RunNumbers
  BY <1>1, AnswerGiven DEF Kept
<1>3. /\ call[c].at = "executor" /\ UNCHANGED <<store, limits, code>>
      /\ call' = [call EXCEPT ![c] = [call[c] EXCEPT !.at = "save", !.answer = runs + 1]]
  BY DEF Execute, Kept, TypeOK
<1>4. [call[c] EXCEPT !.at = "save", !.answer = runs + 1] \in Calls
  BY <1>2, <1>3, Somewhere, CallFields DEF Kept, Calls
<1> QED BY <1>2, <1>3, <1>4, HistorySame DEF Kept, TypeOK, store, limits, code

LEMMA CallOverKeeps ==
  ASSUME Kept, NEW c \in Clients, ExecuteFails(c) \/ SaveFails(c)
  PROVE  Kept'
<1>1. Ends(c) /\ UNCHANGED <<store, limits, answers, code>>
  BY DEF ExecuteFails, SaveFails
<1> QED BY <1>1, EndsOff, HistorySame DEF Kept, TypeOK, store, limits, code, runs

LEMMA SaveRefreshedKeeps ==
  ASSUME Kept, NEW c \in Clients, SaveRefreshed(c)
  PROVE  Kept'
<1>1. call[c].doc \in Docs /\ call[c].answer \in RunNumbers
  BY Somewhere, CallFields DEF SaveRefreshed, Kept
<1>2. /\ Save(call[c].doc, call[c].answer) /\ Ends(c)
      /\ UNCHANGED <<minted, overtaken, limits, answers, code>>
  BY DEF SaveRefreshed
<1>3. /\ row' \in [Docs -> Rows \cup {NoRow}]
      /\ revisions' \in [Docs -> SUBSET Revisions]
      /\ stored' \in [Docs -> Seq(RunNumbers)]
      /\ age' \in [Docs -> 0 .. MaxAge + 1]
      /\ HistoryKept'
  BY <1>1, <1>2, SaveKeeps DEF Kept
<1> QED BY <1>2, <1>3, EndsOff DEF Kept, TypeOK, limits, code, runs

LEMMA RefillKeeps ==
  ASSUME Kept, RefillDocs \/ RefillSessions
  PROVE  Kept'
<1>1. UNCHANGED <<store, call, answers, ran, site, code>>
  BY DEF RefillDocs, RefillSessions
<1>2. refills' \in [doc : 0 .. MaxRefills, session : 0 .. MaxRefills]
  <2> DEFINE R == [doc : 0 .. MaxRefills, session : 0 .. MaxRefills]
  <2>1. /\ refills \in R /\ refills.doc \in 0 .. MaxRefills
        /\ refills.session \in 0 .. MaxRefills /\ site.refills \in 0 .. MaxRefills
        /\ MaxRefills \in Nat
    BY SiteFields DEF Kept, TypeOK, EvergreenAssumption
  <2>2. CASE RefillDocs
    <3>1. refills.doc + 1 \in 0 .. MaxRefills
      BY <2>1, <2>2 DEF RefillDocs
    <3>2. refills' = [refills EXCEPT !.doc = refills.doc + 1]
      BY <2>2 DEF RefillDocs
    <3> QED BY <2>1, <3>1, <3>2
  <2>3. CASE RefillSessions
    <3>1. refills.session + 1 \in 0 .. MaxRefills
      BY <2>1, <2>3 DEF RefillSessions
    <3>2. refills' = [refills EXCEPT !.session = refills.session + 1]
      BY <2>3 DEF RefillSessions
    <3> QED BY <2>1, <3>1, <3>2
  <2> QED BY <2>2, <2>3
<1>3. docTokens' \in [Sessions -> [Docs -> 0 .. DocBurst]]
  <2>1. docTokens \in [Sessions -> [Docs -> 0 .. DocBurst]] /\ DocBurst \in Nat
    BY DEF Kept, TypeOK, EvergreenAssumption
  <2>2. ASSUME NEW s \in Sessions, NEW d \in Docs
        PROVE  (IF docTokens[s][d] < DocBurst THEN docTokens[s][d] + 1 ELSE DocBurst)
                 \in 0 .. DocBurst
    <3>1. docTokens[s][d] \in 0 .. DocBurst
      BY <2>1
    <3> QED BY <2>1, <3>1
  <2>3. CASE RefillDocs
    BY <2>2, <2>3 DEF RefillDocs
  <2>4. CASE RefillSessions
    BY <2>1, <2>4 DEF RefillSessions
  <2> QED BY <2>3, <2>4
<1>4. sessionTokens' \in [Sessions -> 0 .. SessionBurst]
  <2>1. sessionTokens \in [Sessions -> 0 .. SessionBurst] /\ SessionBurst \in Nat
    BY DEF Kept, TypeOK, EvergreenAssumption
  <2>2. ASSUME NEW s \in Sessions
        PROVE  (IF sessionTokens[s] < SessionBurst THEN sessionTokens[s] + 1
                ELSE SessionBurst) \in 0 .. SessionBurst
    <3>1. sessionTokens[s] \in 0 .. SessionBurst
      BY <2>1
    <3> QED BY <2>1, <3>1
  <2>3. CASE RefillDocs
    BY <2>1, <2>3 DEF RefillDocs
  <2>4. CASE RefillSessions
    BY <2>2, <2>4 DEF RefillSessions
  <2> QED BY <2>3, <2>4
<1> QED BY <1>1, <1>2, <1>3, <1>4, HistorySame DEF Kept, TypeOK, store, code, runs

LEMMA ExtractKeeps ==
  ASSUME Kept, NEW p \in Places, Extract(p)
  PROVE  Kept'
<1>1. UNCHANGED <<store, call, answers, limits>> /\ edits' = edits + 1
  BY DEF Extract
<1>2. edits' \in 0 .. MaxEdits
  BY SMTT(30), <1>1, SiteFields DEF Extract, Kept, TypeOK, EvergreenAssumption
<1>3. claims' \in Claims
  <2> DEFINE All == Symbols \cup {NoSymbol}
  <2>1. claims \in [Places -> All]
    BY DEF Kept, TypeOK, Claims
  <2>2. CASE claims' = [claims EXCEPT ![p] = NoSymbol]
    BY <2>1, <2>2 DEF Claims
  <2>3. CASE claims' = [claims EXCEPT ![p] =
               [id |-> Cardinality(Places) + edits + 1, sig |-> 1, body |-> 1]]
    <3>1. Cardinality(Places) \in Nat
      BY FS_CardinalityType DEF EvergreenAssumption
    <3>2. [id |-> Cardinality(Places) + edits + 1, sig |-> 1, body |-> 1] \in Symbols
      BY SMTT(30), <1>1, <1>2, <3>1 DEF Symbols, Kept, TypeOK, EvergreenAssumption
    <3> QED BY <2>1, <2>3, <3>2 DEF Claims
  <2>4. ASSUME NEW q \in Places,
               claims' = [claims EXCEPT ![q] = claims[p], ![p] = NoSymbol]
        PROVE  claims' \in Claims
    BY <2>1, <2>4 DEF Claims
  <2>5. ASSUME claims[p] # NoSymbol, NEW sig \in 1 .. 2, NEW body \in 1 .. 2,
               claims' = [claims EXCEPT ![p].sig = sig, ![p].body = body]
        PROVE  claims' \in Claims
    <3>1. [claims[p] EXCEPT !.sig = sig, !.body = body] \in Symbols
      BY <2>1, <2>5 DEF Symbols
    <3>2. claims' = [claims EXCEPT ![p] = [claims[p] EXCEPT !.sig = sig, !.body = body]]
      BY <2>1, <2>5
    <3> QED BY <2>1, <3>1, <3>2 DEF Claims
  <2> QED BY <2>2, <2>3, <2>4, <2>5 DEF Extract
<1> QED BY <1>1, <1>2, <1>3, HistorySame DEF Kept, TypeOK, store, limits, runs

LEMMA DayKeeps ==
  ASSUME Kept, Day
  PROVE  Kept'
<1>1. age' \in [Docs -> 0 .. MaxAge + 1]
  BY SMTT(80) DEF Day, Kept, TypeOK, EvergreenAssumption
<1>2. UNCHANGED <<row, revisions, minted, stored, overtaken, call, answers, limits, code>>
  BY DEF Day
<1> QED BY <1>1, <1>2, HistorySame DEF Kept, TypeOK, limits, code, runs

LEMMA NextKeeps == Kept /\ [Next]_vars => Kept'
<1> SUFFICES ASSUME Kept, [Next]_vars PROVE Kept'
  OBVIOUS
<1>1. ASSUME NEW d \in Docs, SaveNew(d) \/ Delete(d) PROVE Kept'
  BY <1>1, SaveNewKeeps, DeleteKeeps
<1>2. ASSUME NEW d \in Docs, NEW status \in Statuses, UpdateStatus(d, status) PROVE Kept'
  BY <1>2, UpdateStatusKeeps
<1>3. ASSUME NEW c \in Clients, Refresh(c) PROVE Kept'
  BY <1>3, LoadKeeps, AllowSessionKeeps, AllowDocumentKeeps, ExecuteKeeps, CallOverKeeps,
     SaveRefreshedKeeps DEF Refresh
<1>4. ASSUME NEW p \in Places, Extract(p) PROVE Kept'
  BY <1>4, ExtractKeeps
<1>5. CASE UNCHANGED vars
  BY <1>5, HistorySame DEF Kept, TypeOK, vars, runs
<1> QED BY <1>1, <1>2, <1>3, <1>4, <1>5, RefillKeeps, DayKeeps DEF Next

\* Every variable has its type: in particular a call is saved with the number
\* of an executor run, and answers are those of replies the tools may give.
THEOREM TypeCorrect == Spec => []TypeOK
<1>1. Kept => TypeOK
  BY DEF Kept
<1> QED BY InitKept, NextKeeps, <1>1, PTL DEF Spec

\* No answer a document had is lost before it is MaxRevisions answers old,
\* whatever saves, refreshes, deletions and failures interleave
\* (sqlite_store.go:156-217, 222-279).
THEOREM HistoryTrue == Spec => []HistoryKept
<1>1. Kept => HistoryKept
  BY DEF Kept
<1> QED BY InitKept, NextKeeps, <1>1, PTL DEF Spec

-----------------------------------------------------------------------------
\* Late writers

\* A call whose document was taken from under it is one of the overtaken.
Late(c) ==
  ~Idle(c) =>
    /\ row[call[c].doc].status = "orphaned" => call[c].ack \/ c \in overtaken.orphaned
    /\ ~Stored(call[c].doc) => c \in overtaken.deleted

AllLate == \A c \in Clients : Late(c)

\* A document that is saved is fresh.
LEMMA SaveFresh ==
  ASSUME Kept, NEW d \in Docs, NEW answer, Save(d, answer)
  PROVE  /\ row'[d].status = "fresh" /\ Stored(d)'
         /\ \A q \in Docs \ {d} : row'[q] = row[q]
<1>1. row' = [row EXCEPT ![d] = [answer |-> answer, status |-> "fresh"]]
  BY DEF Save
<1> QED BY <1>1 DEF Kept, TypeOK, Stored, NoRow

LEMMA SaveLate ==
  ASSUME Kept, AllLate, NEW d \in Docs, NEW answer, Save(d, answer),
         UNCHANGED overtaken,
         \A c \in Clients : call'[c] = call[c] \/ call'[c] = NoCall
  PROVE  AllLate'
<1> SUFFICES ASSUME NEW c \in Clients, ~Idle(c)' PROVE Late(c)'
  BY DEF AllLate, Late
<1>1. call'[c] = call[c] /\ ~Idle(c) /\ call[c].doc \in Docs
  BY CallFields DEF Idle, Kept
<1>2. Late(c)
  BY DEF AllLate
<1>3. CASE call[c].doc = d
  BY <1>1, <1>3, SaveFresh DEF Late
<1>4. CASE call[c].doc # d
  BY <1>1, <1>2, <1>4, SaveFresh DEF Late, Stored
<1> QED BY <1>3, <1>4

LEMMA DeleteLate ==
  ASSUME Kept, AllLate, NEW d \in Docs, Delete(d)
  PROVE  AllLate'
<1> SUFFICES ASSUME NEW c \in Clients, ~Idle(c)' PROVE Late(c)'
  BY DEF AllLate, Late
<1>1. /\ call' = call /\ row' = [row EXCEPT ![d] = NoRow]
      /\ overtaken' = [overtaken EXCEPT !.deleted = overtaken.deleted \cup Under(d)]
  BY DEF Delete
<1>2. ~Idle(c) /\ call[c].doc \in Docs /\ Late(c)
  BY <1>1, CallFields DEF Idle, Kept, AllLate
<1>3. /\ overtaken'.orphaned = overtaken.orphaned
      /\ overtaken'.deleted = overtaken.deleted \cup Under(d)
  BY <1>1 DEF Kept, TypeOK
<1>4. CASE call[c].doc = d
  <2>1. c \in Under(d)
    BY <1>2, <1>4 DEF Under
  <2>2. row'[d].status # "orphaned"
    BY <1>1 DEF Kept, TypeOK, NoRow
  <2> QED BY <1>1, <1>3, <1>4, <2>1, <2>2 DEF Late
<1>5. CASE call[c].doc # d
  <2>1. row'[call[c].doc] = row[call[c].doc]
    BY <1>1, <1>2, <1>5 DEF Kept, TypeOK
  <2> QED BY <1>1, <1>2, <1>3, <2>1 DEF Late, Stored
<1> QED BY <1>4, <1>5

LEMMA UpdateStatusLate ==
  ASSUME Kept, AllLate, NEW d \in Docs, NEW status \in Statuses, UpdateStatus(d, status)
  PROVE  AllLate'
<1> SUFFICES ASSUME NEW c \in Clients, ~Idle(c)' PROVE Late(c)'
  BY DEF AllLate, Late
<1>1. /\ call' = call /\ row[d] \in Rows
      /\ row' = [row EXCEPT ![d] = [row[d] EXCEPT !.status = status]]
  BY DEF Kept, TypeOK, UpdateStatus, Stored
<1>2. ~Idle(c) /\ call[c].doc \in Docs /\ Late(c)
  BY <1>1, CallFields DEF Idle, Kept, AllLate
<1>3. /\ overtaken'.deleted = overtaken.deleted
      /\ overtaken.orphaned \subseteq overtaken'.orphaned
      /\ status = "orphaned" => Under(d) \subseteq overtaken'.orphaned
  BY DEF Kept, TypeOK, UpdateStatus
<1>4. CASE call[c].doc = d
  <2>1. c \in Under(d)
    BY <1>2, <1>4 DEF Under
  <2>2. row'[d].status = status /\ row'[d] # NoRow
    BY <1>1 DEF Kept, TypeOK, Rows, NoRow, Statuses
  <2> QED BY <1>1, <1>3, <1>4, <2>1, <2>2 DEF Late, Stored
<1>5. CASE call[c].doc # d
  <2>1. row'[call[c].doc] = row[call[c].doc]
    BY <1>1, <1>2, <1>5 DEF Kept, TypeOK
  <2> QED BY <1>1, <1>2, <1>3, <2>1 DEF Late, Stored
<1> QED BY <1>4, <1>5

LEMMA LoadLate ==
  ASSUME Kept, AllLate, NEW b \in Clients, NEW d \in Docs, NEW ack \in BOOLEAN,
         Load(b, d, ack)
  PROVE  AllLate'
<1> SUFFICES ASSUME NEW c \in Clients, ~Idle(c)' PROVE Late(c)'
  BY DEF AllLate, Late
<1>1. /\ row' = row /\ Stored(d) /\ (row[d].status = "orphaned" => ack)
      /\ call' = [call EXCEPT ![b] =
                    [at |-> "session", doc |-> d, ack |-> ack, answer |-> 0]]
  BY DEF Load
<1>2. CASE c = b
  <2>1. call'[c].doc = d /\ call'[c].ack = ack
    BY <1>1, <1>2 DEF Kept, TypeOK
  <2> QED BY <1>1, <2>1 DEF Late, Stored
<1>3. CASE c # b
  <2>1. call'[c] = call[c]
    BY <1>1, <1>3 DEF Kept, TypeOK
  <2>2. /\ c \in overtaken.orphaned => c \in overtaken'.orphaned
        /\ c \in overtaken.deleted => c \in overtaken'.deleted
    BY <1>3 DEF Load, Kept, TypeOK
  <2>3. Late(c)
    BY DEF AllLate
  <2> QED BY <1>1, <2>1, <2>2, <2>3 DEF Late, Stored, Idle
<1> QED BY <1>2, <1>3

\* A call goes on with its document and its acknowledgement, or ends.
LEMMA CallLate ==
  ASSUME Kept, AllLate, UNCHANGED <<row, overtaken>>,
         \A c \in Clients : \/ call'[c] = NoCall
                           \/ /\ ~Idle(c) /\ call'[c].doc = call[c].doc
                              /\ call'[c].ack = call[c].ack
                           \/ call'[c] = call[c]
  PROVE  AllLate'
<1> SUFFICES ASSUME NEW c \in Clients, ~Idle(c)' PROVE Late(c)'
  BY DEF AllLate, Late
<1>1. ~Idle(c) /\ call'[c].doc = call[c].doc /\ call'[c].ack = call[c].ack
  BY DEF Idle
<1>2. Late(c)
  BY DEF AllLate
<1> QED BY <1>1, <1>2 DEF Late, Stored

LEMMA RefreshLate ==
  ASSUME Kept, AllLate, NEW b \in Clients, Refresh(b)
  PROVE  AllLate'
<1>1. ASSUME AllowSession(b) \/ AllowDocument(b) PROVE AllLate'
  <2>1. call[b].at \in {"session", "document"} /\ UNCHANGED <<row, overtaken>>
    BY <1>1 DEF AllowSession, AllowDocument, store
  <2>2. ~Idle(b) /\ call[b] \in Calls
    BY <2>1, Somewhere, CallFields DEF Kept
  <2>3. CASE \E at \in {"document", "executor"} : Goes(b, at)
    <3>1. PICK at \in {"document", "executor"} : Goes(b, at)
      BY <2>3
    <3>2. /\ call'[b] = [call[b] EXCEPT !.at = at]
          /\ \A c \in Clients \ {b} : call'[c] = call[c]
      BY <2>1, <3>1, GoesOn DEF Kept
    <3>3. call'[b].doc = call[b].doc /\ call'[b].ack = call[b].ack
      BY <2>2, <3>2 DEF Calls
    <3> QED BY <2>1, <2>2, <3>2, <3>3, CallLate
  <2>4. CASE Ends(b)
    BY <2>1, <2>4, EndsOff, CallLate DEF Kept
  <2> QED BY <1>1, <2>3, <2>4 DEF AllowSession, AllowDocument
<1>2. ASSUME Execute(b) PROVE AllLate'
  <2>1. /\ call[b].at = "executor" /\ UNCHANGED <<row, overtaken>>
        /\ call' = [call EXCEPT ![b] = [call[b] EXCEPT !.at = "save", !.answer = runs + 1]]
    BY <1>2 DEF Execute, store, Kept, TypeOK
  <2>2. ~Idle(b) /\ call[b] \in Calls
    BY <2>1, Somewhere, CallFields DEF Kept
  <2>3. call'[b].doc = call[b].doc /\ call'[b].ack = call[b].ack
    BY <2>1, <2>2 DEF Kept, TypeOK, Calls
  <2>4. \A c \in Clients \ {b} : call'[c] = call[c]
    BY <2>1 DEF Kept, TypeOK
  <2> QED BY <2>1, <2>2, <2>3, <2>4, CallLate
<1>3. ASSUME ExecuteFails(b) \/ SaveFails(b) PROVE AllLate'
  BY <1>3, EndsOff, CallLate DEF ExecuteFails, SaveFails, Kept, store
<1>4. ASSUME SaveRefreshed(b) PROVE AllLate'
  <2>1. call[b].doc \in Docs
    BY <1>4, Somewhere, CallFields DEF SaveRefreshed, Kept
  <2>2. Save(call[b].doc, call[b].answer) /\ Ends(b) /\ UNCHANGED overtaken
    BY <1>4 DEF SaveRefreshed
  <2> QED BY <2>1, <2>2, EndsOff, SaveLate DEF Kept
<1> QED BY <1>1, <1>2, <1>3, <1>4, LoadLate DEF Refresh

LEMMA NextLate == Kept /\ AllLate /\ [Next]_vars => AllLate'
<1> SUFFICES ASSUME Kept, AllLate, [Next]_vars PROVE AllLate'
  OBVIOUS
<1>1. ASSUME NEW d \in Docs, SaveNew(d) PROVE AllLate'
  BY <1>1, SaveLate DEF SaveNew
<1>2. ASSUME RefillDocs \/ RefillSessions \/ Day \/ UNCHANGED vars
             \/ \E p \in Places : Extract(p)
      PROVE  AllLate'
  <2>1. UNCHANGED <<row, overtaken, call>>
    BY <1>2 DEF RefillDocs, RefillSessions, Day, Extract, store, vars
  <2> QED BY <2>1, CallLate
<1> QED BY <1>1, <1>2, DeleteLate, UpdateStatusLate, RefreshLate DEF Next

\* An orphaned document is answered anew only when a human acknowledged it or
\* the mark came after the refresh had read it, and a deleted document comes
\* back only from a refresh that had read it (mcptools.go:207-214, 241-243).
THEOREM LateWrites == Spec => LateOnly
<1>1. Init => AllLate
  BY DEF Init, AllLate, Late, Idle
<1>2. AllLate /\ [Next]_vars =>
        [\A c \in Clients : SaveRefreshed(c) =>
           /\ row[call[c].doc].status = "orphaned" =>
                call[c].ack \/ c \in overtaken.orphaned
           /\ ~Stored(call[c].doc) => c \in overtaken.deleted]_vars
  <2> SUFFICES ASSUME AllLate, NEW c \in Clients, SaveRefreshed(c)
               PROVE  /\ row[call[c].doc].status = "orphaned" =>
                           call[c].ack \/ c \in overtaken.orphaned
                      /\ ~Stored(call[c].doc) => c \in overtaken.deleted
    OBVIOUS
  <2>1. ~Idle(c)
    BY Somewhere DEF SaveRefreshed
  <2> QED BY <2>1 DEF AllLate, Late
<1> QED BY InitKept, NextKeeps, NextLate, <1>1, <1>2, PTL DEF Spec, LateOnly

-----------------------------------------------------------------------------
\* The two limits

\* Calls that have a token of the session and not yet one of the pair.
Asking(s) == {c \in Clients : call[c].at = "document" /\ SessionOf[c] = s}

\* Every token is in its bucket, in a call on its way or spent on a run.
TokensKept ==
  \A s \in Sessions :
    /\ \A d \in Docs : ran.doc[s][d] + docTokens[s][d] <= DocBurst + refills.doc
    /\ ran.session[s] + sessionTokens[s] + Cardinality(Asking(s)) <=
         SessionBurst + refills.session

LEMMA AskingFinite ==
  ASSUME NEW s \in Sessions
  PROVE  IsFiniteSet(Asking(s)) /\ Cardinality(Asking(s)) \in Nat
<1>1. Asking(s) \in SUBSET Clients
  BY DEF Asking
<1> QED BY <1>1, FS_Subset, FS_CardinalityType DEF EvergreenAssumption

\* Calls change, but not which of them are at the second bucket.
LEMMA TokensSame ==
  ASSUME TokensKept, UNCHANGED <<docTokens, sessionTokens, ran, refills>>,
         \A c \in Clients : call'[c].at = "document" <=> call[c].at = "document"
  PROVE  TokensKept'
<1>1. \A s : Asking(s)' = Asking(s)
  BY DEF Asking
<1> QED BY <1>1 DEF TokensKept

LEMMA AllowSessionTokens ==
  ASSUME Kept, TokensKept, NEW c \in Clients, AllowSession(c)
  PROVE  TokensKept'
<1> DEFINE s == SessionOf[c]
<1>1. s \in Sessions /\ call[c].at = "session" /\ UNCHANGED <<docTokens, ran, refills>>
  BY DEF AllowSession, EvergreenAssumption
<1>2. CASE sessionTokens[s] > 0
  <2>1. /\ Goes(c, "document")
        /\ sessionTokens' = [sessionTokens EXCEPT ![s] = sessionTokens[s] - 1]
    BY <1>2 DEF AllowSession, Kept, TypeOK
  <2>2. call'[c].at = "document" /\ \A b \in Clients \ {c} : call'[b] = call[b]
    <3>1. /\ call[c] \in Calls /\ call'[c] = [call[c] EXCEPT !.at = "document"]
          /\ \A b \in Clients \ {c} : call'[b] = call[b]
      BY <1>1, <2>1, GoesOn, Somewhere, CallFields DEF Kept
    <3> QED BY <3>1 DEF Calls
  <2>3. Asking(s)' = Asking(s) \cup {c} /\ c \notin Asking(s)
    BY <1>1, <2>2 DEF Asking
  <2>4. Cardinality(Asking(s)') = Cardinality(Asking(s)) + 1
    BY <1>1, <2>3, AskingFinite, FS_AddElement
  <2>5. \A t \in Sessions \ {s} : Asking(t)' = Asking(t)
    BY <1>1, <2>2 DEF Asking
  <2>6. sessionTokens'[s] = sessionTokens[s] - 1
        /\ \A t \in Sessions \ {s} : sessionTokens'[t] = sessionTokens[t]
    BY <1>1, <2>1 DEF Kept, TypeOK
  <2> SUFFICES ASSUME NEW t \in Sessions
               PROVE  ran.session[t] + sessionTokens'[t] + Cardinality(Asking(t)') <=
                        SessionBurst + refills.session
    BY <1>1 DEF TokensKept
  <2>7. /\ ran.session[t] \in Nat /\ sessionTokens[t] \in Nat
        /\ Cardinality(Asking(t)) \in Nat
        /\ ran.session[t] + sessionTokens[t] + Cardinality(Asking(t)) <=
             SessionBurst + refills.session
        /\ SessionBurst \in Nat /\ refills.session \in Nat
    BY AskingFinite DEF Kept, TypeOK, TokensKept, EvergreenAssumption
  <2>8. CASE t = s
    BY <2>4, <2>6, <2>7, <2>8
  <2>9. CASE t # s
    BY <2>5, <2>6, <2>7, <2>9
  <2> QED BY <2>8, <2>9
<1>3. CASE ~(sessionTokens[s] > 0)
  <2>1. Ends(c) /\ UNCHANGED sessionTokens
    BY <1>3 DEF AllowSession
  <2>2. \A b \in Clients : call'[b].at = "document" <=> call[b].at = "document"
    BY <1>1, <2>1, EndsOff DEF Kept, NoCall
  <2> QED BY <1>1, <2>1, <2>2, TokensSame
<1> QED BY <1>2, <1>3

LEMMA AllowDocumentTokens ==
  ASSUME Kept, TokensKept, NEW c \in Clients, AllowDocument(c)
  PROVE  TokensKept'
<1> DEFINE s == SessionOf[c]
           d == call[c].doc
<1>1. /\ s \in Sessions /\ call[c].at = "document" /\ d \in Docs
      /\ UNCHANGED <<sessionTokens, refills>>
  BY Somewhere, CallFields DEF AllowDocument, EvergreenAssumption, Kept
<1>2. call'[c].at # "document" /\ \A b \in Clients \ {c} : call'[b] = call[b]
  <2>1. CASE Goes(c, "executor")
    <3>1. /\ call[c] \in Calls /\ call'[c] = [call[c] EXCEPT !.at = "executor"]
          /\ \A b \in Clients \ {c} : call'[b] = call[b]
      BY <1>1, <2>1, GoesOn, Somewhere, CallFields DEF Kept
    <3> QED BY <3>1 DEF Calls
  <2>2. CASE Ends(c)
    BY <2>2, EndsOff DEF Kept, NoCall
  <2> QED BY <2>1, <2>2 DEF AllowDocument
<1>3. Asking(s)' = Asking(s) \ {c} /\ c \in Asking(s)
  BY <1>1, <1>2 DEF Asking
<1>4. Cardinality(Asking(s)') = Cardinality(Asking(s)) - 1
  <2>1. IsFiniteSet(Asking(s))
    BY <1>1, AskingFinite
  <2>2. Cardinality(Asking(s) \ {c}) = Cardinality(Asking(s)) - 1
    BY <1>3, <2>1, FS_RemoveElement
  <2> QED BY <1>3, <2>2
<1>5. \A t \in Sessions \ {s} : Asking(t)' = Asking(t)
  BY <1>1, <1>2 DEF Asking
<1>6. \/ UNCHANGED <<docTokens, ran>>
      \/ /\ docTokens[s][d] > 0
         /\ docTokens' = [docTokens EXCEPT ![s] =
                            [docTokens[s] EXCEPT ![d] = docTokens[s][d] - 1]]
         /\ ran' = [doc |-> [ran.doc EXCEPT ![s] =
                               [ran.doc[s] EXCEPT ![d] = ran.doc[s][d] + 1]],
                    session |-> [ran.session EXCEPT ![s] = ran.session[s] + 1]]
  BY TokenSpent
<1> HIDE DEF s, d
<1>7. ASSUME NEW t \in Sessions
      PROVE  ran'.session[t] <= IF t = s THEN ran.session[t] + 1 ELSE ran.session[t]
  <2>1. ran.session \in [Sessions -> Nat] /\ ran.session[t] \in Nat
    BY <1>7 DEF Kept, TypeOK
  <2>2. CASE UNCHANGED <<docTokens, ran>>
    BY <2>1, <2>2
  <2>3. CASE ~UNCHANGED <<docTokens, ran>>
    <3>1. ran'.session = [ran.session EXCEPT ![s] = ran.session[s] + 1]
      BY <1>6, <2>3
    <3>2. ran'.session[t] = IF t = s THEN ran.session[t] + 1 ELSE ran.session[t]
      BY <1>1, <2>1, <3>1
    <3> QED BY <2>1, <3>2
  <2> QED BY <2>2, <2>3
<1>8. ASSUME NEW t \in Sessions, NEW e \in Docs
      PROVE  ran'.doc[t][e] + docTokens'[t][e] = ran.doc[t][e] + docTokens[t][e]
  <2>1. CASE UNCHANGED <<docTokens, ran>>
    BY <2>1
  <2>2. CASE ~UNCHANGED <<docTokens, ran>>
    <3> DEFINE g == [docTokens[s] EXCEPT ![d] = docTokens[s][d] - 1]
               h == [ran.doc[s] EXCEPT ![d] = ran.doc[s][d] + 1]
    <3>1. /\ docTokens' = [docTokens EXCEPT ![s] = g]
          /\ ran'.doc = [ran.doc EXCEPT ![s] = h]
      BY <1>6, <2>2
    <3>2. /\ docTokens \in [Sessions -> [Docs -> 0 .. DocBurst]]
          /\ ran.doc \in [Sessions -> [Docs -> Nat]]
      BY DEF Kept, TypeOK
    <3>3. CASE t # s
      BY <1>8, <3>1, <3>2, <3>3
    <3>4. CASE t = s
      <4>1. docTokens'[t] = g /\ ran'.doc[t] = h
        BY <1>1, <3>1, <3>2, <3>4
      <4>2. docTokens[t] \in [Docs -> 0 .. DocBurst] /\ ran.doc[t] \in [Docs -> Nat]
        BY <1>8, <3>2
      <4>3. CASE e # d
        BY <1>8, <3>4, <4>1, <4>2, <4>3
      <4>4. CASE e = d
        <5>1. docTokens'[t][e] = docTokens[t][e] - 1 /\ ran'.doc[t][e] = ran.doc[t][e] + 1
          BY <1>1, <3>4, <4>1, <4>2, <4>4
        <5>2. docTokens[t][e] \in Int /\ ran.doc[t][e] \in Int
          BY <1>8, <4>2 DEF EvergreenAssumption
        <5>3. \A a, b \in Int : (a + 1) + (b - 1) = a + b
          OBVIOUS
        <5> QED BY <5>1, <5>2, <5>3
      <4> QED BY <4>3, <4>4
    <3> QED BY <3>3, <3>4
  <2> QED BY <2>1, <2>2
<1> SUFFICES ASSUME NEW t \in Sessions
             PROVE  ran'.session[t] + sessionTokens'[t] + Cardinality(Asking(t)') <=
                      SessionBurst + refills'.session
  BY <1>1, <1>8 DEF TokensKept
<1>9. /\ ran.session[t] \in Nat /\ sessionTokens[t] \in Nat /\ ran'.session[t] \in Nat
      /\ Cardinality(Asking(t)) \in Nat
      /\ ran.session[t] + sessionTokens[t] + Cardinality(Asking(t)) <=
           SessionBurst + refills.session
      /\ SessionBurst \in Nat /\ refills.session \in Nat
  <2>1. ran' \in [doc : [Sessions -> [Docs -> Nat]], session : [Sessions -> Nat]]
    BY AllowDocumentKeeps DEF Kept, TypeOK
  <2> QED BY <2>1, AskingFinite DEF Kept, TypeOK, TokensKept, EvergreenAssumption
<1>10. CASE t = s
  BY SMTT(80), <1>1, <1>4, <1>7, <1>9, <1>10
<1>11. CASE t # s
  BY <1>1, <1>5, <1>7, <1>9, <1>11
<1> QED BY <1>10, <1>11

LEMMA RefillTokens ==
  ASSUME Kept, TokensKept, RefillDocs \/ RefillSessions
  PROVE  TokensKept'
<1>1. \A s \in Sessions : Asking(s)' = Asking(s) /\ Cardinality(Asking(s)) \in Nat
  BY AskingFinite DEF RefillDocs, RefillSessions, Asking
<1>2. CASE RefillDocs
  <2>1. /\ refills'.doc = refills.doc + 1 /\ refills'.session = refills.session
        /\ UNCHANGED <<sessionTokens, ran>>
        /\ docTokens' = [s \in Sessions |-> [d \in Docs |->
              IF docTokens[s][d] < DocBurst THEN docTokens[s][d] + 1 ELSE DocBurst]]
    BY <1>2 DEF RefillDocs, Kept, TypeOK
  <2>2. ASSUME NEW s \in Sessions, NEW d \in Docs
        PROVE  ran.doc[s][d] + docTokens'[s][d] <= DocBurst + refills'.doc
    <3>1. /\ ran.doc[s][d] + docTokens[s][d] <= DocBurst + refills.doc
          /\ ran.doc[s][d] \in Nat /\ docTokens[s][d] \in 0 .. DocBurst
          /\ DocBurst \in Nat /\ refills.doc \in Nat
      BY DEF TokensKept, Kept, TypeOK, EvergreenAssumption
    <3>2. docTokens'[s][d] =
            IF docTokens[s][d] < DocBurst THEN docTokens[s][d] + 1 ELSE DocBurst
      BY <2>1
    <3> QED BY SMTT(80), <2>1, <3>1, <3>2
  <2> QED BY <1>1, <2>1, <2>2 DEF TokensKept
<1>3. CASE RefillSessions
  <2>1. /\ refills'.session = refills.session + 1 /\ refills'.doc = refills.doc
        /\ UNCHANGED <<docTokens, ran>>
        /\ sessionTokens' = [s \in Sessions |->
              IF sessionTokens[s] < SessionBurst THEN sessionTokens[s] + 1 ELSE SessionBurst]
    BY <1>3 DEF RefillSessions, Kept, TypeOK
  <2>2. ASSUME NEW s \in Sessions
        PROVE  ran.session[s] + sessionTokens'[s] + Cardinality(Asking(s)) <=
                 SessionBurst + refills'.session
    <3>1. /\ ran.session[s] + sessionTokens[s] + Cardinality(Asking(s)) <=
               SessionBurst + refills.session
          /\ ran.session[s] \in Nat /\ sessionTokens[s] \in 0 .. SessionBurst
          /\ SessionBurst \in Nat /\ refills.session \in Nat
          /\ Cardinality(Asking(s)) \in Nat
      BY <1>1 DEF TokensKept, Kept, TypeOK, EvergreenAssumption
    <3>2. /\ sessionTokens'[s] <= sessionTokens[s] + 1 /\ sessionTokens'[s] \in Nat
      BY <2>1, <3>1
    <3>3. \A a, b, n, u, v, m \in Nat : a + b + n <= u + v /\ m <= b + 1 =>
            a + m + n <= u + (v + 1)
      OBVIOUS
    <3>4. sessionTokens[s] \in Nat /\ refills'.session = refills.session + 1
      BY <2>1, <3>1
    <3> QED BY ZenonT(80), <3>1, <3>2, <3>3, <3>4
  <2> QED BY <1>1, <2>1, <2>2 DEF TokensKept
<1> QED BY <1>2, <1>3

LEMMA NextTokens == Kept /\ TokensKept /\ [Next]_vars => TokensKept'
<1> SUFFICES ASSUME Kept, TokensKept, [Next]_vars PROVE TokensKept'
  OBVIOUS
<1>1. ASSUME NEW c \in Clients, Refresh(c) PROVE TokensKept'
  <2>1. ASSUME NEW d \in Docs, NEW ack \in BOOLEAN, Load(c, d, ack) PROVE TokensKept'
    <3>1. \A b \in Clients : call'[b].at = "document" <=> call[b].at = "document"
      BY <2>1 DEF Load, Idle, NoCall, Kept, TypeOK
    <3> QED BY <2>1, <3>1, TokensSame DEF Load, limits
  <2>2. ASSUME Execute(c) PROVE TokensKept'
    <3>1. /\ call[c].at = "executor"
          /\ call' = [call EXCEPT ![c] = [call[c] EXCEPT !.at = "save", !.answer = runs + 1]]
      BY <2>2 DEF Execute, Kept, TypeOK
    <3>2. call[c] \in Calls
      BY <3>1, Somewhere, CallFields DEF Kept
    <3>3. \A b \in Clients : call'[b].at = "document" <=> call[b].at = "document"
      BY <3>1, <3>2 DEF Kept, TypeOK, Calls
    <3> QED BY <2>2, <3>3, TokensSame DEF Execute, limits
  <2>3. ASSUME ExecuteFails(c) \/ SaveFails(c) \/ SaveRefreshed(c) PROVE TokensKept'
    <3>1. call[c].at # "document" /\ Ends(c) /\ UNCHANGED limits
      BY <2>3 DEF ExecuteFails, SaveFails, SaveRefreshed
    <3>2. \A b \in Clients : call'[b].at = "document" <=> call[b].at = "document"
      BY <3>1, EndsOff DEF Kept, NoCall
    <3> QED BY <3>1, <3>2, TokensSame DEF limits
  <2> QED BY <1>1, <2>1, <2>2, <2>3, AllowSessionTokens, AllowDocumentTokens DEF Refresh
<1>2. ASSUME UNCHANGED <<call, limits>> PROVE TokensKept'
  BY <1>2, TokensSame DEF limits
<1>3. ASSUME NEW d \in Docs,
             SaveNew(d) \/ Delete(d) \/ \E status \in Statuses : UpdateStatus(d, status)
      PROVE  UNCHANGED <<call, limits>>
  BY <1>3 DEF SaveNew, Delete, UpdateStatus
<1>4. ASSUME Day \/ UNCHANGED vars \/ \E p \in Places : Extract(p)
      PROVE  UNCHANGED <<call, limits>>
  BY <1>4 DEF Day, Extract, vars, limits
<1> QED BY <1>1, <1>2, <1>3, <1>4, RefillTokens DEF Next

\* The executor is run no more often than the bucket of the pair and the bucket
\* of the session allow, however many calls are in flight and whichever fail
\* (ratelimiter.go:129-142).
THEOREM QuotaHolds == Spec => []Quota
<1>1. Init => TokensKept
  <2> SUFFICES ASSUME Init, NEW s \in Sessions
               PROVE  /\ \A d \in Docs :
                           ran.doc[s][d] + docTokens[s][d] <= DocBurst + refills.doc
                      /\ ran.session[s] + sessionTokens[s] + Cardinality(Asking(s)) <=
                           SessionBurst + refills.session
    BY DEF TokensKept
  <2>1. Asking(s) = {}
    BY DEF Init, Asking, NoCall
  <2>2. Cardinality(Asking(s)) = 0
    BY <2>1, FS_EmptySet
  <2> QED BY <2>2 DEF Init, EvergreenAssumption
<1>2. Kept /\ TokensKept => Quota
  <2> SUFFICES ASSUME Kept, TokensKept, NEW s \in Sessions
               PROVE  /\ \A d \in Docs : ran.doc[s][d] <= DocBurst + refills.doc
                      /\ ran.session[s] <= SessionBurst + refills.session
    BY DEF Quota
  <2>1. Cardinality(Asking(s)) \in Nat
    BY AskingFinite
  <2>2. /\ SessionBurst \in Nat /\ DocBurst \in Nat
        /\ refills.doc \in Nat /\ refills.session \in Nat
        /\ ran.session[s] \in Nat /\ sessionTokens[s] \in Nat
        /\ \A d \in Docs : ran.doc[s][d] \in Nat /\ docTokens[s][d] \in Nat
    <3>1. \A d \in Docs : ran.doc[s][d] \in Nat /\ docTokens[s][d] \in 0 .. DocBurst
      BY DEF Kept, TypeOK
    <3> QED BY <3>1 DEF Kept, TypeOK, EvergreenAssumption
  <2>3. /\ \A d \in Docs : ran.doc[s][d] + docTokens[s][d] <= DocBurst + refills.doc
        /\ ran.session[s] + sessionTokens[s] + Cardinality(Asking(s)) <=
             SessionBurst + refills.session
    BY DEF TokensKept
  <2>4. \A a, b, u \in Nat : a + b <= u => a <= u
    OBVIOUS
  <2>5. \A a, b, n, u \in Nat : a + b + n <= u => a <= u
    OBVIOUS
  <2>6. DocBurst + refills.doc \in Nat /\ SessionBurst + refills.session \in Nat
    BY <2>2
  <2>7. \A d \in Docs : ran.doc[s][d] <= DocBurst + refills.doc
    BY <2>2, <2>3, <2>4, <2>6
  <2>8. ran.session[s] <= SessionBurst + refills.session
    BY <2>1, <2>2, <2>3, <2>5, <2>6
  <2> QED BY <2>7, <2>8
<1> QED BY InitKept, NextKeeps, NextTokens, <1>1, <1>2, PTL DEF Spec

HIDE EvergreenAssumption

-----------------------------------------------------------------------------
\* Finite sets

\* What a set has when it has it whenever all smaller sets do.
LEMMA FiniteInduction ==
  ASSUME NEW S, IsFiniteSet(S), NEW G,
         \A T \in SUBSET S : (\A x \in T : T \ {x} \in G) => T \in G
  PROVE  S \in G
<1> DEFINE B == (SUBSET S) \ G
<1>1. SUFFICES ASSUME B # {} PROVE FALSE
  OBVIOUS
<1>2. IsWellFoundedOn(StrictSubsetOrdering(S), SUBSET S)
  BY FS_StrictSubsetOrderingWellFounded, FS_FiniteSubsetsOfFinite
<1>3. PICK T \in B : \A U \in B : ~ (<<U, T>> \in StrictSubsetOrdering(S))
  <2> HIDE DEF B
  <2>1. B \subseteq SUBSET S
    BY DEF B
  <2> QED BY <1>1, <1>2, <2>1, WFMin
<1>4. ASSUME NEW x \in T PROVE T \ {x} \in G
  <2>1. T \ {x} \in SUBSET S /\ T \ {x} # T /\ T \ {x} \subseteq T
    BY <1>4
  <2>2. CASE T \ {x} \in B
    <3>1. ~ (<<T \ {x}, T>> \in StrictSubsetOrdering(S))
      BY <1>3, <2>2
    <3> QED BY <2>1, <3>1 DEF StrictSubsetOrdering
  <2> QED BY <2>1, <2>2
<1> QED BY <1>3, <1>4

\* A finite set of numbers has a largest.
LEMMA Largest ==
  ASSUME NEW S \in SUBSET Nat, IsFiniteSet(S), S # {}
  PROVE  Max(S) \in S /\ \A y \in S : y <= Max(S)
<1> DEFINE G == {T \in SUBSET S : T = {} \/ \E m \in T : \A y \in T : m >= y}
<1>1. ASSUME NEW T \in SUBSET S, \A x \in T : T \ {x} \in G
      PROVE  T \in G
  <2>1. CASE T = {}
    BY <2>1
  <2>2. ASSUME NEW x \in T PROVE T \in G
    <3>1. CASE T \ {x} = {}
      <4>1. \A y \in T : x >= y
        BY <2>2, <3>1
      <4> QED BY <2>2, <4>1
    <3>2. CASE T \ {x} # {}
      <4>1. PICK m \in T \ {x} : \A y \in T \ {x} : m >= y
        BY <1>1, <2>2, <3>2
      <4>2. x \in Nat /\ \A y \in T : y \in Nat
        BY <2>2
      <4>3. CASE x >= m
        <5>1. \A y \in T : x >= y
          BY <4>1, <4>2, <4>3
        <5> QED BY <2>2, <5>1
      <4>4. CASE ~(x >= m)
        <5>1. \A y \in T : m >= y
          BY <4>1, <4>2, <4>4
        <5> QED BY <4>1, <5>1
      <4> QED BY <4>3, <4>4
    <3> QED BY <3>1, <3>2
  <2> QED BY <2>1, <2>2
<1> HIDE DEF G
<1>2. S \in G
  BY <1>1, FiniteInduction
<1>3. \E m \in S : \A y \in S : m >= y
  BY <1>2 DEF G
<1>4. Max(S) \in S /\ \A y \in S : Max(S) >= y
  BY <1>3 DEF Max
<1> QED BY <1>4

\* The elements of a finite set, each once.
LEMMA Listed ==
  ASSUME NEW S, IsFiniteSet(S)
  PROVE  /\ Cardinality(S) \in Nat
         /\ SetToSeq(S) \in [1 .. Cardinality(S) -> S]
         /\ \A x \in S : \E i \in 1 .. Cardinality(S) : SetToSeq(S)[i] = x
<1> DEFINE n == Cardinality(S)
           order == SetToSeq(S)
<1>1. n \in Nat /\ ExistsBijection(1 .. n, S)
  BY FS_CardinalityType
<1>2. \E f \in [1 .. n -> S] : IsInjective(f)
  BY <1>1 DEF ExistsBijection, Bijection, Injection
<1>3. order \in [1 .. n -> S] /\ IsInjective(order)
  BY <1>2 DEF SetToSeq
<1> HIDE DEF order
<1>4. order \in Injection(1 .. n, S)
  BY <1>3 DEF Injection
<1>5. Cardinality(1 .. n) = n
  BY <1>1, FS_Interval
<1>6. order \in Surjection(1 .. n, S)
  BY <1>4, <1>5, FS_Injection
<1> QED BY <1>1, <1>3, <1>6 DEF Surjection, order

\* A finite set can be put in the order of any keys.
LEMMA Sortable ==
  ASSUME NEW S, IsFiniteSet(S), NEW key \in [S -> Nat]
  PROVE  \E q \in SetToSeqs(S) :
           \A i, j \in DOMAIN q : i < j => key[q[i]] <= key[q[j]]
<1> DEFINE Sorts(T, q) == /\ q \in [1 .. Cardinality(T) -> T]
                          /\ \A i, j \in 1 .. Cardinality(T) :
                               i < j => q[i] # q[j] /\ key[q[i]] <= key[q[j]]
           G == {T \in SUBSET S : \E q : Sorts(T, q)}
<1>1. ASSUME NEW T \in SUBSET S, \A x \in T : T \ {x} \in G
      PROVE  T \in G
  <2>1. IsFiniteSet(T)
    BY FS_Subset
  <2>2. CASE T = {}
    <3>1. Cardinality(T) = 0
      BY <2>2, FS_EmptySet
    <3> DEFINE q == [i \in {} |-> i]
    <3>2. 1 .. Cardinality(T) = {}
      BY <3>1
    <3>3. q \in [1 .. Cardinality(T) -> T]
      BY <3>2
    <3>4. Sorts(T, q)
      BY <3>2, <3>3
    <3> QED BY <3>4
  <2>3. CASE T # {}
    <3> DEFINE K == {key[x] : x \in T}
               keyed == [x \in T |-> key[x]]
    <3>1. IsFiniteSet(K)
      <4>1. keyed \in Surjection(T, K)
        BY DEF Surjection
      <4> QED BY <2>1, <4>1, FS_Surjection
    <3>2. K \in SUBSET Nat /\ K # {}
      BY <2>3
    <3>3. PICK m \in T : \A x \in T : key[x] <= key[m]
      <4>1. Max(K) \in K /\ \A y \in K : y <= Max(K)
        BY <3>1, <3>2, Largest
      <4> QED BY <4>1
    <3> DEFINE U == T \ {m}
               k == Cardinality(U)
    <3>4. IsFiniteSet(U) /\ k \in Nat /\ Cardinality(T) = k + 1
      <4>1. IsFiniteSet(U) /\ Cardinality(U) = Cardinality(T) - 1
        BY <2>1, FS_RemoveElement
      <4>2. Cardinality(T) \in Nat /\ Cardinality(U) \in Nat
        BY <2>1, <4>1, FS_CardinalityType
      <4> QED BY <4>1, <4>2
    <3>5. PICK q : Sorts(U, q)
      BY <1>1
    <3> DEFINE r == [i \in 1 .. k + 1 |-> IF i = k + 1 THEN m ELSE q[i]]
    <3> HIDE DEF k
    <3>6. q \in [1 .. k -> U]
      BY <3>5 DEF k
    <3>7. \A i \in 1 .. k : i # k + 1 /\ i \in 1 .. k + 1 /\ q[i] \in U
      BY <3>4, <3>6
    <3>8. \A i \in 1 .. k + 1 : i = k + 1 \/ i \in 1 .. k
      BY <3>4
    <3>9. r \in [1 .. k + 1 -> T]
      BY <3>7, <3>8
    <3>10. ASSUME NEW i \in 1 .. k + 1, NEW j \in 1 .. k + 1, i < j
           PROVE  r[i] # r[j] /\ key[r[i]] <= key[r[j]]
      <4>1. i \in 1 .. k /\ r[i] = q[i] /\ q[i] \in U
        BY <3>4, <3>7, <3>10
      <4>2. CASE j = k + 1
        BY <3>3, <4>1, <4>2
      <4>3. CASE j # k + 1
        <5>1. j \in 1 .. k /\ r[j] = q[j]
          BY <3>8, <4>3
        <5> QED BY <3>5, <3>10, <4>1, <5>1 DEF k
      <4> QED BY <4>2, <4>3
    <3>11. Sorts(T, r)
      <4> HIDE DEF r
      <4> QED BY <3>4, <3>9, <3>10
    <3> QED BY <3>11
  <2> QED BY <2>2, <2>3
<1> HIDE DEF G
<1>2. S \in G
  BY <1>1, FiniteInduction
<1>3. PICK q : Sorts(S, q)
  BY <1>2 DEF G
<1>4. DOMAIN q = 1 .. Cardinality(S) /\ Cardinality(S) \in Nat
  BY <1>3, FS_CardinalityType
<1>5. \A i, j \in 1 .. Cardinality(S) : i # j => q[i] # q[j]
  BY <1>3, <1>4
<1>6. q \in SetToSeqs(S)
  BY <1>3, <1>5 DEF SetToSeqs
<1> QED BY <1>3, <1>4, <1>6

-----------------------------------------------------------------------------
\* What an answer cites

\* The links of an answer, the malformed ones left out.
LEMMA SourcesParsed ==
  ASSUME NEW P, "malformed" \notin P, NEW sources \in Seq(P \cup {"malformed"})
  PROVE  /\ ParseMarkdownSources(sources) \in Seq(P)
         /\ ToSet(ParseMarkdownSources(sources)) = ToSet(sources) \ {"malformed"}
<1> DEFINE D == DOMAIN sources
           step(places, link) == IF link = "malformed" \/ Contains(places, link)
                                 THEN places ELSE Append(places, link)
           Folds(T, it) ==
             it = [s \in SUBSET T |->
                     IF s = {} THEN <<>> ELSE step(it[s \ {Max(s)}], sources[Max(s)])]
           G == {T \in SUBSET D : \E it : Folds(T, it)}
<1>1. D \in SUBSET Nat /\ IsFiniteSet(D)
  <2>1. D = 1 .. Len(sources) /\ Len(sources) \in Nat
    OBVIOUS
  <2> QED BY <2>1, FS_Interval
<1>2. \A T \in SUBSET D : T # {} => Max(T) \in T /\ \A y \in T : y <= Max(T)
  BY <1>1, FS_Subset, Largest
<1>3. ASSUME NEW T \in SUBSET D, \A x \in T : T \ {x} \in G
      PROVE  T \in G
  <2>1. CASE T = {}
    <3> DEFINE it == [s \in {{}} |-> <<>>]
    <3>1. SUBSET T = {{}}
      BY <2>1
    <3>2. \A s \in {{}} : s = {}
      OBVIOUS
    <3>3. Folds(T, it)
      BY <3>1, <3>2
    <3> QED BY <3>3
  <2>2. CASE T # {}
    <3> DEFINE m == Max(T)
    <3>1. m \in T
      BY <1>2, <2>2
    <3>2. PICK f : Folds(T \ {m}, f)
      BY <1>3, <3>1
    <3> DEFINE it == [s \in SUBSET T |->
                        IF m \in s THEN step(f[s \ {m}], sources[m]) ELSE f[s]]
    <3> HIDE DEF m
    <3>3. \A s \in SUBSET T : m \in s => Max(s) = m
      <4>1. ASSUME NEW s \in SUBSET T, m \in s PROVE Max(s) = m
        <5>1. Max(s) \in s /\ m <= Max(s) /\ Max(s) <= m /\ m \in Nat /\ Max(s) \in Nat
          BY <1>1, <1>2, <2>2, <4>1 DEF m
        <5> QED BY <5>1
      <4> QED BY <4>1
    <3>4. ASSUME NEW s \in SUBSET T
          PROVE  it[s] = IF s = {} THEN <<>> ELSE step(it[s \ {Max(s)}], sources[Max(s)])
      <4>1. CASE m \in s
        <5>1. Max(s) = m /\ s \ {m} \in SUBSET T /\ m \notin s \ {m}
          BY <3>3, <4>1
        <5>2. it[s] = step(f[s \ {m}], sources[m]) /\ it[s \ {m}] = f[s \ {m}]
          BY <4>1, <5>1
        <5> HIDE DEF it, step
        <5> QED BY <4>1, <5>1, <5>2
      <4>2. CASE m \notin s
        <5>1. s \in SUBSET (T \ {m}) /\ it[s] = f[s]
          BY <4>2
        <5>2. f[s] = IF s = {} THEN <<>> ELSE step(f[s \ {Max(s)}], sources[Max(s)])
          BY <3>2, <5>1
        <5>3. s \ {Max(s)} \in SUBSET T /\ m \notin s \ {Max(s)}
          BY <4>2
        <5>4. it[s \ {Max(s)}] = f[s \ {Max(s)}]
          BY <5>3
        <5> HIDE DEF it, step
        <5> QED BY <5>1, <5>2, <5>4
      <4> QED BY <4>1, <4>2
    <3>5. Folds(T, it)
      <4>1. it = [s \in SUBSET T |-> it[s]]
        OBVIOUS
      <4> HIDE DEF it, step
      <4> QED BY <3>4, <4>1
    <3> QED BY <3>5
  <2> QED BY <2>1, <2>2
<1>4. D \in G
  <2> HIDE DEF G
  <2> QED BY <1>1, <1>3, FiniteInduction
<1> DEFINE it == CHOOSE f : Folds(D, f)
<1>5. Folds(D, it)
  BY <1>4
<1>6. ParseMarkdownSources(sources) = it[D]
  BY DEF ParseMarkdownSources, FoldLeft, MapThenFoldSet
<1> HIDE DEF it
<1> DEFINE H == {T \in SUBSET D :
                   /\ it[T] \in Seq(P)
                   /\ ToSet(it[T]) = {sources[i] : i \in T} \ {"malformed"}}
<1>7. ASSUME NEW T \in SUBSET D, \A x \in T : T \ {x} \in H
      PROVE  T \in H
  <2>1. CASE T = {}
    <3>1. it[T] = <<>>
      BY <1>5, <2>1
    <3>2. ToSet(<<>>) = {}
      BY DEF ToSet
    <3>3. {sources[i] : i \in T} = {} /\ <<>> \in Seq(P)
      BY <2>1
    <3> QED BY <3>1, <3>2, <3>3
  <2>2. CASE T # {}
    <3> DEFINE m == Max(T)
               places == it[T \ {m}]
               link == sources[m]
    <3>1. m \in T
      BY <1>2, <2>2
    <3>2. it[T] = step(places, link)
      BY <1>5, <2>2
    <3>3. /\ places \in Seq(P)
          /\ ToSet(places) = {sources[i] : i \in T \ {m}} \ {"malformed"}
      BY <1>7, <3>1
    <3> HIDE DEF m
    <3>4. link \in P \cup {"malformed"}
      BY <3>1
    <3>5. {sources[i] : i \in T} = {sources[i] : i \in T \ {m}} \cup {link}
      BY <3>1
    <3> HIDE DEF places, link
    <3>6. CASE link = "malformed"
      BY <3>2, <3>3, <3>5, <3>6
    <3>7. CASE link # "malformed" /\ Contains(places, link)
      <4>1. link \in ToSet(places)
        BY <3>3, <3>7 DEF Contains, ToSet
      <4> QED BY <3>2, <3>3, <3>5, <3>7, <4>1
    <3>8. CASE link # "malformed" /\ ~ Contains(places, link)
      <4>1. Append(places, link) \in Seq(P)
        BY <3>3, <3>4, <3>8
      <4>2. ToSet(Append(places, link)) = ToSet(places) \cup {link}
        <5>1. /\ Len(places) \in Nat /\ DOMAIN places = 1 .. Len(places)
              /\ DOMAIN Append(places, link) = 1 .. Len(places) + 1
              /\ \A i \in 1 .. Len(places) : Append(places, link)[i] = places[i]
              /\ Append(places, link)[Len(places) + 1] = link
          BY <3>3
        <5>2. 1 .. Len(places) + 1 = (1 .. Len(places)) \cup {Len(places) + 1}
          BY <5>1
        <5> QED BY <5>1, <5>2 DEF ToSet
      <4> QED BY <3>2, <3>3, <3>5, <3>8, <4>1, <4>2
    <3> QED BY <3>6, <3>7, <3>8
  <2> QED BY <2>1, <2>2
<1>8. D \in H
  <2> HIDE DEF H
  <2> QED BY <1>1, <1>7, FiniteInduction
<1> QED BY <1>6, <1>8 DEF ToSet

\* The entries of an answer name what the reply names, and none is there only when
\* the reply names nothing.
LEMMA EntriesNamed ==
  ASSUME NEW reply \in Replies
  PROVE  LET read == reply.link /\ reply.read
             named == reply.prose \cup (IF read THEN reply.markdown \cup ToSet(reply.sources)
                                        ELSE {})
         IN /\ \E k \in Nat : Entries(reply) = [i \in 1 .. k |-> Entries(reply)[i]]
            /\ \A i \in DOMAIN Entries(reply) :
                 /\ Entries(reply)[i].place \in named \ {"malformed"}
                 /\ \/ \E r \in Repos : Entries(reply)[i] = Fuzzy(r)
                    \/ \E p \in Places : Entries(reply)[i] = Cited(p, NoSymbol)
            /\ Entries(reply) = <<>> =>
                 /\ reply.prose = {}
                 /\ read => reply.markdown = {} /\ ToSet(reply.sources) \subseteq {"malformed"}
<1> DEFINE places == ParseMarkdownSources(reply.sources)
           read == reply.link /\ reply.read
           cited == [i \in DOMAIN places |-> Cited(places[i], NoSymbol)]
           Prose(repos) == FuzzyManifestFromProse(repos)
<1>1. /\ reply.sources \in Seq(Places \cup {"malformed"}) /\ reply.link \in BOOLEAN
      /\ reply.read \in BOOLEAN /\ reply.markdown \in SUBSET Repos
      /\ reply.prose \in SUBSET Repos
  BY EvergreenAssumption
<1>2. places \in Seq(Places) /\ ToSet(places) = ToSet(reply.sources) \ {"malformed"}
  BY <1>1, EvergreenAssumption, SourcesParsed
<1>3. ASSUME NEW repos \in SUBSET Repos
      PROVE  /\ \E k \in Nat : Prose(repos) = [i \in 1 .. k |-> Prose(repos)[i]]
             /\ \A i \in DOMAIN Prose(repos) :
                  \E r \in repos : Prose(repos)[i] = Fuzzy(r)
             /\ Prose(repos) = <<>> => repos = {}
  <2>1. IsFiniteSet(repos)
    BY EvergreenAssumption, FS_Subset
  <2>2. /\ Cardinality(repos) \in Nat
        /\ SetToSeq(repos) \in [1 .. Cardinality(repos) -> repos]
    BY <2>1, Listed
  <2>3. Prose(repos) = [i \in 1 .. Cardinality(repos) |-> Fuzzy(SetToSeq(repos)[i])]
    BY DEF FuzzyManifestFromProse
  <2>4. Prose(repos) = <<>> => repos = {}
    <3>1. ASSUME Prose(repos) = <<>> PROVE repos = {}
      <4>1. DOMAIN Prose(repos) = {}
        BY <3>1
      <4>2. 1 .. Cardinality(repos) = {}
        BY <2>3, <4>1
      <4>3. Cardinality(repos) = 0
        BY <2>2, <4>2
      <4> QED BY <2>1, <4>3, FS_EmptySet
    <3> QED BY <3>1
  <2>5. /\ Prose(repos) = [i \in 1 .. Cardinality(repos) |-> Prose(repos)[i]]
        /\ DOMAIN Prose(repos) = 1 .. Cardinality(repos)
    BY <2>3
  <2> HIDE DEF Prose
  <2>6. \A i \in 1 .. Cardinality(repos) : SetToSeq(repos)[i] \in repos
    BY <2>2
  <2> QED BY <2>2, <2>3, <2>4, <2>5, <2>6
<1>4. /\ cited = [i \in 1 .. Len(places) |-> cited[i]]
      /\ DOMAIN cited = 1 .. Len(places) /\ Len(places) \in Nat
      /\ \A i \in DOMAIN cited :
           places[i] \in Places /\ places[i] \in ToSet(places)
           /\ cited[i] = Cited(places[i], NoSymbol)
  BY <1>2 DEF ToSet
<1>5. cited = <<>> => places = <<>>
  BY <1>2, <1>4
<1>6. \A p : Cited(p, NoSymbol).place = p /\ Fuzzy(p).place = p
  BY DEF Cited, Fuzzy
<1>7. "malformed" \notin Repos
  BY EvergreenAssumption
<1> DEFINE named == reply.prose \cup (IF read THEN reply.markdown \cup ToSet(reply.sources)
                                      ELSE {})
           Named(es) == /\ \E k \in Nat : es = [i \in 1 .. k |-> es[i]]
                        /\ \A i \in DOMAIN es :
                             /\ es[i].place \in named \ {"malformed"}
                             /\ \/ \E r \in Repos : es[i] = Fuzzy(r)
                                \/ \E p \in Places : es[i] = Cited(p, NoSymbol)
<1>8. ASSUME NEW repos \in SUBSET Repos, repos \subseteq named
      PROVE  Named(Prose(repos))
  <2> HIDE DEF Prose
  <2>1. ASSUME NEW i \in DOMAIN Prose(repos)
        PROVE  /\ Prose(repos)[i].place \in named \ {"malformed"}
               /\ \E r \in Repos : Prose(repos)[i] = Fuzzy(r)
    <3>1. PICK r \in repos : Prose(repos)[i] = Fuzzy(r)
      BY <1>3
    <3> HIDE DEF named
    <3> QED BY <1>6, <1>7, <1>8, <3>1
  <2> HIDE DEF named
  <2> QED BY <1>3, <2>1
<1>9. Named(Prose(reply.prose)) /\ (read => Named(Prose(reply.markdown)))
  <2>1. reply.prose \subseteq named /\ (read => reply.markdown \subseteq named)
    OBVIOUS
  <2> HIDE DEF Named, named, Prose, read
  <2> QED BY <1>1, <1>8, <2>1
<1>10. read => Named(cited)
  <2> HIDE DEF cited, places
  <2>1. ASSUME read, NEW i \in DOMAIN cited
        PROVE  /\ cited[i].place \in named \ {"malformed"}
               /\ \E p \in Places : cited[i] = Cited(p, NoSymbol)
    BY <1>2, <1>4, <1>6, <2>1
  <2> QED BY <1>4, <2>1
<1>11. places = <<>> => ToSet(reply.sources) \subseteq {"malformed"}
  <2>1. ToSet(<<>>) = {}
    BY DEF ToSet
  <2> HIDE DEF places
  <2> QED BY <1>2, <2>1
<1>12. Entries(reply) = IF ~read THEN Prose(reply.prose)
                        ELSE IF places # <<>> THEN cited
                        ELSE IF reply.markdown # {} THEN Prose(reply.markdown)
                        ELSE Prose(reply.prose)
  BY <1>1 DEF Entries
<1> HIDE DEF Prose, cited, places
<1>13. Named(Entries(reply))
  <2> HIDE DEF Named
  <2> QED BY <1>9, <1>10, <1>12
<1>14. Entries(reply) = <<>> =>
         reply.prose = {} /\ (read => reply.markdown = {} /\ ToSet(reply.sources) \subseteq {"malformed"})
  <2> HIDE DEF read
  <2> QED BY <1>1, <1>3, <1>5, <1>11, <1>12
<1> QED BY <1>13, <1>14

\* Resolving the symbols changes neither what is cited nor where.
LEMMA CitesSame ==
  ASSUME NEW reply \in Replies, NEW reader, NEW seen, NEW hashes,
         NEW m, m = Resolve(Entries(reply), reader, seen, hashes)
  PROVE  /\ DOMAIN m = DOMAIN Entries(reply)
         /\ m = <<>> <=> Entries(reply) = <<>>
         /\ \A i \in DOMAIN m : m[i].place = Entries(reply)[i].place
<1> DEFINE e == Entries(reply)
<1>1. \A i \in DOMAIN e : \/ \E r \in Repos : e[i] = Fuzzy(r)
                          \/ \E p \in Places : e[i] = Cited(p, NoSymbol)
  BY EntriesNamed
<1>2. PICK k \in Nat : e = [i \in 1 .. k |-> e[i]]
  BY EntriesNamed
<1>3. m = Resolve(e, reader, seen, hashes)
  OBVIOUS
<1> HIDE DEF e
<1>4. /\ DOMAIN m = DOMAIN e /\ m = [i \in DOMAIN e |-> m[i]]
      /\ \A i \in DOMAIN m :
           \/ m[i] = e[i]
           \/ \E w : m[i] = [e[i] EXCEPT !.was = w]
  BY <1>3 DEF Resolve
<1>5. ASSUME NEW i \in DOMAIN m PROVE m[i].place = e[i].place
  <2>1. ASSUME NEW p, NEW f, e[i] = [fuzzy |-> f, place |-> p, was |-> NoSymbol],
               NEW w, m[i] = [e[i] EXCEPT !.was = w]
        PROVE  m[i].place = e[i].place
    BY <2>1
  <2>2. \E p, f : e[i] = [fuzzy |-> f, place |-> p, was |-> NoSymbol]
    BY <1>1, <1>4 DEF Cited, Fuzzy
  <2> QED BY <1>4, <2>1, <2>2
<1>6. ASSUME NEW f, f = [i \in 1 .. k |-> f[i]] PROVE f = <<>> <=> k = 0
  <2>1. f \in Seq({f[i] : i \in 1 .. k}) /\ Len(f) = k
    BY <1>6
  <2> QED BY <2>1
<1>7. DOMAIN e = 1 .. k /\ m = [i \in 1 .. k |-> m[i]]
  BY <1>2, <1>4
<1>8. m = <<>> <=> e = <<>>
  BY <1>2, <1>6, <1>7
<1> QED BY <1>4, <1>5, <1>8 DEF e

\* A citation is resolved to the symbol of its place, or to none.
LEMMA Resolves ==
  ASSUME NEW reply \in Replies, NEW reader, NEW seen \in Claims, NEW hashes \in BOOLEAN,
         NEW m, m = Resolve(Entries(reply), reader, seen, hashes),
         NEW i \in DOMAIN m, ~ m[i].fuzzy
  PROVE  /\ m[i].place \in Places
         /\ m[i].was \in {NoSymbol,
                 IF hashes THEN seen[m[i].place]
                 ELSE [NoSymbol EXCEPT !.id = seen[m[i].place].id]}
<1> DEFINE e == Entries(reply)
           Was(p) == IF hashes THEN seen[p] ELSE [NoSymbol EXCEPT !.id = seen[p].id]
<1>1. \A j \in DOMAIN e : \/ \E r \in Repos : e[j] = Fuzzy(r)
                          \/ \E p \in Places : e[j] = Cited(p, NoSymbol)
  BY EntriesNamed
<1>2. m = Resolve(e, reader, seen, hashes)
  OBVIOUS
<1> HIDE DEF e
<1>3. /\ i \in DOMAIN e
      /\ m[i] = IF e[i].fuzzy \/ reader # "up" THEN e[i]
                ELSE [e[i] EXCEPT !.was = Was(e[i].place)]
  BY <1>2 DEF Resolve
<1>4. PICK p \in Places : e[i] = Cited(p, NoSymbol)
  <2>1. ASSUME NEW r, e[i] = Fuzzy(r) PROVE FALSE
    <3>1. e[i].fuzzy = TRUE
      BY <2>1 DEF Fuzzy
    <3> QED BY <1>3, <3>1
  <2> QED BY <1>1, <1>3, <2>1
<1>5. e[i] = [fuzzy |-> FALSE, place |-> p, was |-> NoSymbol]
  BY <1>4 DEF Cited
<1>6. ~ e[i].fuzzy /\ e[i].place = p
  BY <1>5
<1>7. m[i] = e[i] \/ m[i] = [e[i] EXCEPT !.was = Was(p)]
  <2> HIDE DEF Was
  <2> QED BY <1>3, <1>6
<1>8. m[i].place = p /\ m[i].was \in {NoSymbol, Was(p)}
  <2> HIDE DEF Was
  <2> QED BY <1>5, <1>7
<1> QED BY <1>8

\* Every answer cites what its reply names.
LEMMA CitationsFollow == TypeOK => CitationsKept
<1> DEFINE Follows(reply, manifest) ==
             LET read == reply.link /\ reply.read
                 named == reply.prose \cup
                            (IF read THEN reply.markdown \cup ToSet(reply.sources) ELSE {})
             IN /\ manifest = <<>> =>
                     /\ reply.prose = {}
                     /\ read => reply.markdown = {} /\ ToSet(reply.sources) \subseteq {"malformed"}
                /\ \A i \in DOMAIN manifest : manifest[i].place \in named \ {"malformed"}
<1> SUFFICES ASSUME TypeOK, NEW n \in 1 .. runs
             PROVE  Follows(answers[n].reply, answers[n].manifest)
  BY DEF CitationsKept
<1>1. answers[n] \in Answered
  BY DEF TypeOK, runs
<1>2. PICK reply \in Replies, reader \in {"none", "up", "down"}, seen \in Claims,
           hashes \in BOOLEAN :
        answers[n] = [manifest |-> Resolve(Entries(reply), reader, seen, hashes),
                      seen |-> seen, reply |-> reply]
  BY <1>1 DEF Answered
<1>3. Follows(reply, Resolve(Entries(reply), reader, seen, hashes))
  <2> DEFINE m == Resolve(Entries(reply), reader, seen, hashes)
  <2>1. Follows(reply, Entries(reply))
    BY EntriesNamed
  <2>2. m = Resolve(Entries(reply), reader, seen, hashes)
    OBVIOUS
  <2> HIDE DEF m
  <2>3. /\ DOMAIN m = DOMAIN Entries(reply)
        /\ m = <<>> <=> Entries(reply) = <<>>
        /\ \A i \in DOMAIN m : m[i].place = Entries(reply)[i].place
    BY <2>2, CitesSame
  <2>4. Follows(reply, m)
    BY <2>1, <2>3
  <2> QED BY <2>4 DEF m
<1> HIDE DEF Follows
<1> QED BY <1>2, <1>3

-----------------------------------------------------------------------------
\* What the detector reports

Graver(f, g) == \/ SeverityRank[f[1]] < SeverityRank[g[1]]
                \/ f[1] = g[1] /\ f[3] < g[3]

\* Findings in the order the detector reports them.
InOrder(found) == CHOOSE q \in SetToSeqs(found) :
                    \A j, k \in DOMAIN q : j < k => Graver(q[j], q[k])

\* Findings of different entries can be put in order of severity.
LEMMA FindingsOrdered ==
  ASSUME NEW n \in Nat, NEW found,
         \A f \in found : f[1] \in {"orphaned", "hot", "warm", "cold"} /\ f[3] \in 0 .. n,
         \A f, g \in found : f[3] = g[3] => f = g,
         NEW s, s = InOrder(found)
  PROVE  /\ ToSet(s) = found
         /\ \A j, k \in DOMAIN s : j < k => Graver(s[j], s[k])
<1> DEFINE key == [f \in found |->
                     IF f[1] = "orphaned" THEN f[3]
                     ELSE IF f[1] = "hot" THEN f[3] + n + 1
                     ELSE IF f[1] = "warm" THEN f[3] + n + n + 2
                     ELSE f[3] + n + n + n + 3]
<1>1. IsFiniteSet(found)
  <2> DEFINE index == [f \in found |-> f[3]]
  <2>1. index \in Injection(found, 0 .. n)
    BY DEF Injection, IsInjective
  <2>2. IsFiniteSet(0 .. n)
    <3>1. 0 \in Int /\ n \in Int
      OBVIOUS
    <3> QED BY <3>1, FS_Interval
  <2> QED BY <2>1, <2>2, FS_Injection
<1>2. key \in [found -> Nat]
  OBVIOUS
<1>3. ASSUME NEW f \in found, NEW g \in found, f # g, key[f] <= key[g]
      PROVE  Graver(f, g)
  <2>1. f[3] # g[3] /\ f[3] \in 0 .. n /\ g[3] \in 0 .. n
    BY <1>3
  <2>2. CASE f[1] = g[1]
    <3>1. f[3] <= g[3]
      BY <1>3, <2>1, <2>2
    <3> QED BY <2>1, <2>2, <3>1 DEF Graver
  <2>3. CASE f[1] # g[1]
    <3>1. SeverityRank[f[1]] < SeverityRank[g[1]]
      BY <1>3, <2>1, <2>3 DEF SeverityRank
    <3> QED BY <3>1 DEF Graver
  <2> QED BY <2>2, <2>3
<1> HIDE DEF key
<1>4. PICK q \in SetToSeqs(found) :
        \A j, k \in DOMAIN q : j < k => key[q[j]] <= key[q[k]]
  BY <1>1, <1>2, Sortable
<1> DEFINE m == Cardinality(found)
<1>5. m \in Nat /\ Cardinality(1 .. m) = m
  <2>1. m \in Nat
    BY <1>1, FS_CardinalityType
  <2> HIDE DEF m
  <2>2. 1 \in Int /\ m \in Int /\ (1 > m => m = 0)
    BY <2>1
  <2>3. Cardinality(1 .. m) = IF 1 > m THEN 0 ELSE m - 1 + 1
    BY <2>2, FS_Interval
  <2> QED BY <2>1, <2>2, <2>3
<1>6. ASSUME NEW r \in SetToSeqs(found)
      PROVE  /\ DOMAIN r = 1 .. m /\ ToSet(r) = found
             /\ \A j, k \in 1 .. m : j # k => r[j] # r[k] /\ r[j] \in found
  <2>1. r \in [1 .. m -> found] /\ \A j, k \in 1 .. m : j # k => r[j] # r[k]
    BY DEF SetToSeqs
  <2>2. r \in Injection(1 .. m, found)
    BY <2>1 DEF Injection, IsInjective
  <2>3. r \in Surjection(1 .. m, found)
    BY <1>1, <1>5, <2>2, FS_Injection
  <2>4. ToSet(r) = found
    BY <2>1, <2>3 DEF Surjection, ToSet
  <2> QED BY <2>1, <2>4
<1>7. \A j, k \in DOMAIN q : j < k => Graver(q[j], q[k])
  <2> SUFFICES ASSUME NEW j \in DOMAIN q, NEW k \in DOMAIN q, j < k
               PROVE  Graver(q[j], q[k])
    OBVIOUS
  <2>0. DOMAIN q = 1 .. m
    BY <1>6
  <2>1. j \in 1 .. m /\ k \in 1 .. m /\ j # k
    BY <1>5, <2>0
  <2>2. q[j] \in found /\ q[k] \in found /\ q[j] # q[k]
    BY <1>6, <2>1
  <2> QED BY <1>3, <1>4, <2>2
<1>8. s \in SetToSeqs(found) /\ \A j, k \in DOMAIN s : j < k => Graver(s[j], s[k])
  BY <1>7 DEF InOrder
<1> QED BY <1>6, <1>8

\* An entry has at most one finding, of a severity other than that of the age.
LEMMA OneFinding ==
  ASSUME NEW entry, NEW cl
  PROVE  \/ ClassifyEntry(entry, cl) = {}
         \/ \E v \in {"orphaned", "hot", "warm"} :
              \E w : ClassifyEntry(entry, cl) = {<<v, w>>}
<1>1. \A was, now : \/ ClassifyBySymbolID(was, now) = {}
                    \/ \E v \in {"orphaned", "hot", "warm"} :
                         \E w : ClassifyBySymbolID(was, now) = {<<v, w>>}
  BY DEF ClassifyBySymbolID
<1>2. \/ ClassifyMissingSymbol(entry, cl) = {<<"orphaned", "renamed">>}
      \/ ClassifyMissingSymbol(entry, cl) = {<<"orphaned", "deleted">>}
  BY DEF ClassifyMissingSymbol
<1>3. \/ ClassifyByLocation(entry, cl) = {}
      \/ ClassifyByLocation(entry, cl) = {<<"orphaned", "deleted">>}
  BY DEF ClassifyByLocation
<1>4. \/ ClassifyEntry(entry, cl) \in {{}, ClassifyByLocation(entry, cl),
                                      ClassifyMissingSymbol(entry, cl)}
      \/ \E now : ClassifyEntry(entry, cl) = ClassifyBySymbolID(entry.was, now)
  BY DEF ClassifyEntry
<1> DEFINE Single(c) == c = {} \/ \E v \in {"orphaned", "hot", "warm"} : \E w : c = {<<v, w>>}
<1>5. \A was, now : Single(ClassifyBySymbolID(was, now))
  BY <1>1
<1>6. /\ Single(ClassifyMissingSymbol(entry, cl)) /\ Single(ClassifyByLocation(entry, cl))
      /\ Single({})
  BY <1>2, <1>3
<1> HIDE DEF Single
<1>7. Single(ClassifyEntry(entry, cl))
  BY <1>4, <1>5, <1>6
<1> QED BY <1>7 DEF Single

\* The severities among findings, and among those of an entry.
SeveritiesOf(c) == {f[1] : f \in c}
SeveritiesAt(s, i) == SeveritiesOf({g \in ToSet(s) : g[3] = i})

\* The findings of the n entries of a manifest: each under its index, and all in
\* order of severity.
Reports(d, manifest, n, cl) ==
  /\ d.failed = FALSE
  /\ \A i \in 1 .. n :
       SeveritiesAt(d.findings, i) = SeveritiesOf(ClassifyEntry(manifest[i], cl))
  /\ \A j, k \in DOMAIN d.findings :
       j < k /\ d.findings[k][1] = "orphaned" => d.findings[j][1] = "orphaned"

\* So does the detector with a reader that is up.
LEMMA Detects ==
  ASSUME NEW n \in Nat, NEW manifest, DOMAIN manifest = 1 .. n, NEW cl, NEW days, NEW maxAge,
         NEW d, d = Detect(manifest, "up", cl, days, maxAge)
  PROVE  Reports(d, manifest, n, cl)
<1> DEFINE ofEntries == UNION {{<<f[1], f[2], i>> : f \in ClassifyEntry(manifest[i], cl)}
                               : i \in DOMAIN manifest}
           ofAge == {<<f[1], f[2], 0>> : f \in ClassifyAge(days, maxAge)}
           found == ofEntries \cup ofAge
           s == InOrder(found)
<1>1. d.failed = FALSE /\ d.findings = s
  <2>1. d = [failed |-> FALSE, findings |-> s]
    BY DEF Detect, Graver, InOrder
  <2> HIDE DEF s
  <2> QED BY <2>1
<1>2. ASSUME NEW f \in ofEntries
      PROVE  /\ f[3] \in 1 .. n /\ f[1] \in {"orphaned", "hot", "warm"}
             /\ \E v \in ClassifyEntry(manifest[f[3]], cl) :
                  /\ f = <<v[1], v[2], f[3]>>
                  /\ ClassifyEntry(manifest[f[3]], cl) = {v}
  <2>1. PICK i \in 1 .. n : \E v \in ClassifyEntry(manifest[i], cl) : f = <<v[1], v[2], i>>
    BY <1>2
  <2>2. PICK v \in ClassifyEntry(manifest[i], cl) : f = <<v[1], v[2], i>>
    BY <2>1
  <2>3. f[3] = i /\ f[1] = v[1]
    BY <2>2
  <2>4. v[1] \in {"orphaned", "hot", "warm"} /\ ClassifyEntry(manifest[i], cl) = {v}
    BY OneFinding
  <2> QED BY <2>2, <2>3, <2>4
<1>3. ASSUME NEW f \in ofAge
      PROVE  f = <<"cold", "age", 0>> /\ f[3] = 0 /\ f[1] = "cold"
  BY <1>3 DEF ClassifyAge
<1>4. ASSUME NEW i \in 1 .. n, NEW v \in ClassifyEntry(manifest[i], cl)
      PROVE  <<v[1], v[2], i>> \in ofEntries
  BY <1>4
<1> HIDE DEF ofEntries, ofAge
<1>5. \A f \in found : f[1] \in {"orphaned", "hot", "warm", "cold"} /\ f[3] \in 0 .. n
  BY <1>2, <1>3
<1>6. \A f, g \in found : f[3] = g[3] => f = g
  <2> SUFFICES ASSUME NEW f \in found, NEW g \in found, f[3] = g[3] PROVE f = g
    OBVIOUS
  <2>1. CASE f \in ofEntries /\ g \in ofEntries
    <3>1. PICK v : f = <<v[1], v[2], f[3]>> /\ ClassifyEntry(manifest[f[3]], cl) = {v}
      BY <1>2, <2>1
    <3>2. PICK w : g = <<w[1], w[2], g[3]>> /\ ClassifyEntry(manifest[g[3]], cl) = {w}
      BY <1>2, <2>1
    <3>3. v = w
      BY <3>1, <3>2
    <3> QED BY <3>1, <3>2, <3>3
  <2>2. CASE f \in ofAge /\ g \in ofAge
    BY <1>3, <2>2
  <2>3. f[3] \in 1 .. n /\ g[3] = 0 => FALSE
    OBVIOUS
  <2>4. g[3] \in 1 .. n /\ f[3] = 0 => FALSE
    OBVIOUS
  <2> QED BY <1>2, <1>3, <2>1, <2>2, <2>3, <2>4
<1> HIDE DEF found
<1>7. /\ ToSet(s) = found
      /\ \A j, k \in DOMAIN s : j < k => Graver(s[j], s[k])
  BY <1>5, <1>6, FindingsOrdered
<1> HIDE DEF s
<1>8. ASSUME NEW i \in 1 .. n
      PROVE  {f[1] : f \in {g \in found : g[3] = i}}
               = {f[1] : f \in ClassifyEntry(manifest[i], cl)}
  <2>1. ASSUME NEW f \in found, f[3] = i
        PROVE  f[1] \in {h[1] : h \in ClassifyEntry(manifest[i], cl)}
    <3>1. f \in ofEntries
      BY <1>3, <2>1 DEF found
    <3>2. PICK v \in ClassifyEntry(manifest[i], cl) : f = <<v[1], v[2], f[3]>>
      BY <1>2, <2>1, <3>1
    <3>3. f[1] = v[1]
      BY <3>2
    <3> QED BY <3>3
  <2>2. ASSUME NEW v \in ClassifyEntry(manifest[i], cl)
        PROVE  v[1] \in {f[1] : f \in {g \in found : g[3] = i}}
    <3> DEFINE f == <<v[1], v[2], i>>
    <3>1. f \in found /\ f[3] = i /\ f[1] = v[1]
      BY <1>4 DEF found
    <3> QED BY <3>1
  <2> QED BY <2>1, <2>2
<1>9. ASSUME NEW j \in DOMAIN s, NEW k \in DOMAIN s, j < k, s[k][1] = "orphaned"
      PROVE  s[j][1] = "orphaned"
  <2>1. s[j] \in found /\ Graver(s[j], s[k])
    BY <1>7, <1>9 DEF ToSet
  <2>2. s[j][1] \in {"orphaned", "hot", "warm", "cold"}
    BY <1>5, <2>1
  <2> QED BY <1>9, <2>1, <2>2 DEF Graver, SeverityRank
<1>10. \A i \in 1 .. n : SeveritiesAt(s, i) = SeveritiesOf(ClassifyEntry(manifest[i], cl))
  BY <1>7, <1>8 DEF SeveritiesAt, SeveritiesOf
<1> QED BY <1>1, <1>9, <1>10 DEF Reports

-----------------------------------------------------------------------------
\* What became of the cited symbols

\* No symbol is at two places.
Distinct(cl) ==
  \A p, q \in Places : cl[p].id = cl[q].id /\ cl[p].id # 0 => p = q

\* IDs are minted in order.
Numbered == \A p \in Places : claims[p].id <= Cardinality(Places) + edits

\* The manifest of an answer is that of its reply, resolved in the claims it saw.
Resolved(a, hashes) ==
  /\ Distinct(a.seen)
  /\ \E reader \in {"none", "up", "down"} :
       a.manifest = Resolve(Entries(a.reply), reader, a.seen, hashes)

\* A row and a call that is to be saved have an answer that was given.
Given ==
  /\ \A d \in Docs : Stored(d) => row[d].answer \in 1 .. runs
  /\ \A c \in Clients : call[c].at = "save" => call[c].answer \in 1 .. runs

Traced ==
  /\ Distinct(claims) /\ Numbered /\ Given
  /\ \A n \in 1 .. runs : Resolved(answers[n], site.hashes)

\* A symbol of the claims, where symbols are distinct.
LEMMA SymbolThere ==
  ASSUME NEW cl \in Claims, NEW p \in Places, Distinct(cl), cl[p].id # 0
  PROVE  SymbolOf(cl, cl[p].id) = cl[p]
<1>1. DOMAIN cl = Places
  BY DEF Claims
<1> DEFINE at == {q \in Places : cl[q].id = cl[p].id}
<1>2. at = {p}
  BY DEF Distinct
<1>3. (CHOOSE q \in at : TRUE) = p /\ at # {}
  BY <1>2
<1> QED BY <1>1, <1>3 DEF SymbolOf

\* A symbol that is found has the ID asked for.
LEMMA SymbolFound ==
  ASSUME NEW cl \in Claims, NEW id, id # 0
  PROVE  \/ SymbolOf(cl, id) = NoSymbol
         \/ SymbolOf(cl, id) \in Symbols /\ SymbolOf(cl, id).id = id
            /\ SymbolOf(cl, id) # NoSymbol
<1> DEFINE at == {q \in DOMAIN cl : cl[q].id = id}
           q == CHOOSE x \in at : TRUE
<1>1. DOMAIN cl = Places
  BY DEF Claims
<1>2. CASE at = {}
  BY <1>2 DEF SymbolOf
<1>3. CASE at # {}
  <2>1. q \in at
    BY <1>3
  <2>2. SymbolOf(cl, id) = cl[q]
    BY <1>3 DEF SymbolOf
  <2> HIDE DEF q
  <2>3. cl[q] \in Symbols \cup {NoSymbol} /\ cl[q].id = id
    BY <1>1, <2>1 DEF Claims
  <2>4. NoSymbol.id = 0
    BY DEF NoSymbol
  <2> QED BY <2>2, <2>3, <2>4
<1> QED BY <1>2, <1>3

\* The verdict on a citation: what its severities must be, from the symbol it was
\* resolved to and what that symbol is now.
Verdict(severities, hashes, then, now) ==
  severities = IF now = NoSymbol THEN {"orphaned"}
               ELSE IF ~ hashes \/ now = then THEN {}
               ELSE IF now.sig # then.sig THEN {"hot"} ELSE {"warm"}

\* A citation that was resolved is judged so.
LEMMA Judges ==
  ASSUME NEW reply \in Replies, NEW reader, NEW seen \in Claims, NEW hashes \in BOOLEAN,
         Distinct(seen), NEW cl \in Claims,
         NEW m, m = Resolve(Entries(reply), reader, seen, hashes),
         NEW i \in DOMAIN m, ~ m[i].fuzzy, NEW id, id = m[i].was.id, id # 0,
         NEW then, then = SymbolOf(seen, id), NEW now, now = SymbolOf(cl, id)
  PROVE  Verdict(SeveritiesOf(ClassifyEntry(m[i], cl)), hashes, then, now)
<1> DEFINE p == m[i].place
           was == m[i].was
<1>1. p \in Places /\ was \in {NoSymbol, IF hashes THEN seen[p]
                                         ELSE [NoSymbol EXCEPT !.id = seen[p].id]}
  BY Resolves
<1>2. ClassifyEntry(m[i], cl) = IF now = NoSymbol THEN ClassifyMissingSymbol(m[i], cl)
                                ELSE ClassifyBySymbolID(was, now)
  BY DEF ClassifyEntry
<1>0. SeveritiesOf({}) = {} /\ \A v, w : SeveritiesOf({<<v, w>>}) = {v}
  BY DEF SeveritiesOf
<1>3. CASE now = NoSymbol
  <2>1. \/ ClassifyEntry(m[i], cl) = {<<"orphaned", "renamed">>}
        \/ ClassifyEntry(m[i], cl) = {<<"orphaned", "deleted">>}
    BY <1>2, <1>3 DEF ClassifyMissingSymbol
  <2> QED BY <1>0, <1>3, <2>1 DEF Verdict
<1> HIDE DEF p
<1>4. seen[p] \in Symbols \cup {NoSymbol}
  BY <1>1 DEF Claims
<1>5. was = IF hashes THEN seen[p] ELSE [NoSymbol EXCEPT !.id = seen[p].id]
  BY <1>1 DEF NoSymbol
<1>6. id = was.id /\ id # 0
  OBVIOUS
<1> HIDE DEF was
<1>7. seen[p].id = id /\ was.sig = (IF hashes THEN seen[p].sig ELSE 0)
      /\ was.body = (IF hashes THEN seen[p].body ELSE 0)
  BY <1>5, <1>6 DEF NoSymbol
<1>8. then = seen[p] /\ seen[p] \in Symbols
  BY <1>1, <1>4, <1>6, <1>7, SymbolThere DEF NoSymbol
<1>9. now # NoSymbol => now \in Symbols /\ now.id = id
  BY <1>6, SymbolFound
<1>10. ASSUME now # NoSymbol
       PROVE  /\ now.sig # 0 /\ now.body # 0 /\ then.sig # 0 /\ then.body # 0
              /\ now.sig = then.sig /\ now.body = then.body => now = then
  <2>1. now \in Symbols /\ then \in Symbols /\ now.id = id /\ then.id = id
    BY <1>7, <1>8, <1>9, <1>10
  <2>2. ASSUME NEW s \in Symbols
        PROVE  /\ s.sig # 0 /\ s.body # 0
               /\ s = [id |-> s.id, sig |-> s.sig, body |-> s.body]
    BY DEF Symbols
  <2>3. /\ now.sig # 0 /\ now.body # 0 /\ then.sig # 0 /\ then.body # 0
        /\ now = [id |-> id, sig |-> now.sig, body |-> now.body]
        /\ then = [id |-> id, sig |-> then.sig, body |-> then.body]
    BY <2>1, <2>2
  <2> QED BY <2>3
<1>11. CASE now # NoSymbol /\ ~ hashes
  <2>1. was.sig = 0 /\ was.body = 0
    BY <1>7, <1>11
  <2>2. ~ Moved(was.sig, now.sig) /\ ~ Moved(was.body, now.body)
    BY <2>1 DEF Moved
  <2>3. ClassifyEntry(m[i], cl) = {}
    BY <1>2, <1>11, <2>2 DEF ClassifyBySymbolID
  <2> QED BY <1>0, <1>11, <2>3 DEF Verdict
<1>12. CASE now # NoSymbol /\ hashes
  <2>1. was.sig = then.sig /\ was.body = then.body
    BY <1>7, <1>8, <1>12
  <2>2. /\ Moved(was.sig, now.sig) <=> now.sig # then.sig
        /\ Moved(was.body, now.body) <=> now.body # then.body
    <3>1. /\ now.sig # 0 /\ now.body # 0 /\ then.sig # 0 /\ then.body # 0
      BY <1>10, <1>12
    <3> QED BY <2>1, <3>1 DEF Moved
  <2>3. CASE now.sig # then.sig
    <3>1. ClassifyEntry(m[i], cl) = {<<"hot", "signature">>}
      BY <1>2, <1>12, <2>2, <2>3 DEF ClassifyBySymbolID
    <3>2. now # then
      BY <2>3
    <3> QED BY <1>0, <1>12, <2>3, <3>1, <3>2 DEF Verdict
  <2>4. CASE now.sig = then.sig /\ now.body # then.body
    <3>1. ClassifyEntry(m[i], cl) = {<<"warm", "body">>}
      BY <1>2, <1>12, <2>2, <2>4 DEF ClassifyBySymbolID
    <3>2. now # then
      BY <2>4
    <3> QED BY ZenonT(80), <1>0, <1>12, <2>4, <3>1, <3>2 DEF Verdict
  <2>5. CASE now.sig = then.sig /\ now.body = then.body
    <3>1. ClassifyEntry(m[i], cl) = {}
      BY <1>2, <1>12, <2>2, <2>5 DEF ClassifyBySymbolID
    <3>2. now = then
      BY <1>10, <1>12, <2>5
    <3> QED BY <1>0, <1>12, <3>1, <3>2 DEF Verdict
  <2> QED BY <2>3, <2>4, <2>5
<1> QED BY <1>3, <1>11, <1>12

LEMMA AllJudged == Kept /\ Traced => DriftJudged
<1> SUFFICES ASSUME Kept, Traced, NEW d \in Docs, Stored(d), site.reader = "up"
             PROVE  LET answer == answers[row[d].answer]
                        status == Status(d, "up")
                        Severities(i) == {f[1] : f \in {g \in ToSet(status.findings) : g[3] = i}}
                        Symbol(i) == answer.manifest[i].was.id
                        Then(i) == SymbolOf(answer.seen, Symbol(i))
                        Now(i) == SymbolOf(claims, Symbol(i))
                    IN /\ ~status.failed
                       /\ \A i \in DOMAIN answer.manifest :
                            ~answer.manifest[i].fuzzy /\ Symbol(i) # 0 =>
                              Severities(i) =
                                IF Now(i) = NoSymbol THEN {"orphaned"}
                                ELSE IF ~site.hashes \/ Now(i) = Then(i) THEN {}
                                ELSE IF Now(i).sig # Then(i).sig THEN {"hot"} ELSE {"warm"}
                       /\ \A j, k \in DOMAIN status.findings :
                            j < k /\ status.findings[k][1] = "orphaned" =>
                              status.findings[j][1] = "orphaned"
  BY DEF DriftJudged
<1> DEFINE answer == answers[row[d].answer]
           status == Status(d, "up")
           m == answer.manifest
<1>1. row[d].answer \in 1 .. runs
  BY DEF Traced, Given
<1>2. answer \in Answered /\ Resolved(answer, site.hashes)
  BY <1>1 DEF Kept, TypeOK, Traced, runs
<1>3. status = Detect(m, "up", claims, age[d], MaxAge)
  BY DEF Status
<1> HIDE DEF answer, status
<1>4. answer.reply \in Replies /\ answer.seen \in Claims
  BY <1>2 DEF Answered
<1>5. PICK reader \in {"none", "up", "down"} :
        m = Resolve(Entries(answer.reply), reader, answer.seen, site.hashes)
  BY <1>2 DEF Resolved
<1>6. Distinct(answer.seen) /\ site.hashes \in BOOLEAN /\ claims \in Claims
  BY <1>2, SiteFields DEF Resolved, Kept, TypeOK
<1> HIDE DEF m
<1>7. PICK n \in Nat : DOMAIN m = 1 .. n
  <2>1. PICK n \in Nat : Entries(answer.reply) = [i \in 1 .. n |-> Entries(answer.reply)[i]]
    BY <1>4, EntriesNamed
  <2>2. DOMAIN Entries(answer.reply) = 1 .. n
    BY <2>1
  <2> QED BY <1>4, <1>5, <2>2, CitesSame
<1>8. Reports(status, m, n, claims)
  BY <1>3, <1>7, Detects
<1>9. ASSUME NEW i \in 1 .. n, ~ m[i].fuzzy, m[i].was.id # 0
      PROVE  LET now == SymbolOf(claims, m[i].was.id)
                 then == SymbolOf(answer.seen, m[i].was.id)
             IN SeveritiesAt(status.findings, i) =
                  IF now = NoSymbol THEN {"orphaned"}
                  ELSE IF ~site.hashes \/ now = then THEN {}
                  ELSE IF now.sig # then.sig THEN {"hot"} ELSE {"warm"}
  <2> DEFINE now == SymbolOf(claims, m[i].was.id)
             then == SymbolOf(answer.seen, m[i].was.id)
  <2>1. SeveritiesAt(status.findings, i) = SeveritiesOf(ClassifyEntry(m[i], claims))
    BY <1>8, <1>9 DEF Reports
  <2>2. Verdict(SeveritiesOf(ClassifyEntry(m[i], claims)), site.hashes, then, now)
    BY <1>4, <1>5, <1>6, <1>7, <1>9, Judges
  <2> QED BY <2>1, <2>2 DEF Verdict
<1> QED BY <1>7, <1>8, <1>9 DEF answer, status, m, Reports, SeveritiesAt, SeveritiesOf

LEMMA InitTraced == Init => Traced
<1> SUFFICES ASSUME Init PROVE Traced
  OBVIOUS
<1> DEFINE n == Cardinality(Places)
<1>1. n \in Nat /\ ExistsBijection(Places, 1 .. n)
  BY EvergreenAssumption, FS_CardinalityType, Fun_ExistsBijSymmetric
<1>2. FirstId \in Injection(Places, 1 .. n)
  <2>1. Injection(Places, 1 .. n) # {}
    BY <1>1 DEF ExistsBijection, Bijection
  <2> QED BY <2>1 DEF FirstId
<1> HIDE DEF n
<1>3. ASSUME NEW p \in Places
      PROVE  claims[p].id = FirstId[p] /\ FirstId[p] \in 1 .. n
  BY <1>2 DEF Init, Injection
<1>4. Distinct(claims)
  BY <1>2, <1>3 DEF Distinct, Injection, IsInjective
<1>5. Numbered
  BY <1>1, <1>3 DEF Numbered, Init, n
<1>6. runs = 0 /\ Given
  BY DEF Init, runs, Given, Stored, NoCall
<1> QED BY <1>4, <1>5, <1>6 DEF Traced

\* An extraction gives no symbol to two places.
LEMMA ExtractDistinct ==
  ASSUME Kept, Distinct(claims), Numbered, NEW p \in Places, Extract(p)
  PROVE  Distinct(claims') /\ Numbered'
<1> DEFINE n == Cardinality(Places)
           last == n + edits
<1>1. n \in Nat /\ edits \in Nat /\ edits' = edits + 1
  <2>1. n \in Nat
    BY EvergreenAssumption, FS_CardinalityType
  <2>2. edits \in Nat /\ edits' = edits + 1
    BY EvergreenAssumption DEF Kept, TypeOK, Extract
  <2> QED BY <2>1, <2>2
<1>2. claims \in [Places -> Symbols \cup {NoSymbol}]
  BY DEF Kept, TypeOK, Claims
<1>3. \A q \in Places : claims[q].id \in Nat /\ claims[q].id <= last
  BY <1>1, <1>2 DEF Numbered, Symbols, NoSymbol, EvergreenAssumption
<1>4. NoSymbol.id = 0
  BY DEF NoSymbol
<1> HIDE DEF n
<1>5. ASSUME \A q \in Places : claims'[q].id \in Nat /\ claims'[q].id <= last + 1
      PROVE  Numbered'
  BY <1>1, <1>5 DEF Numbered, n
<1>6. CASE claims' = [claims EXCEPT ![p] = NoSymbol]
  <2>1. \A q \in Places : claims'[q].id = IF q = p THEN 0 ELSE claims[q].id
    BY <1>2, <1>4, <1>6
  <2> QED BY <1>1, <1>3, <1>5, <2>1 DEF Distinct
<1>7. CASE claims' = [claims EXCEPT ![p] = [id |-> n + edits + 1, sig |-> 1, body |-> 1]]
  <2>1. \A q \in Places : claims'[q].id = IF q = p THEN last + 1 ELSE claims[q].id
    BY <1>2, <1>7
  <2> QED BY <1>1, <1>3, <1>5, <2>1 DEF Distinct
<1>8. ASSUME NEW q \in Places, claims[q] = NoSymbol,
             claims' = [claims EXCEPT ![q] = claims[p], ![p] = NoSymbol]
      PROVE  Distinct(claims') /\ Numbered'
  <2>1. \A x \in Places : claims'[x].id = IF x = p THEN 0
                                          ELSE IF x = q THEN claims[p].id ELSE claims[x].id
    BY <1>2, <1>4, <1>8
  <2> QED BY <1>1, <1>3, <1>5, <2>1 DEF Distinct
<1>9. ASSUME claims[p] # NoSymbol, NEW sig \in 1 .. 2, NEW body \in 1 .. 2,
             claims' = [claims EXCEPT ![p].sig = sig, ![p].body = body]
      PROVE  Distinct(claims') /\ Numbered'
  <2>1. claims[p] \in Symbols
    BY <1>2, <1>9
  <2>2. claims' = [claims EXCEPT ![p] = [claims[p] EXCEPT !.sig = sig, !.body = body]]
    BY <1>2, <1>9
  <2>3. [claims[p] EXCEPT !.sig = sig, !.body = body].id = claims[p].id
    BY <2>1 DEF Symbols
  <2>4. \A x \in Places : claims'[x].id = claims[x].id
    BY <1>2, <2>2, <2>3
  <2> QED BY <1>1, <1>3, <1>5, <2>4 DEF Distinct
<1> QED BY <1>6, <1>7, <1>8, <1>9 DEF Extract, n

\* What is answered is resolved in the claims of the moment.
LEMMA AnswerTraced ==
  ASSUME Kept, Traced, NEW reply \in site.replies, Answers(reply), UNCHANGED <<claims, edits, site>>
  PROVE  /\ Distinct(claims') /\ Numbered'
         /\ \A n \in 1 .. runs' : Resolved(answers'[n], site'.hashes)
<1>1. PICK reader \in {"none", "up", "down"} :
        answers' = Append(answers,
          [manifest |-> Resolve(Entries(reply), reader, claims, site.hashes),
           seen |-> claims, reply |-> reply])
  BY SiteFields DEF Answers, Kept, TypeOK
<1> DEFINE a == [manifest |-> Resolve(Entries(reply), reader, claims, site.hashes),
                 seen |-> claims, reply |-> reply]
<1>2. Resolved(a, site.hashes)
  BY DEF Traced, Resolved
<1> HIDE DEF a
<1>3. answers' = Append(answers, a)
  BY <1>1 DEF a
<1>4. answers \in Seq(Answered) /\ Len(answers) \in Nat
  BY DEF Kept, TypeOK
<1>5. /\ runs' = runs + 1 /\ answers'[runs + 1] = a
      /\ \A n \in 1 .. runs : answers'[n] = answers[n]
  BY <1>3, <1>4 DEF runs
<1>6. \A n \in 1 .. runs' : n = runs + 1 \/ n \in 1 .. runs
  BY <1>4, <1>5 DEF runs
<1>7. \A n \in 1 .. runs' : Resolved(answers'[n], site.hashes)
  BY <1>2, <1>5, <1>6 DEF Traced
<1> QED BY <1>7 DEF Traced, Numbered

\* A step that answers nothing and leaves the claims alone.
LEMMA StillTraced ==
  ASSUME Traced, UNCHANGED <<answers, claims, edits, site>>, Given'
  PROVE  Traced'
BY DEF Traced, Numbered, runs

LEMMA RowsGiven ==
  ASSUME Kept, Given, UNCHANGED <<call, answers>>,
         NEW d \in Docs, NEW r, row' = [row EXCEPT ![d] = r],
         r = NoRow \/ r.answer \in 1 .. runs
  PROVE  Given'
BY DEF Given, Stored, runs, Kept, TypeOK

LEMMA CallGiven ==
  ASSUME Given, UNCHANGED <<row, answers>>, NEW c \in Clients,
         \A b \in Clients \ {c} : call'[b] = call[b],
         call'[c].at # "save"
  PROVE  Given'
BY DEF Given, Stored, runs

LEMMA SaveNewTraced ==
  ASSUME Kept, Traced, NEW d \in Docs, SaveNew(d)
  PROVE  Traced'
<1>1. PICK reply \in site.replies : Answers(reply)
  BY DEF SaveNew
<1>2. UNCHANGED <<call, claims, edits, site>>
  BY DEF SaveNew, limits, code
<1>3. runs' = runs + 1 /\ runs \in Nat
  BY <1>1, AnswerGiven DEF Kept, TypeOK, runs
<1>4. row' = [row EXCEPT ![d] = [answer |-> runs + 1, status |-> "fresh"]]
  BY DEF SaveNew, Save
<1>5. Given'
  <2>1. \A n \in 1 .. runs : n \in 1 .. runs'
    BY <1>3
  <2>2. runs + 1 \in 1 .. runs'
    BY <1>3
  <2>3. ASSUME NEW q \in Docs, row'[q] # NoRow PROVE row'[q].answer \in 1 .. runs'
    <3>1. row'[q] = IF q = d THEN [answer |-> runs + 1, status |-> "fresh"] ELSE row[q]
      BY <1>4 DEF Kept, TypeOK
    <3> QED BY <2>1, <2>2, <2>3, <3>1 DEF Traced, Given, Stored
  <2>4. ASSUME NEW c \in Clients, call'[c].at = "save" PROVE call'[c].answer \in 1 .. runs'
    BY <1>2, <2>1, <2>4 DEF Traced, Given
  <2> QED BY <2>3, <2>4 DEF Given, Stored
<1> QED BY <1>1, <1>2, <1>5, AnswerTraced DEF Traced

LEMMA ExecuteTraced ==
  ASSUME Kept, Traced, NEW c \in Clients, Execute(c)
  PROVE  Traced'
<1>1. PICK reply \in site.replies : Answers(reply)
  BY DEF Execute
<1>2. UNCHANGED <<row, claims, edits, site>>
  BY DEF Execute, limits, code, store
<1>3. runs' = runs + 1 /\ runs \in Nat
  BY <1>1, AnswerGiven DEF Kept, TypeOK, runs
<1>4. call' = [call EXCEPT ![c] = [call[c] EXCEPT !.at = "save", !.answer = runs + 1]]
  BY DEF Execute, Kept, TypeOK
<1>5. Given'
  <2>1. \A n \in 1 .. runs : n \in 1 .. runs'
    BY <1>3
  <2>2. runs + 1 \in 1 .. runs'
    BY <1>3
  <2>3. call[c] \in Calls
    BY CallFields, Somewhere DEF Execute, Kept
  <2>4. call'[c] = [call[c] EXCEPT !.at = "save", !.answer = runs + 1]
    BY <1>4 DEF Kept, TypeOK
  <2>5. call'[c].answer = runs + 1
    BY <2>3, <2>4 DEF Calls
  <2>6. ASSUME NEW b \in Clients, call'[b].at = "save" PROVE call'[b].answer \in 1 .. runs'
    <3>1. b # c => call'[b] = call[b]
      BY <1>4 DEF Kept, TypeOK
    <3> QED BY <2>1, <2>2, <2>5, <2>6, <3>1 DEF Traced, Given
  <2> QED BY <1>2, <2>1, <2>6 DEF Traced, Given, Stored
<1> QED BY <1>1, <1>2, <1>5, AnswerTraced DEF Traced

LEMMA DocTraced ==
  ASSUME Kept, Traced, NEW d \in Docs,
         Delete(d) \/ \E status \in Statuses : UpdateStatus(d, status)
  PROVE  Traced'
<1>1. UNCHANGED <<call, answers, claims, edits, site>>
  BY DEF Delete, UpdateStatus, limits, code
<1>2. CASE Delete(d)
  <2>1. row' = [row EXCEPT ![d] = NoRow]
    BY <1>2 DEF Delete
  <2> QED BY <1>1, <2>1, RowsGiven, StillTraced DEF Traced
<1>3. ASSUME NEW status \in Statuses, UpdateStatus(d, status) PROVE Traced'
  <2> DEFINE r == [row[d] EXCEPT !.status = status]
  <2>1. row' = [row EXCEPT ![d] = r] /\ Stored(d) /\ row[d] \in Rows
    BY <1>3 DEF UpdateStatus, Kept, TypeOK, Stored
  <2>2. r.answer = row[d].answer
    BY <2>1 DEF Rows
  <2>3. r.answer \in 1 .. runs
    BY <2>1, <2>2 DEF Traced, Given
  <2> HIDE DEF r
  <2> QED BY <1>1, <2>1, <2>3, RowsGiven, StillTraced DEF Traced
<1> QED BY <1>2, <1>3

LEMMA CallTraced ==
  ASSUME Kept, Traced, NEW c \in Clients,
         \/ \E d \in Docs, ack \in BOOLEAN : Load(c, d, ack)
         \/ AllowSession(c) \/ AllowDocument(c) \/ ExecuteFails(c) \/ SaveFails(c)
  PROVE  Traced'
<1>1. UNCHANGED <<row, answers, claims, edits, site>>
  BY DEF Load, AllowSession, AllowDocument, ExecuteFails, SaveFails, limits, code, store
<1>2. (\A b \in Clients \ {c} : call'[b] = call[b]) /\ call'[c].at # "save"
  <2>1. CASE Ends(c)
    BY <2>1, EndsOff DEF Kept, NoCall
  <2>2. ASSUME NEW at \in {"document", "executor"}, Goes(c, at),
               call[c].at \in {"session", "document"}
        PROVE  (\A b \in Clients \ {c} : call'[b] = call[b]) /\ call'[c].at # "save"
    <3>1. call[c] \in Calls
      BY <2>2, Somewhere, CallFields DEF Kept
    <3>2. call'[c] = [call[c] EXCEPT !.at = at] /\ \A b \in Clients \ {c} : call'[b] = call[b]
      BY <2>2, GoesOn DEF Kept
    <3>3. call'[c].at = at
      BY <3>1, <3>2 DEF Calls
    <3> QED BY <2>2, <3>2, <3>3
  <2>3. ASSUME NEW d \in Docs, NEW ack \in BOOLEAN, Load(c, d, ack)
        PROVE  (\A b \in Clients \ {c} : call'[b] = call[b]) /\ call'[c].at # "save"
    BY <2>3 DEF Load, Kept, TypeOK
  <2> QED BY <2>1, <2>2, <2>3 DEF AllowSession, AllowDocument, ExecuteFails, SaveFails
<1> QED BY <1>1, <1>2, CallGiven, StillTraced DEF Traced

LEMMA SaveRefreshedTraced ==
  ASSUME Kept, Traced, NEW c \in Clients, SaveRefreshed(c)
  PROVE  Traced'
<1> DEFINE d == call[c].doc
           r == [answer |-> call[c].answer, status |-> "fresh"]
<1>1. d \in Docs /\ r.answer \in 1 .. runs
  BY Somewhere, CallFields DEF SaveRefreshed, Kept, Traced, Given
<1>2. UNCHANGED <<answers, claims, edits, site>>
  BY DEF SaveRefreshed, limits, code
<1>3. row' = [row EXCEPT ![d] = r]
  BY DEF SaveRefreshed, Save
<1>4. call'[c] = NoCall /\ \A b \in Clients \ {c} : call'[b] = call[b]
  BY EndsOff DEF SaveRefreshed, Kept
<1> HIDE DEF d, r
<1>5. Given'
  <2>1. ASSUME NEW q \in Docs, row'[q] # NoRow PROVE row'[q].answer \in 1 .. runs
    <3>1. row'[q] = IF q = d THEN r ELSE row[q]
      BY <1>3 DEF Kept, TypeOK
    <3> QED BY <1>1, <2>1, <3>1 DEF Traced, Given, Stored
  <2>2. ASSUME NEW b \in Clients, call'[b].at = "save" PROVE call'[b].answer \in 1 .. runs
    BY <1>4, <2>2 DEF Traced, Given, NoCall
  <2> QED BY <1>2, <2>1, <2>2 DEF Given, Stored, runs
<1> QED BY <1>2, <1>5, StillTraced

LEMMA NextTraced == Kept /\ Traced /\ [Next]_vars => Traced'
<1> SUFFICES ASSUME Kept, Traced, [Next]_vars PROVE Traced'
  OBVIOUS
<1>1. ASSUME NEW c \in Clients, Refresh(c) PROVE Traced'
  BY <1>1, CallTraced, ExecuteTraced, SaveRefreshedTraced DEF Refresh
<1>2. ASSUME NEW p \in Places, Extract(p) PROVE Traced'
  <2>1. UNCHANGED <<row, call, answers, site>>
    BY <1>2 DEF Extract, limits, store
  <2> QED BY <1>2, <2>1, ExtractDistinct DEF Traced, Given, Stored, runs
<1>3. CASE RefillDocs \/ RefillSessions \/ Day \/ UNCHANGED vars
  <2>1. UNCHANGED <<row, call, answers, claims, edits, site>>
    BY <1>3 DEF RefillDocs, RefillSessions, Day, vars, limits, store, code
  <2> QED BY <2>1 DEF Traced, Given, Stored, Numbered, runs
<1> QED BY <1>1, <1>2, <1>3, SaveNewTraced, DocTraced DEF Next

\* Drift shows: every document cites what its answer names, and what became of the
\* cited symbols is reported for what it is, however the claims moved before, while or
\* after the answer was saved (detector.go:22-35, 127-207; deepsearch_mcp.go:146-151).
THEOREM DriftShows == Spec => []DriftSeen
<1>1. Kept => CitationsKept
  BY CitationsFollow DEF Kept
<1>2. Kept /\ Traced => DriftSeen
  BY <1>1, AllJudged DEF DriftSeen
<1> QED BY <1>2, InitKept, NextKeeps, InitTraced, NextTraced, PTL DEF Spec
=============================================================================
