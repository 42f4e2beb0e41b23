---------------------------- MODULE KeyedLimiter ----------------------------
(***************************************************************************)
(* The keyed token-bucket limiter (extractor/tribal/limiter.go) that       *)
(* throttles MCP sessions.  Buckets live in an active LRU list; a bucket   *)
(* evicted from it moves to a snapshot list of the same size and is        *)
(* restored when its key comes back, so that churning keys does not hand   *)
(* out fresh bursts.  Allow is two steps: limiterForKey under the mutex,   *)
(* then the token is taken from the limiter it returned, unlocked.         *)
(*                                                                         *)
(* A list is a sequence, front first.  A limiter is a number, its tokens   *)
(* are in tokens: the rate.Limiter stays alive for a caller that holds it  *)
(* although both lists dropped it.                                         *)
(*                                                                         *)
(* History variables (not in the code): used, granted and ticks.           *)
(***************************************************************************)
EXTENDS Naturals, FiniteSets, SequencesExt

CONSTANTS
  Keys,         \* bucket keys: session IDs and the anonymous bucket
  Callers,      \* goroutines that call Allow
  MaxKeys,      \* capacity of each list
  Burst,        \* size of a bucket
  MaxLimiters,  \* bound: limiters made in a behaviour
  MaxTicks      \* bound: refills in a behaviour

ASSUME LimiterAssumption ==
  /\ <<>> \notin Keys
  /\ MaxKeys \in Nat \ {0}
  /\ Burst \in Nat \ {0}
  /\ MaxLimiters \in Nat
  /\ MaxTicks \in Nat

VARIABLES
  active,    \* lru and byKey
  snapshot,  \* snapLRU and snapByKey
  tokens,    \* tokens left in each limiter
  made,      \* limiters made so far
  holds,     \* the entry limiterForKey returned to a caller, or NoEntry
  used,      \* keys limiterForKey was ever asked for
  granted,   \* calls allowed per key
  ticks      \* refills so far

limiterVars == <<active, snapshot, tokens, made, holds, used, granted, ticks>>

Limiters == 1 .. MaxLimiters

Entry == [key : Keys, limiter : Limiters]

NoEntry == <<>>

LimiterTypeOK ==
  /\ active \in Seq(Entry)
  /\ snapshot \in Seq(Entry)
  /\ Len(active) <= MaxKeys
  /\ Len(snapshot) <= MaxKeys
  /\ tokens \in [Limiters -> 0 .. Burst]
  /\ made \in 0 .. MaxLimiters
  /\ holds \in [Callers -> Entry \cup {NoEntry}]
  /\ used \subseteq Keys
  /\ granted \in [Keys -> Nat]
  /\ ticks \in 0 .. MaxTicks

LimiterInit ==
  /\ active = <<>>
  /\ snapshot = <<>>
  /\ tokens = [l \in Limiters |-> Burst]
  /\ made = 0
  /\ holds = [c \in Callers |-> NoEntry]
  /\ used = {}
  /\ granted = [k \in Keys |-> 0]
  /\ ticks = 0

\* The position of key k in a list.
At(list, i, k) == i \in 1 .. Len(list) /\ list[i].key = k

Lists(list, k) == \E i \in 1 .. Len(list) : list[i].key = k

\* The snapshot list once the entry e is stored: the oldest one is dropped.
StoreSnapshot(list, e) ==
  <<e>> \o (IF Len(list) >= MaxKeys THEN Front(list) ELSE list)

\* Entry e goes to the front of the active list; the entry it pushes out, if
\* any, is stored in snapshots, the snapshot list as it is by then.
Admit(e, snapshots) ==
  IF Len(active) >= MaxKeys
  THEN /\ active' = <<e>> \o Front(active)
       /\ snapshot' = StoreSnapshot(snapshots, Last(active))
  ELSE /\ active' = <<e>> \o active
       /\ snapshot' = snapshots

\* limiterForKey returns the limiter of e to the caller.
Hand(c, e) ==
  /\ holds' = [holds EXCEPT ![c] = e]
  /\ used' = used \cup {e.key}

Release(c) == holds' = [holds EXCEPT ![c] = NoEntry]

\* Mutant: an active key keeps its place.
PromoteInPlace(c, k) ==
  /\ holds[c] = NoEntry
  /\ \E i \in 1 .. Len(active) : At(active, i, k) /\ Hand(c, active[i])
  /\ UNCHANGED <<active, snapshot, tokens, made, granted, ticks>>

\* limiterForKey, the key is active: it moves to the front.
Promote(c, k) ==
  /\ holds[c] = NoEntry
  /\ \E i \in 1 .. Len(active) :
       /\ At(active, i, k)
       /\ active' = <<active[i]>> \o RemoveAt(active, i)
       /\ Hand(c, active[i])
  /\ UNCHANGED <<snapshot, tokens, made, granted, ticks>>

\* Mutant: the snapshot is popped after room was made for the key.
RestoreLate(c, k) ==
  /\ holds[c] = NoEntry
  /\ ~Lists(active, k)
  /\ \E i \in 1 .. Len(snapshot) :
       /\ At(snapshot, i, k)
       /\ IF Len(active) >= MaxKeys
          THEN /\ active' = <<snapshot[i]>> \o Front(active)
               /\ snapshot' = SelectSeq(StoreSnapshot(snapshot, Last(active)),
                                        LAMBDA e : e.key # k)
          ELSE /\ active' = <<snapshot[i]>> \o active
               /\ snapshot' = RemoveAt(snapshot, i)
       /\ Hand(c, snapshot[i])
  /\ UNCHANGED <<tokens, made, granted, ticks>>

\* Mutant: the snapshot stays in its list when it is restored.
RestoreCopies(c, k) ==
  /\ holds[c] = NoEntry
  /\ ~Lists(active, k)
  /\ \E i \in 1 .. Len(snapshot) :
       /\ At(snapshot, i, k)
       /\ Admit(snapshot[i], snapshot)
       /\ Hand(c, snapshot[i])
  /\ UNCHANGED <<tokens, made, granted, ticks>>

\* limiterForKey, the key has a snapshot: it is popped before room is made.
Restore(c, k) ==
  /\ holds[c] = NoEntry
  /\ ~Lists(active, k)
  /\ \E i \in 1 .. Len(snapshot) :
       /\ At(snapshot, i, k)
       /\ Admit(snapshot[i], RemoveAt(snapshot, i))
       /\ Hand(c, snapshot[i])
  /\ UNCHANGED <<tokens, made, granted, ticks>>

\* limiterForKey, the key is unknown: it gets a new limiter, a full bucket.
Create(c, k) ==
  /\ holds[c] = NoEntry
  /\ ~Lists(active, k)
  /\ ~Lists(snapshot, k)
  /\ made < MaxLimiters
  /\ made' = made + 1
  /\ LET e == [key |-> k, limiter |-> made + 1]
     IN Admit(e, snapshot) /\ Hand(c, e)
  /\ UNCHANGED <<tokens, granted, ticks>>

\* lim.Allow() finds a token.
Grant(c) ==
  /\ holds[c] # NoEntry
  /\ tokens[holds[c].limiter] > 0
  /\ tokens' = [tokens EXCEPT ![holds[c].limiter] = @ - 1]
  /\ granted' = [granted EXCEPT ![holds[c].key] = @ + 1]
  /\ Release(c)
  /\ UNCHANGED <<active, snapshot, made, used, ticks>>

\* lim.Allow() finds none.
Deny(c) ==
  /\ holds[c] # NoEntry
  /\ tokens[holds[c].limiter] = 0
  /\ Release(c)
  /\ UNCHANGED <<active, snapshot, tokens, made, used, granted, ticks>>

\* Time passes: each bucket short of its burst gets a token.
Tick ==
  /\ ticks < MaxTicks
  /\ ticks' = ticks + 1
  /\ tokens' = [l \in Limiters |->
                  IF tokens[l] < Burst THEN tokens[l] + 1 ELSE Burst]
  /\ UNCHANGED <<active, snapshot, made, holds, used, granted>>

Allow(c) ==
  \/ \E k \in Keys : Promote(c, k) \/ Restore(c, k) \/ Create(c, k)
  \/ Grant(c)
  \/ Deny(c)

LimiterNext == Tick \/ \E c \in Callers : Allow(c)

LimiterSpec == LimiterInit /\ [][LimiterNext]_limiterVars

-----------------------------------------------------------------------------
\* Properties

\* A key never has two buckets, in one list or across both: it could spend
\* from either (limiter.go:277-281).
Tracked == active \o snapshot

OneBucketPerKey ==
  \A i, j \in 1 .. Len(Tracked) : Tracked[i].key = Tracked[j].key => i = j

\* The thrash-reset defence (limiter.go:106-112), at its exact bound: as long
\* as no more than 2 * MaxKeys keys were used, no order of calls lets a key
\* have more calls allowed than its burst and the refills.
NoFreshBurst ==
  Cardinality(used) <= 2 * MaxKeys =>
    \A k \in Keys : granted[k] <= Burst + ticks

\* What RecencyBuckets keeps: the keys in order of use, and the tokens left to
\* each key, a full bucket for one that was forgotten.
KeysOf(list) == [i \in 1 .. Len(list) |-> list[i].key]

BucketOf(k) ==
  IF Lists(Tracked, k)
  THEN tokens[(CHOOSE e \in ToSet(Tracked) : e.key = k).limiter]
  ELSE Burst

Asked ==
  [c \in Callers |-> IF holds[c] = NoEntry THEN NoEntry ELSE holds[c].key]

Buckets == INSTANCE RecencyBuckets WITH
  Capacity <- 2 * MaxKeys,
  order <- KeysOf(Tracked),
  bucket <- [k \in Keys |-> BucketOf(k)],
  asks <- Asked,
  NoKey <- NoEntry

\* With more keys the two lists together still behave as one list of
\* 2 * MaxKeys buckets in order of use: a bucket is forgotten only when that
\* many other keys were used since (module RecencyBuckets).
IsExactLRU == Buckets!Spec
=============================================================================
