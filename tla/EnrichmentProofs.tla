-------------------------- MODULE EnrichmentProofs --------------------------
(***************************************************************************)
(* Theorems about Enrichment, for any repositories, files and symbols, any *)
(* sizes of the batches, the channels and the tombstones' count, and any   *)
(* number of commits and stops.                                            *)
(***************************************************************************)
EXTENDS Enrichment, TLAPS

-----------------------------------------------------------------------------
\* Shapes: what the parts of a state are, whoever moved last

\* A run that has a symbol in hand.
Active(run) == run.at \in {"ask", "wait", "close"}

\* A watcher whose pipeline is under way.
Extracting(x) == x.at \in {"run", "tx", "done"}

RunFits(r, run) ==
  /\ run.todo \subseteq SymsOf(r)
  /\ run.cur \in IF Active(run) THEN SymsOf(r) ELSE {0}
  /\ run.at \in {"ask", "wait"} => run.left > 0
  /\ run.at = "idle" => run.todo = {}
  /\ Active(run) /\ run.force => run.cur \in forced

WatcherFits(r, x) ==
  Extracting(x) =>
    x.sent # {} /\ x.sent \subseteq FilesOf(r) /\ x.todo \subseteq x.sent

\* What a queue has heard of is in its repository.
QueueFits(r) ==
  /\ acc[r] \subseteq FilesOf(r) /\ UNION ToSet(chan[r]) \subseteq FilesOf(r)
  /\ \A i \in 1 .. Len(chan[r]) : chan[r][i] # {}

ProcFits ==
  /\ proc \in {"stopping", "closing"} => stops < MaxStops
  /\ proc \in {"up", "cli"} => stops <= MaxStops
  /\ proc = "off" => \A r \in Repos : e[r].at = "idle"

Shape ==
  /\ TypeOK /\ ProcFits
  /\ \A r \in Repos : RunFits(r, e[r]) /\ WatcherFits(r, w[r]) /\ QueueFits(r)

-----------------------------------------------------------------------------
\* Commits in order: what was saved, remembered, processed and committed

\* A pipeline extracts what its commit changed, and nothing newer than HEAD.
Ahead(r, x) ==
  /\ Extracting(x) =>
       \A f \in FilesOf(r) :
         /\ seen[f] <= x.to[f] /\ x.to[f] <= text[f]
         /\ f \notin x.todo => seen[f] = x.to[f]
         /\ IF f \in x.sent THEN mem[f] < x.to[f] ELSE mem[f] = x.to[f]
  /\ x.at = "rename" => \A f \in Files : x.snap[f] <= mem[f]

InOrder ==
  /\ \A f \in Files : saved[f] <= mem[f] /\ mem[f] <= seen[f] /\ seen[f] <= text[f]
  /\ \A r \in Repos : Ahead(r, w[r])

-----------------------------------------------------------------------------
\* Giving up and having claims

\* A transaction's view has the claims and tombstones of the database.
Grown(r) ==
  w[r].at = "tx" => \A s \in Syms : /\ db[r].claims[s] \subseteq view[r].claims[s]
                                    /\ db[r].perm[s] \subseteq view[r].perm[s]

Exclusive(r) ==
  \A s \in Syms \ forced : Seen(r).claims[s] \cap Seen(r).perm[s] \subseteq {0}

\* The symbol in hand is neither given up nor, before an answer, enriched at
\* the content it is asked about.
Open(r, run) ==
  Active(run) /\ run.cur \notin forced /\ run.ver # 0 =>
    /\ run.ver \notin Seen(r).perm[run.cur]
    /\ ~run.got => run.ver \notin Seen(r).claims[run.cur]

OneOrOther == \A r \in Repos : Grown(r) /\ Exclusive(r) /\ Open(r, e[r])

-----------------------------------------------------------------------------
\* What there is left to do about a symbol

\* The files whose change a repository's queue was told of or will be.
Told(r) ==
  acc[r] \cup (UNION ToSet(chan[r])) \cup (IF Extracting(w[r]) THEN w[r].sent ELSE {})

Covered(r, s) ==
  \/ s \in missed
  \/ Decided(Seen(r), s)
  \/ FileOf[s] \in Told(r)
  \/ text[FileOf[s]] # mem[FileOf[s]]
  \/ s \in e[r].todo
  \/ s = e[r].cur

\* What a symbol in hand is stored under is its content, unless it was
\* changed since and the queue hears of it.
Fresh(r, run) ==
  Active(run) /\ run.cur \notin missed =>
    /\ run.ok => run.got
    /\ run.got => run.ver # 0 /\ run.ver \in Seen(r).claims[run.cur]
    /\ \/ run.ver = 0
       \/ run.ver = Seen(r).hash[FileOf[run.cur]]
       \/ FileOf[run.cur] \in Told(r)

CompleteAt(r) == Fresh(r, e[r]) /\ \A s \in SymsOf(r) : Covered(r, s)
Complete == \A r \in Repos : CompleteAt(r)

-----------------------------------------------------------------------------
\* The model's operators

USE FleetAssumption

LEMMA SymsOfRepo ==
  /\ 0 \notin Syms
  /\ \A r \in Repos : FilesOf(r) \subseteq Files /\ SymsOf(r) \subseteq Syms
  /\ \A f \in Files : \A r \in Repos : f \in FilesOf(r) <=> RepoOf[f] = r
  /\ \A s \in Syms : /\ FileOf[s] \in Files
                     /\ \A r \in Repos : s \in SymsOf(r) <=> FileOf[s] \in FilesOf(r)
                     /\ s \in SymsOf(RepoOf[FileOf[s]])
                     /\ \A F : s \in SymsIn(F) <=> FileOf[s] \in F
BY DEF FilesOf, SymsOf, SymsIn

LEMMA NothingYet ==
  /\ NoTree \in Tree /\ NoDatabase \in Database /\ NoRun \in EnrichRun
  /\ NoRun.at = "idle" /\ NoRun.todo = {} /\ NoRun.cur = 0 /\ ~Active(NoRun)
  /\ Idle \in Watcher /\ Idle.at = "idle"
BY DEF NoTree, Tree, NoDatabase, Database, NoRun, EnrichRun, Active, Idle, Watcher

\* What the updates of a run do to its fields.
LEMMA RunMoves ==
  ASSUME NEW run \in EnrichRun, NEW a \in {"idle", "next", "ask", "wait", "close"}
  PROVE  LET u == [run EXCEPT !.at = a]
         IN /\ u \in EnrichRun /\ u.at = a /\ u.todo = run.todo /\ u.cur = run.cur
            /\ u.ver = run.ver /\ u.left = run.left /\ u.got = run.got
            /\ u.ok = run.ok /\ u.force = run.force
BY DEF EnrichRun

LEMMA RunAsked ==
  ASSUME NEW run \in EnrichRun, run.left > 0
  PROVE  LET u == Asked(run)
         IN /\ u \in EnrichRun /\ u.at \in {"ask", "close"} /\ u.todo = run.todo
            /\ u.at = "ask" => u.left > 0
            /\ u.cur = run.cur /\ u.ver = run.ver /\ u.got = run.got
            /\ u.ok = run.ok /\ u.force = run.force
<1> DEFINE a == IF run.left = 1 \/ Spent(run) THEN "close" ELSE "ask"
<1>1. Asked(run) = [run EXCEPT !.left = run.left - 1, !.at = a]
  BY DEF Asked
<1>2. /\ a \in {"ask", "close"} /\ (a = "ask" => run.left # 1)
      /\ run.left \in 0 .. Predicates /\ Predicates \in Nat
  BY DEF EnrichRun
<1>3. run.left - 1 \in 0 .. Predicates /\ (a = "ask" => run.left - 1 > 0)
  BY <1>2
<1> HIDE DEF a
<1> QED BY <1>1, <1>2, <1>3 DEF EnrichRun

LEMMA RunAnswered ==
  ASSUME NEW run \in EnrichRun, NEW g \in BOOLEAN
  PROVE  LET u == [run EXCEPT !.ok = TRUE, !.got = g]
             v == [run EXCEPT !.ok = TRUE]
         IN /\ u \in EnrichRun /\ u.at = run.at /\ u.todo = run.todo /\ u.cur = run.cur
            /\ u.ver = run.ver /\ u.left = run.left /\ u.got = g
            /\ u.ok = TRUE /\ u.force = run.force
            /\ v \in EnrichRun /\ v.at = run.at /\ v.todo = run.todo /\ v.cur = run.cur
            /\ v.ver = run.ver /\ v.left = run.left /\ v.got = run.got
            /\ v.ok = TRUE /\ v.force = run.force
BY DEF EnrichRun

LEMMA RunWaits ==
  ASSUME NEW run \in EnrichRun
  PROVE  LET u == [run EXCEPT !.at = "wait",
                              !.calls = IF run.budget > 0 THEN run.calls + 1 ELSE run.calls]
         IN /\ u \in EnrichRun /\ u.at = "wait" /\ u.todo = run.todo /\ u.cur = run.cur
            /\ u.ver = run.ver /\ u.left = run.left /\ u.got = run.got
            /\ u.ok = run.ok /\ u.force = run.force
<1> DEFINE n == IF run.budget > 0 THEN run.calls + 1 ELSE run.calls
<1>1. n \in Nat
  BY DEF EnrichRun
<1> HIDE DEF n
<1>2. LET u == [run EXCEPT !.at = "wait", !.calls = n]
      IN /\ u \in EnrichRun /\ u.at = "wait" /\ u.todo = run.todo /\ u.cur = run.cur
         /\ u.ver = run.ver /\ u.left = run.left /\ u.got = run.got
         /\ u.ok = run.ok /\ u.force = run.force
  BY <1>1 DEF EnrichRun
<1> QED BY <1>2 DEF n

\* A run is the record of its fields.
LEMMA RunFields ==
  ASSUME NEW run \in EnrichRun
  PROVE  run = [at |-> run.at, todo |-> run.todo, cur |-> run.cur, ver |-> run.ver,
                left |-> run.left, got |-> run.got, ok |-> run.ok,
                calls |-> run.calls, budget |-> run.budget, force |-> run.force]
BY DEF EnrichRun

LEMMA RunSkips ==
  ASSUME NEW run \in EnrichRun, NEW s
  PROVE  LET u == [run EXCEPT !.todo = run.todo \ {s}]
         IN /\ u \in EnrichRun /\ u.at = run.at /\ u.todo = run.todo \ {s}
            /\ u.cur = run.cur /\ u.force = run.force
BY DEF EnrichRun

LEMMA RunTakes ==
  ASSUME NEW run \in EnrichRun, NEW s \in Syms, NEW v \in Nat
  PROVE  LET u == InHand(run, s, v)
         IN /\ u \in EnrichRun /\ u.at = "ask" /\ u.todo = run.todo \ {s} /\ u.cur = s
            /\ u.ver = v /\ u.left = Predicates /\ ~u.got
            /\ ~u.ok /\ u.force = run.force
<1> DEFINE u1 == [run EXCEPT !.at = "ask", !.todo = run.todo \ {s}]
           u2 == [u1 EXCEPT !.cur = s, !.ver = v]
           u3 == [u2 EXCEPT !.left = Predicates]
           u  == [u3 EXCEPT !.got = FALSE, !.ok = FALSE]
<1>2. u = InHand(run, s, v)
  BY DEF InHand
<1>3. /\ u1 \in EnrichRun /\ u1.at = "ask" /\ u1.todo = run.todo \ {s}
      /\ u1.force = run.force
  BY DEF EnrichRun
<1> HIDE DEF u1
<1>4. /\ u2 \in EnrichRun /\ u2.at = "ask" /\ u2.todo = run.todo \ {s}
      /\ u2.force = run.force /\ u2.cur = s /\ u2.ver = v
  BY <1>3 DEF EnrichRun
<1> HIDE DEF u2
<1>5. /\ u3 \in EnrichRun /\ u3.at = "ask" /\ u3.todo = run.todo \ {s}
      /\ u3.force = run.force /\ u3.cur = s /\ u3.ver = v
      /\ u3.left = Predicates
  <2>1. Predicates \in 0 .. Predicates
    OBVIOUS
  <2> QED BY <1>4, <2>1 DEF EnrichRun
<1> HIDE DEF u3
<1>6. /\ u \in EnrichRun /\ u.at = "ask" /\ u.todo = run.todo \ {s}
      /\ u.force = run.force /\ u.cur = s /\ u.ver = v
      /\ u.left = Predicates /\ ~u.got /\ ~u.ok
  BY <1>5 DEF EnrichRun
<1> HIDE DEF u
<1> QED BY <1>2, <1>6

LEMMA RunCloses ==
  ASSUME NEW run \in EnrichRun
  PROVE  LET u == PutAway(run)
         IN /\ u \in EnrichRun /\ u.at = run.at /\ u.todo = run.todo /\ u.cur = 0
            /\ u.force = run.force
<1> DEFINE u1 == [run EXCEPT !.cur = 0, !.ver = 0]
           u2 == [u1 EXCEPT !.left = 0]
           u  == [u2 EXCEPT !.got = FALSE, !.ok = FALSE]
<1>1. u = PutAway(run)
  BY DEF PutAway
<1>2. /\ u1 \in EnrichRun /\ u1.at = run.at /\ u1.todo = run.todo /\ u1.cur = 0
      /\ u1.force = run.force
  BY DEF EnrichRun
<1> HIDE DEF u1
<1>3. /\ u2 \in EnrichRun /\ u2.at = run.at /\ u2.todo = run.todo /\ u2.cur = 0
      /\ u2.force = run.force
  <2>1. 0 \in 0 .. Predicates
    OBVIOUS
  <2> QED BY <1>2, <2>1 DEF EnrichRun
<1> HIDE DEF u2
<1>4. /\ u \in EnrichRun /\ u.at = run.at /\ u.todo = run.todo /\ u.cur = 0
      /\ u.force = run.force
  BY <1>3 DEF EnrichRun
<1> HIDE DEF u
<1> QED BY <1>1, <1>4

LEMMA RunBegins ==
  ASSUME NEW S \in SUBSET Syms
  PROVE  LET t == [NoRun EXCEPT !.todo = S]
         IN t \in EnrichRun /\ t.at = "idle" /\ t.todo = S /\ t.cur = 0
BY NothingYet DEF EnrichRun

\* What the writes to a database do to its parts.
LEMMA ClaimWrites ==
  ASSUME NEW d \in Database, NEW s \in Syms, NEW v \in Nat
  PROVE  LET c == [d EXCEPT !.claims[s] = d.claims[s] \cup {v}]
         IN /\ c \in Database /\ c.hash = d.hash /\ c.fails = d.fails /\ c.perm = d.perm
            /\ c.claims = [d.claims EXCEPT ![s] = d.claims[s] \cup {v}]
<1>1. d.claims[s] \cup {v} \in SUBSET Nat
  BY DEF Database
<1> QED BY <1>1 DEF Database

LEMMA TombstoneDeletes ==
  ASSUME NEW d \in Database, NEW s \in Syms
  PROVE  LET c == [d EXCEPT !.fails[s] = 0, !.perm[s] = {}]
         IN /\ c \in Database /\ c.hash = d.hash /\ c.claims = d.claims
            /\ c.fails = [d.fails EXCEPT ![s] = 0] /\ c.perm = [d.perm EXCEPT ![s] = {}]
<1>1. 0 \in 0 .. MaxFailures - 1
  OBVIOUS
<1> QED BY <1>1 DEF Database

LEMMA FailureWrites ==
  ASSUME NEW d \in Database, NEW s \in Syms, NEW n \in 0 .. MaxFailures - 1
  PROVE  LET c == [d EXCEPT !.fails[s] = n]
         IN /\ c \in Database /\ c.hash = d.hash /\ c.claims = d.claims /\ c.perm = d.perm
            /\ c.fails = [d.fails EXCEPT ![s] = n]
BY DEF Database

LEMMA HashWrites ==
  ASSUME NEW d \in Database, NEW f \in Files, NEW v \in Nat
  PROVE  LET c == [d EXCEPT !.hash[f] = v]
         IN /\ c \in Database /\ c.claims = d.claims /\ c.perm = d.perm
            /\ c.fails = d.fails /\ c.hash = [d.hash EXCEPT ![f] = v]
BY DEF Database, Tree

\* The channel of a queue: what one more batch leaves in it.
LEMMA ChannelGrows ==
  ASSUME NEW E, NEW c \in Seq(E), NEW b \in E
  PROVE  /\ Append(c, b) \in Seq(E) /\ Len(Append(c, b)) = Len(c) + 1
         /\ UNION ToSet(Append(c, b)) = b \cup UNION ToSet(c)
         /\ (\A i \in 1 .. Len(c) : c[i] # {}) /\ b # {} =>
              \A i \in 1 .. Len(c) + 1 : Append(c, b)[i] # {}
<1>0. Len(c) \in Nat /\ DOMAIN c = 1 .. Len(c) /\ c \in [1 .. Len(c) -> E]
  OBVIOUS
<1> DEFINE a == Append(c, b)
<1>1. /\ a \in Seq(E) /\ Len(a) = Len(c) + 1 /\ DOMAIN a = 1 .. Len(c) + 1
      /\ a[Len(c) + 1] = b /\ \A i \in 1 .. Len(c) : a[i] = c[i]
  OBVIOUS
<1> HIDE DEF a
<1>2. ToSet(a) = ToSet(c) \cup {b}
  <2>1. ToSet(a) = {a[i] : i \in 1 .. Len(c) + 1} /\ ToSet(c) = {c[i] : i \in 1 .. Len(c)}
    BY <1>0, <1>1 DEF ToSet
  <2>2. /\ Len(c) + 1 \in 1 .. Len(c) + 1
        /\ \A i \in 1 .. Len(c) : i \in 1 .. Len(c) + 1
        /\ \A i \in 1 .. Len(c) + 1 : i \in 1 .. Len(c) \/ i = Len(c) + 1
    <3> DEFINE n == Len(c)
    <3>1. n \in Nat
      BY <1>0
    <3> HIDE DEF n
    <3>2. /\ n + 1 \in 1 .. n + 1
          /\ \A i \in 1 .. n : i \in 1 .. n + 1
          /\ \A i \in 1 .. n + 1 : i \in 1 .. n \/ i = n + 1
      BY <3>1
    <3> QED BY <3>2 DEF n
  <2>3. \A x \in ToSet(a) : x \in ToSet(c) \cup {b}
    BY <1>1, <2>1, <2>2
  <2>4. \A x \in ToSet(c) : x \in ToSet(a)
    BY <1>1, <2>1, <2>2
  <2>5. b \in ToSet(a)
    BY <1>1, <2>1, <2>2
  <2> QED BY <2>3, <2>4, <2>5
<1>3. UNION ToSet(a) = b \cup UNION ToSet(c)
  BY <1>2
<1>4. (\A i \in 1 .. Len(c) : c[i] # {}) /\ b # {} =>
        \A i \in 1 .. Len(c) + 1 : a[i] # {}
  <2>1. \A i \in 1 .. Len(c) + 1 : i \in 1 .. Len(c) \/ i = Len(c) + 1
    <3> DEFINE n == Len(c)
    <3>1. n \in Nat
      BY <1>0
    <3> HIDE DEF n
    <3>2. \A i \in 1 .. n + 1 : i \in 1 .. n \/ i = n + 1
      BY <3>1
    <3> QED BY <3>2 DEF n
  <2> QED BY <1>1, <2>1
<1> QED BY <1>1, <1>3, <1>4 DEF a

\* What is left of it without the first.
LEMMA ChannelShrinks ==
  ASSUME NEW E, NEW c \in Seq(E), c # <<>>
  PROVE  /\ Head(c) \in E /\ Tail(c) \in Seq(E) /\ Len(Tail(c)) = Len(c) - 1
         /\ UNION ToSet(c) = Head(c) \cup UNION ToSet(Tail(c))
         /\ (\A i \in 1 .. Len(c) : c[i] # {}) =>
              Head(c) # {} /\ \A i \in 1 .. Len(c) - 1 : Tail(c)[i] # {}
<1>0. Len(c) \in Nat /\ DOMAIN c = 1 .. Len(c) /\ c \in [1 .. Len(c) -> E]
  OBVIOUS
<1> DEFINE t == Tail(c)
<1>1. /\ t \in Seq(E) /\ Len(t) = Len(c) - 1 /\ DOMAIN t = 1 .. Len(c) - 1
      /\ \A i \in 1 .. Len(c) - 1 : t[i] = c[i + 1]
      /\ Head(c) = c[1] /\ c[1] \in E /\ Len(c) > 0
  BY <1>0
<1> HIDE DEF t
<1>2. ToSet(c) = {Head(c)} \cup ToSet(t)
  <2>1. \A i \in 1 .. Len(c) : i = 1 \/ (i - 1 \in 1 .. Len(c) - 1 /\ t[i - 1] = c[i])
    BY <1>0, <1>1
  <2>2. \A x \in ToSet(c) : x \in {Head(c)} \cup ToSet(t)
    <3> TAKE x \in ToSet(c)
    <3>1. PICK i \in 1 .. Len(c) : x = c[i]
      BY <1>0 DEF ToSet
    <3>2. CASE i = 1
      BY <1>1, <3>1, <3>2
    <3>3. CASE i # 1
      <4>1. i - 1 \in DOMAIN t /\ x = t[i - 1]
        BY <1>1, <2>1, <3>1, <3>3
      <4> QED BY <4>1 DEF ToSet
    <3> QED BY <3>2, <3>3
  <2>3. \A x \in ToSet(t) : x \in ToSet(c)
    <3> TAKE x \in ToSet(t)
    <3>1. PICK i \in 1 .. Len(c) - 1 : x = t[i]
      BY <1>1 DEF ToSet
    <3>2. i + 1 \in DOMAIN c /\ x = c[i + 1]
      BY <1>0, <1>1, <3>1
    <3> QED BY <3>2 DEF ToSet
  <2>4. 1 \in DOMAIN c
    BY <1>0, <1>1
  <2>5. Head(c) \in ToSet(c)
    BY <1>1, <2>4 DEF ToSet
  <2> QED BY <2>2, <2>3, <2>5
<1>3. UNION ToSet(c) = Head(c) \cup UNION ToSet(t)
  BY <1>2
<1>4. (\A i \in 1 .. Len(c) : c[i] # {}) =>
        Head(c) # {} /\ \A i \in 1 .. Len(c) - 1 : t[i] # {}
  <2> HAVE \A i \in 1 .. Len(c) : c[i] # {}
  <2>1. 1 \in 1 .. Len(c) /\ \A i \in 1 .. Len(c) - 1 : i + 1 \in 1 .. Len(c)
    BY <1>0, <1>1
  <2> QED BY <1>1, <2>1
<1> QED BY <1>1, <1>3, <1>4 DEF t

\* An empty channel has no paths.
LEMMA EmptyChannel ==
  /\ \A E : <<>> \in Seq(E)
  /\ Len(<<>>) = 0 /\ UNION ToSet(<<>>) = {}
BY DEF ToSet

\* What the updates of a watcher do to its fields.
LEMMA WatcherAt ==
  ASSUME NEW x \in Watcher, NEW a \in {"idle", "run", "tx", "done", "rename", "ended"}
  PROVE  LET u == [x EXCEPT !.at = a]
         IN /\ u \in Watcher /\ u.at = a /\ u.to = x.to /\ u.todo = x.todo
            /\ u.sent = x.sent /\ u.snap = x.snap
BY DEF Watcher

LEMMA WatcherOpens ==
  ASSUME NEW x \in Watcher, NEW f
  PROVE  LET u == [x EXCEPT !.at = "tx", !.todo = x.todo \ {f}]
         IN /\ u \in Watcher /\ u.at = "tx" /\ u.to = x.to /\ u.todo = x.todo \ {f}
            /\ u.sent = x.sent /\ u.snap = x.snap
BY DEF Watcher

LEMMA WatcherSends ==
  ASSUME NEW x \in Watcher, NEW T \in Tree
  PROVE  LET u == [x EXCEPT !.at = "rename", !.snap = T]
         IN u \in Watcher /\ u.at = "rename" /\ u.snap = T
BY DEF Watcher

LEMMA WatcherStarts ==
  ASSUME NEW S \in SUBSET Files, NEW T \in Tree
  PROVE  LET u == [Idle EXCEPT !.at = "run", !.to = T, !.todo = S, !.sent = S]
         IN u \in Watcher /\ u.at = "run" /\ u.to = T /\ u.todo = S /\ u.sent = S
<1> DEFINE u1 == [Idle EXCEPT !.at = "run", !.to = T]
           u  == [u1 EXCEPT !.todo = S, !.sent = S]
<1>1. u = [Idle EXCEPT !.at = "run", !.to = T, !.todo = S, !.sent = S]
  OBVIOUS
<1>2. u1 \in Watcher /\ u1.at = "run" /\ u1.to = T
  BY NothingYet DEF Watcher
<1> HIDE DEF u1
<1>3. u \in Watcher /\ u.at = "run" /\ u.to = T /\ u.todo = S /\ u.sent = S
  BY <1>2 DEF Watcher
<1> HIDE DEF u
<1> QED BY <1>1, <1>3

-----------------------------------------------------------------------------
\* Shapes are kept

\* A step that moves one watcher keeps the others' shapes, and one that moves one run.
LEMMA WatchersFit ==
  ASSUME Shape, NEW r \in Repos, w' = [w EXCEPT ![r] = w'[r]], w'[r] \in Watcher,
         WatcherFits(r, w[r])'
  PROVE  w' \in [Repos -> Watcher] /\ \A q \in Repos : WatcherFits(q, w[q])'
<1>1. \A q \in Repos \ {r} : w'[q] = w[q]
  BY DEF Shape, TypeOK
<1>2. w' \in [Repos -> Watcher]
  BY DEF Shape, TypeOK
<1> QED BY <1>1, <1>2 DEF Shape, WatcherFits, Extracting

LEMMA RunsFit ==
  ASSUME Shape, NEW r \in Repos, e' = [e EXCEPT ![r] = e'[r]], e'[r] \in EnrichRun,
         RunFits(r, e[r])', forced \subseteq forced'
  PROVE  e' \in [Repos -> EnrichRun] /\ \A q \in Repos : RunFits(q, e[q])'
<1>1. \A q \in Repos \ {r} : e'[q] = e[q] /\ RunFits(q, e[q])
  BY DEF Shape, TypeOK
<1>2. e' \in [Repos -> EnrichRun]
  BY DEF Shape, TypeOK
<1>3. \A q \in Repos \ {r} : RunFits(q, e[q])'
  BY <1>1 DEF RunFits, Active
<1> QED BY <1>2, <1>3

\* A step of a repository's watcher that leaves the runs, the queues' own
\* state and the process alone.
LEMMA RepositoryStep ==
  ASSUME Shape, NEW r \in Repos, w' = [w EXCEPT ![r] = w'[r]], w'[r] \in Watcher,
         WatcherFits(r, w[r])', UNCHANGED <<acc, armed, e, reqs, proc, forced, stops>>,
         text' \in Tree, mem' \in Tree, saved' \in Tree, seen' \in Tree,
         db' \in [Repos -> Database], view' \in [Repos -> Database],
         chan' \in [Repos -> Seq(SUBSET Files)], missed' \subseteq Syms,
         \A q \in Repos : QueueFits(q)' /\ Len(chan'[q]) <= Buffer
  PROVE  Shape'
<1>1. w' \in [Repos -> Watcher] /\ \A q \in Repos : WatcherFits(q, w[q])'
  BY WatchersFit
<1>2. \A q \in Repos : RunFits(q, e[q])'
  BY DEF Shape, RunFits, Active
<1>3. ProcFits'
  BY DEF Shape, ProcFits
<1> QED BY <1>1, <1>2, <1>3 DEF Shape, TypeOK

LEMMA QueueSame ==
  ASSUME Shape, UNCHANGED queue
  PROVE  /\ chan' \in [Repos -> Seq(SUBSET Files)]
         /\ \A q \in Repos : QueueFits(q)' /\ Len(chan'[q]) <= Buffer
BY DEF Shape, TypeOK, QueueFits, queue

LEMMA CommitShape ==
  ASSUME Shape, NEW f \in Files, Commit(f)
  PROVE  Shape'
<1>1. text' \in Tree
  BY SMTT(80) DEF Shape, TypeOK, Commit, Tree
<1> QED BY ZenonT(80), <1>1 DEF Shape, TypeOK, Commit, ProcFits, RunFits, WatcherFits, QueueFits,
                    Active, Extracting, queue, store

LEMMA PipelineShape ==
  ASSUME Shape, NEW r \in Repos, Pipeline(r)
  PROVE  Shape'
<1>0. /\ w \in [Repos -> Watcher] /\ w[r] \in Watcher /\ WatcherFits(r, w[r])
      /\ db \in [Repos -> Database] /\ view \in [Repos -> Database]
      /\ seen \in Tree /\ NoDatabase \in Database
  BY NothingYet DEF Shape, TypeOK
<1>1. CASE TxBegin(r)
  <2>1. PICK f \in w[r].todo :
          /\ w[r].at = "run"
          /\ view' = [view EXCEPT ![r] = [db[r] EXCEPT !.hash[f] = w[r].to[f]]]
          /\ w' = [w EXCEPT ![r].at = "tx", ![r].todo = @ \ {f}]
          /\ seen' = [seen EXCEPT ![f] = w[r].to[f]]
    BY <1>1 DEF TxBegin
  <2>2. f \in Files /\ w[r].to[f] \in Nat /\ w[r].todo \ {f} \in SUBSET Files
    BY <1>0, <2>1 DEF Watcher, Tree
  <2>3. view' \in [Repos -> Database]
    BY <1>0, <2>1, <2>2, HashWrites
  <2>4. seen' \in Tree
    BY <1>0, <2>1, <2>2 DEF Tree
  <2> DEFINE x == [w[r] EXCEPT !.at = "tx", !.todo = w[r].todo \ {f}]
  <2>5. w'[r] = x /\ w' = [w EXCEPT ![r] = w'[r]]
    BY <1>0, <2>1
  <2>6. /\ x \in Watcher /\ x.at = "tx" /\ x.todo = w[r].todo \ {f}
        /\ x.sent = w[r].sent
    BY <1>0, WatcherOpens
  <2> HIDE DEF x
  <2>7. WatcherFits(r, w[r])'
    BY <1>0, <2>1, <2>5, <2>6 DEF WatcherFits, Extracting
  <2>8. UNCHANGED <<text, mem, saved, db, e, queue, reqs, proc, missed, forced, stops>>
    BY <1>1 DEF TxBegin
  <2> QED BY <2>3, <2>4, <2>5, <2>6, <2>7, <2>8, QueueSame, RepositoryStep
          DEF Shape, TypeOK, queue
<1>2. CASE TxCommit(r)
  <2>1. w'[r].at = "done" /\ w'[r] \in Watcher /\ w'[r].todo = w[r].todo
        /\ w'[r].sent = w[r].sent /\ w' = [w EXCEPT ![r] = w'[r]] /\ w[r].at = "tx"
    <3>1. /\ w' = [w EXCEPT ![r].at = "done"] /\ w[r].at = "tx"
          /\ w'[r] = [w[r] EXCEPT !.at = "done"]
      BY <1>0, <1>2 DEF TxCommit
    <3> QED BY <1>0, <3>1, WatcherAt
  <2>2. WatcherFits(r, w[r])'
    BY <1>0, <2>1 DEF WatcherFits, Extracting
  <2>3. db' \in [Repos -> Database] /\ view' \in [Repos -> Database]
    BY <1>0, <1>2 DEF TxCommit
  <2>4. UNCHANGED <<text, mem, saved, seen, e, queue, reqs, proc, missed, forced, stops>>
    BY <1>2 DEF TxCommit
  <2> QED BY <2>1, <2>2, <2>3, <2>4, QueueSame, RepositoryStep DEF Shape, TypeOK, queue
<1>3. CASE TxRollback(r)
  <2>1. w'[r].at = "done" /\ w'[r] \in Watcher /\ w'[r].todo = w[r].todo
        /\ w'[r].sent = w[r].sent /\ w' = [w EXCEPT ![r] = w'[r]] /\ w[r].at = "tx"
    <3>1. /\ w' = [w EXCEPT ![r].at = "done"] /\ w[r].at = "tx"
          /\ w'[r] = [w[r] EXCEPT !.at = "done"]
      BY <1>0, <1>3 DEF TxRollback
    <3> QED BY <1>0, <3>1, WatcherAt
  <2>2. WatcherFits(r, w[r])'
    BY <1>0, <2>1 DEF WatcherFits, Extracting
  <2>3. view' \in [Repos -> Database]
    BY <1>0, <1>3 DEF TxRollback
  <2>4. UNCHANGED <<text, mem, saved, seen, db, e, queue, reqs, proc, forced, stops>>
    BY <1>3 DEF TxRollback
  <2>5. missed' \subseteq Syms
    BY <1>3, SymsOfRepo DEF TxRollback, Shape, TypeOK
  <2> QED BY <2>1, <2>2, <2>3, <2>4, <2>5, QueueSame, RepositoryStep
          DEF Shape, TypeOK, queue
<1>4. CASE TxDone(r)
  <2>1. w'[r].at = "run" /\ w'[r] \in Watcher /\ w'[r].todo = w[r].todo
        /\ w'[r].sent = w[r].sent /\ w' = [w EXCEPT ![r] = w'[r]] /\ w[r].at = "done"
    <3>1. /\ w' = [w EXCEPT ![r].at = "run"] /\ w[r].at = "done"
          /\ w'[r] = [w[r] EXCEPT !.at = "run"]
      BY <1>0, <1>4 DEF TxDone
    <3> QED BY <1>0, <3>1, WatcherAt
  <2>2. WatcherFits(r, w[r])'
    BY <1>0, <2>1 DEF WatcherFits, Extracting
  <2>3. UNCHANGED <<text, mem, saved, seen, store, e, queue, reqs, proc, missed,
                    forced, stops>>
    BY <1>4 DEF TxDone
  <2> QED BY <2>1, <2>2, <2>3, QueueSame, RepositoryStep DEF Shape, TypeOK, queue, store
<1> QED BY <1>1, <1>2, <1>3, <1>4 DEF Pipeline

LEMMA WatchShape ==
  ASSUME Shape, NEW r \in Repos, Watch(r)
  PROVE  Shape'
<1>0. /\ w \in [Repos -> Watcher] /\ w[r] \in Watcher /\ WatcherFits(r, w[r])
      /\ text \in Tree /\ mem \in Tree /\ saved \in Tree
      /\ missed \subseteq Syms /\ chan \in [Repos -> Seq(SUBSET Files)]
      /\ FilesOf(r) \subseteq Files
  BY SymsOfRepo DEF Shape, TypeOK
<1>1. CASE Check(r)
  <2> DEFINE S == {f \in FilesOf(r) : text[f] # mem[f]}
             x == [Idle EXCEPT !.at = "run", !.to = text, !.todo = S, !.sent = S]
  <2>1. S # {} /\ w' = [w EXCEPT ![r] = x]
    BY <1>1 DEF Check
  <2>2. S \subseteq FilesOf(r) /\ S \in SUBSET Files
    BY <1>0
  <2> HIDE DEF S
  <2>3. x \in Watcher /\ x.at = "run" /\ x.todo = S /\ x.sent = S
    BY <1>0, <2>2, WatcherStarts
  <2> HIDE DEF x
  <2>4. w'[r] = x /\ w' = [w EXCEPT ![r] = w'[r]]
    BY <1>0, <2>1
  <2>5. WatcherFits(r, w[r])'
    BY <2>1, <2>2, <2>3, <2>4 DEF WatcherFits
  <2>6. UNCHANGED <<text, mem, saved, seen, store, e, queue, reqs, proc, missed,
                    forced, stops>>
    BY <1>1 DEF Check
  <2> QED BY <2>3, <2>4, <2>5, <2>6, QueueSame, RepositoryStep
          DEF Shape, TypeOK, queue, store
<1>2. CASE Send(r)
  <2>1. mem' \in Tree
    BY <1>0, <1>2 DEF Send, ForRepo, Tree, Watcher
  <2>2. /\ w'[r] \in Watcher /\ w'[r].at = "rename" /\ w' = [w EXCEPT ![r] = w'[r]]
        /\ w[r].at = "run"
    <3>1. /\ w' = [w EXCEPT ![r].at = "rename", ![r].snap = mem'] /\ w[r].at = "run"
      BY <1>2 DEF Send
    <3>2. w'[r] = [w[r] EXCEPT !.at = "rename", !.snap = mem']
      BY <1>0, <3>1
    <3>3. \A T \in Tree : LET u == [w[r] EXCEPT !.at = "rename", !.snap = T]
                          IN u \in Watcher /\ u.at = "rename"
      BY <1>0, WatcherSends
    <3>4. w'[r] \in Watcher /\ w'[r].at = "rename"
      BY <2>1, <3>2, <3>3
    <3>5. w' = [w EXCEPT ![r] = w'[r]]
      BY <1>0, <3>1
    <3> QED BY <3>1, <3>4, <3>5
  <2>3. WatcherFits(r, w[r])'
    BY <2>2 DEF WatcherFits, Extracting
  <2>4. /\ chan' \in [Repos -> Seq(SUBSET Files)] /\ missed' \subseteq Syms
        /\ \A q \in Repos : QueueFits(q)' /\ Len(chan'[q]) <= Buffer
    <3>0. /\ w[r].sent # {} /\ w[r].sent \subseteq FilesOf(r) /\ w[r].sent \in SUBSET Files
          /\ chan[r] \in Seq(SUBSET Files) /\ acc' = acc
      BY <1>0, <1>2 DEF WatcherFits, Extracting, Send, Watcher
    <3>1. CASE Len(chan[r]) < Buffer
      <4> DEFINE c == Append(chan[r], w[r].sent)
      <4>1. chan' = [chan EXCEPT ![r] = c] /\ missed' = missed
        BY <1>2, <3>1 DEF Send
      <4>2. /\ c \in Seq(SUBSET Files) /\ Len(c) = Len(chan[r]) + 1
            /\ UNION ToSet(c) = w[r].sent \cup UNION ToSet(chan[r])
            /\ (\A i \in 1 .. Len(chan[r]) : chan[r][i] # {}) =>
                 \A i \in 1 .. Len(chan[r]) + 1 : c[i] # {}
        BY ONLY <3>0, ChannelGrows
      <4> HIDE DEF c
      <4>3. chan'[r] = c /\ \A q \in Repos \ {r} : chan'[q] = chan[q]
        BY <1>0, <4>1
      <4>4. QueueFits(r)' /\ Len(chan'[r]) <= Buffer
        <5>1. QueueFits(r) /\ Len(chan[r]) \in Nat
          BY <3>0 DEF Shape
        <5>2. /\ \A i \in 1 .. Len(chan'[r]) : chan'[r][i] # {}
              /\ UNION ToSet(chan'[r]) \subseteq FilesOf(r) /\ acc'[r] \subseteq FilesOf(r)
          BY <3>0, <4>2, <4>3, <5>1 DEF QueueFits
        <5>3. Len(chan'[r]) <= Buffer
          BY <3>1, <4>2, <4>3, <5>1
        <5> QED BY <5>2, <5>3 DEF QueueFits
      <4>5. \A q \in Repos \ {r} : QueueFits(q)' /\ Len(chan'[q]) <= Buffer
        BY <3>0, <4>3 DEF Shape, TypeOK, QueueFits
      <4> QED BY <1>0, <4>1, <4>2, <4>4, <4>5
    <3>2. CASE ~(Len(chan[r]) < Buffer)
      <4>1. UNCHANGED queue /\ missed' = missed \cup SymsIn(w[r].sent)
        BY <1>2, <3>2 DEF Send, queue
      <4> QED BY <1>0, <4>1, QueueSame DEF SymsIn
    <3> QED BY <3>1, <3>2
  <2>5. UNCHANGED <<text, saved, seen, store, acc, armed, e, reqs, proc, forced, stops>>
    BY <1>2 DEF Send
  <2> QED BY <2>1, <2>2, <2>3, <2>4, <2>5, RepositoryStep DEF Shape, TypeOK, store
<1>3. CASE SaveState(r)
  <2>1. /\ w'[r] = Idle /\ Idle \in Watcher /\ Idle.at = "idle"
        /\ w' = [w EXCEPT ![r] = w'[r]]
    BY <1>0, <1>3, NothingYet DEF SaveState
  <2>2. WatcherFits(r, w[r])'
    BY <2>1 DEF WatcherFits, Extracting
  <2>3. saved' \in Tree
    BY <1>0, <1>3 DEF SaveState, Watcher
  <2>4. UNCHANGED <<text, mem, seen, store, e, queue, reqs, proc, missed, forced, stops>>
    BY <1>3 DEF SaveState
  <2> QED BY <2>1, <2>2, <2>3, <2>4, QueueSame, RepositoryStep
          DEF Shape, TypeOK, queue, store
<1> QED BY <1>1, <1>2, <1>3 DEF Watch

\* A step of a run, and of a queue that starts one or hears of paths.
LEMMA RunStep ==
  ASSUME Shape, NEW r \in Repos, UNCHANGED <<repository, proc, stops>>,
         e' = [e EXCEPT ![r] = e'[r]], e'[r] \in EnrichRun, RunFits(r, e[r])',
         forced \subseteq forced', forced' \subseteq Syms, missed' \subseteq Syms,
         proc # "off" \/ e'[r].at = "idle",
         reqs' \in Seq(Repos \X Syms \X (1 .. Predicates)), Len(reqs') <= Pending,
         db' \in [Repos -> Database], view' \in [Repos -> Database], UNCHANGED queue
  PROVE  Shape'
<1>1. e' \in [Repos -> EnrichRun] /\ \A q \in Repos : RunFits(q, e[q])'
  BY RunsFit
<1>2. \A q \in Repos : WatcherFits(q, w[q])' /\ QueueFits(q)'
  BY DEF Shape, WatcherFits, QueueFits, Extracting, repository, queue
<1>3. ProcFits'
  BY <1>1 DEF Shape, TypeOK, ProcFits, repository
<1> QED BY <1>1, <1>2, <1>3 DEF Shape, TypeOK, repository, queue

LEMMA GoFits ==
  ASSUME Shape, NEW r \in Repos, NEW run \in EnrichRun, run.cur = 0,
         run.todo \subseteq SymsOf(r), Go(r, run)
  PROVE  /\ e' = [e EXCEPT ![r] = e'[r]] /\ e'[r] \in EnrichRun /\ RunFits(r, e[r])'
         /\ e'[r].todo = run.todo /\ e'[r].cur = 0 /\ ~Active(e'[r])
         /\ \A q \in Repos \ {r} : e'[q] = e[q]
<1> DEFINE n == [run EXCEPT !.at = "next"]
           x == IF run.todo = {} THEN NoRun ELSE n
<1>1. e \in [Repos -> EnrichRun] /\ e' = [e EXCEPT ![r] = x]
  BY DEF Shape, TypeOK, Go
<1>2. n \in EnrichRun /\ n.at = "next" /\ n.todo = run.todo /\ n.cur = 0
  BY RunMoves
<1>3. /\ x \in EnrichRun /\ x.at \in {"idle", "next"} /\ x.todo = run.todo /\ x.cur = 0
      /\ x.at = "idle" => x.todo = {}
  BY <1>2, NothingYet
<1> HIDE DEF x
<1>4. e'[r] = x /\ \A q \in Repos \ {r} : e'[q] = e[q]
  BY <1>1
<1>5. RunFits(r, e[r])'
  BY <1>3, <1>4 DEF RunFits, Active
<1> QED BY <1>1, <1>3, <1>4, <1>5 DEF Active

LEMMA QueueShape ==
  ASSUME Shape, NEW r \in Repos, Queue(r)
  PROVE  Shape'
<1>0. /\ chan \in [Repos -> Seq(SUBSET Files)] /\ chan[r] \in Seq(SUBSET Files)
      /\ acc \in [Repos -> SUBSET Files] /\ armed \in [Repos -> BOOLEAN]
      /\ e \in [Repos -> EnrichRun] /\ QueueFits(r) /\ Len(chan[r]) <= Buffer
      /\ \A q \in Repos : armed[q] <=> acc[q] # {}
  BY DEF Shape, TypeOK
<1>1. CASE Receive(r)
  <2> DEFINE h == Head(chan[r])
             t == Tail(chan[r])
  <2>1. /\ e[r].at = "idle" /\ chan[r] # <<>> /\ acc' = [acc EXCEPT ![r] = @ \cup h]
        /\ chan' = [chan EXCEPT ![r] = t] /\ armed' = [armed EXCEPT ![r] = TRUE]
        /\ UNCHANGED <<repository, store, e, reqs, proc, missed, forced, stops>>
    BY <1>1 DEF Receive
  <2>2. /\ h \in SUBSET Files /\ t \in Seq(SUBSET Files) /\ Len(t) = Len(chan[r]) - 1
        /\ UNION ToSet(chan[r]) = h \cup UNION ToSet(t)
        /\ h # {} /\ \A i \in 1 .. Len(chan[r]) - 1 : t[i] # {}
    <3>1. \A i \in 1 .. Len(chan[r]) : chan[r][i] # {}
      BY <1>0 DEF QueueFits
    <3> QED BY <1>0, <2>1, <3>1, ChannelShrinks
  <2> HIDE DEF h, t
  <2>3. /\ chan' \in [Repos -> Seq(SUBSET Files)] /\ acc' \in [Repos -> SUBSET Files]
        /\ armed' \in [Repos -> BOOLEAN]
    BY <1>0, <2>1, <2>2
  <2>4. /\ chan'[r] = t /\ acc'[r] = acc[r] \cup h /\ armed'[r] = TRUE
        /\ \A q \in Repos \ {r} : chan'[q] = chan[q] /\ acc'[q] = acc[q]
                                   /\ armed'[q] = armed[q]
    BY <1>0, <2>1
  <2>5. QueueFits(r)' /\ Len(chan'[r]) <= Buffer
    <3>1. Len(chan[r]) \in Nat /\ Len(t) <= Buffer
      BY <1>0, <2>2
    <3>2. /\ acc'[r] \subseteq FilesOf(r) /\ UNION ToSet(chan'[r]) \subseteq FilesOf(r)
          /\ \A i \in 1 .. Len(chan'[r]) : chan'[r][i] # {}
      BY <1>0, <2>2, <2>4 DEF QueueFits
    <3> QED BY <2>4, <3>1, <3>2 DEF QueueFits
  <2>6. \A q \in Repos : QueueFits(q)' /\ Len(chan'[q]) <= Buffer
                         /\ (armed'[q] <=> acc'[q] # {})
    <3>1. \A q \in Repos \ {r} : QueueFits(q)' /\ Len(chan'[q]) <= Buffer
                                 /\ (armed'[q] <=> acc'[q] # {})
      <4> TAKE q \in Repos \ {r}
      <4>1. QueueFits(q) /\ Len(chan[q]) <= Buffer /\ (armed[q] <=> acc[q] # {})
        BY DEF Shape, TypeOK
      <4>2. chan'[q] = chan[q] /\ acc'[q] = acc[q] /\ armed'[q] = armed[q]
        BY <2>4
      <4> QED BY <4>1, <4>2 DEF QueueFits
    <3>2. armed'[r] <=> acc'[r] # {}
      BY <2>2, <2>4
    <3> QED BY <2>5, <3>1, <3>2
  <2>7. \A q \in Repos : WatcherFits(q, w[q])' /\ RunFits(q, e[q])'
    BY <2>1 DEF Shape, WatcherFits, Extracting, RunFits, Active, repository
  <2>8. ProcFits'
    BY <2>1 DEF Shape, ProcFits
  <2> QED BY <2>1, <2>3, <2>6, <2>7, <2>8 DEF Shape, TypeOK, repository, store
<1>2. CASE Fire(r)
  <2> DEFINE known == {s \in SymsIn(acc[r]) : db[r].hash[FileOf[s]] # 0}
             found == IF Readable(r) THEN known ELSE {}
             batch == Capped(found, MaxBatch)
             x     == [NoRun EXCEPT !.todo = batch]
  <2>1. /\ Running /\ e[r].at = "idle" /\ armed[r] /\ acc' = [acc EXCEPT ![r] = {}]
        /\ armed' = [armed EXCEPT ![r] = FALSE] /\ Go(r, x)
        /\ missed' = missed \cup (SymsIn(acc[r]) \ batch)
        /\ UNCHANGED <<repository, store, chan, reqs, proc, forced, stops>>
    BY <1>2 DEF Fire
  <2>2. batch \subseteq SymsOf(r) /\ batch \in SUBSET Syms
    BY <1>0, SymsOfRepo DEF Capped, QueueFits, SymsOf, SymsIn
  <2> HIDE DEF batch
  <2>3. x \in EnrichRun /\ x.todo = batch /\ x.cur = 0
    BY <2>2, RunBegins
  <2> HIDE DEF x
  <2>4. /\ e' = [e EXCEPT ![r] = e'[r]] /\ e'[r] \in EnrichRun /\ RunFits(r, e[r])'
    BY <2>1, <2>2, <2>3, GoFits
  <2>5. e' \in [Repos -> EnrichRun] /\ \A q \in Repos : RunFits(q, e[q])'
    BY <2>1, <2>4, RunsFit
  <2>6. acc' \in [Repos -> SUBSET Files] /\ armed' \in [Repos -> BOOLEAN]
    BY <1>0, <2>1
  <2>7. \A q \in Repos : QueueFits(q)' /\ (armed'[q] <=> acc'[q] # {})
    BY <1>0, <2>1 DEF Shape, QueueFits
  <2>8. \A q \in Repos : WatcherFits(q, w[q])'
    BY <2>1 DEF Shape, WatcherFits, Extracting, repository
  <2>9. ProcFits' /\ missed' \subseteq Syms
    BY <2>1, SymsOfRepo DEF Shape, TypeOK, ProcFits, Running, SymsIn
  <2> QED BY <2>1, <2>5, <2>6, <2>7, <2>8, <2>9 DEF Shape, TypeOK, repository, store
<1> QED BY <1>1, <1>2 DEF Queue

LEMMA SeenTyped ==
  ASSUME Shape, NEW r \in Repos
  PROVE  /\ Seen(r) \in Database /\ db[r] \in Database /\ view[r] \in Database
         /\ \A s \in Syms : Seen(r).hash[FileOf[s]] \in Nat
<1>1. db[r] \in Database /\ view[r] \in Database
  BY DEF Shape, TypeOK
<1>2. Seen(r) \in Database
  BY <1>1 DEF Seen
<1>3. \A s \in Syms : FileOf[s] \in Files
  BY SymsOfRepo
<1>4. \A d \in Database : \A f \in Files : d.hash[f] \in Nat
  BY DEF Database, Tree
<1> QED BY <1>1, <1>2, <1>3, <1>4

\* What a run does with its next symbol: it is over, skips it or takes it in hand.
LEMMA TakeCases ==
  ASSUME Shape, NEW r \in Repos, Take(r)
  PROVE  \E s \in e[r].todo, v \in Nat :
           /\ s \in SymsOf(r) /\ s \in Syms /\ e[r].at = "next" /\ e[r].cur = 0
           /\ forced \subseteq forced' /\ forced' \subseteq Syms
           /\ UNCHANGED <<repository, store, queue, reqs, proc, stops>>
           /\ e' = [e EXCEPT ![r] = e'[r]] /\ e'[r] \in EnrichRun /\ RunFits(r, e[r])'
           /\ \A q \in Repos \ {r} : e'[q] = e[q]
           /\ \/ ~Active(e'[r]) /\ missed' = missed \cup e[r].todo
              \/ /\ ~Active(e'[r]) /\ e'[r].todo = e[r].todo \ {s} /\ missed' = missed \ {s}
                 /\ v = Seen(r).hash[FileOf[s]]
                 /\ v \in Seen(r).claims[s] \cup Seen(r).perm[s] /\ Readable(r)
              \/ /\ Active(e'[r]) /\ e'[r].todo = e[r].todo \ {s} /\ missed' = missed \ {s}
                 /\ e'[r].cur = s /\ e'[r].ver = v /\ ~e'[r].got /\ ~e'[r].ok
                 /\ v \in {0, Seen(r).hash[FileOf[s]]}
                 /\ s \notin forced' /\ v # 0 =>
                      v \notin Seen(r).claims[s] /\ v \notin Seen(r).perm[s]
<1>0. /\ e \in [Repos -> EnrichRun] /\ e[r] \in EnrichRun /\ RunFits(r, e[r])
      /\ missed \subseteq Syms /\ forced \subseteq Syms /\ SymsOf(r) \subseteq Syms
  BY SymsOfRepo DEF Shape, TypeOK
<1>1. PICK s \in e[r].todo, v \in Nat :
        /\ e[r].at = "next" /\ v = IF Readable(r) THEN Seen(r).hash[FileOf[s]] ELSE 0
        /\ \/ e' = [e EXCEPT ![r] = NoRun] /\ missed' = missed \cup e[r].todo
           \/ /\ missed' = missed \ {s} /\ Readable(r)
              /\ ~e[r].force /\ IsCacheHit(Seen(r), s, v)
              /\ Go(r, [e[r] EXCEPT !.todo = e[r].todo \ {s}])
           \/ /\ missed' = missed \ {s}
              /\ ~(Readable(r) /\ ~e[r].force /\ IsCacheHit(Seen(r), s, v))
              /\ e' = [e EXCEPT ![r] = InHand(e[r], s, v)]
        /\ forced' = IF e[r].force THEN forced \cup {s} ELSE forced
        /\ UNCHANGED <<repository, store, queue, reqs, proc, stops>>
  <2>1. \A s \in e[r].todo :
          (IF Readable(r) THEN Seen(r).hash[FileOf[s]] ELSE 0) \in Nat
    BY <1>0, SeenTyped DEF RunFits
  <2> QED BY <2>1 DEF Take
<1> DEFINE x == [e[r] EXCEPT !.todo = e[r].todo \ {s}]
           u == InHand(e[r], s, v)
<1>2. s \in SymsOf(r) /\ s \in Syms /\ e[r].todo \subseteq Syms /\ e[r].cur = 0
  BY <1>0, <1>1 DEF RunFits, Active
<1>3. forced \subseteq forced' /\ forced' \subseteq Syms /\ (e[r].force => s \in forced')
  BY <1>0, <1>1, <1>2
<1>4. CASE e' = [e EXCEPT ![r] = NoRun] /\ missed' = missed \cup e[r].todo
  <2>1. /\ e' = [e EXCEPT ![r] = e'[r]] /\ e'[r] = NoRun
        /\ \A q \in Repos \ {r} : e'[q] = e[q]
    BY <1>0, <1>4
  <2>2. e'[r] \in EnrichRun /\ ~Active(e'[r]) /\ RunFits(r, e[r])'
    BY <2>1, NothingYet DEF RunFits, Active
  <2> QED BY <1>1, <1>2, <1>3, <1>4, <2>1, <2>2
<1>5. CASE /\ missed' = missed \ {s} /\ Readable(r)
           /\ ~e[r].force /\ IsCacheHit(Seen(r), s, v) /\ Go(r, x)
  <2>1. x \in EnrichRun /\ x.todo = e[r].todo \ {s} /\ x.cur = e[r].cur
    BY <1>0, RunSkips
  <2> HIDE DEF x
  <2>2. x.cur = 0 /\ x.todo \subseteq SymsOf(r)
    BY <1>0, <1>2, <2>1 DEF RunFits
  <2>3. /\ e' = [e EXCEPT ![r] = e'[r]] /\ e'[r] \in EnrichRun /\ RunFits(r, e[r])'
        /\ e'[r].todo = x.todo /\ ~Active(e'[r])
        /\ \A q \in Repos \ {r} : e'[q] = e[q]
    BY <1>5, <2>1, <2>2, GoFits
  <2>4. v = Seen(r).hash[FileOf[s]] /\ v \in Seen(r).claims[s] \cup Seen(r).perm[s]
    BY <1>1, <1>5 DEF IsCacheHit
  <2> QED BY <1>1, <1>2, <1>3, <1>5, <2>1, <2>3, <2>4
<1>6. CASE /\ missed' = missed \ {s} /\ e' = [e EXCEPT ![r] = u]
           /\ ~(Readable(r) /\ ~e[r].force /\ IsCacheHit(Seen(r), s, v))
  <2>1. /\ u \in EnrichRun /\ u.at = "ask" /\ u.todo = e[r].todo \ {s}
        /\ u.cur = s /\ u.ver = v /\ u.left = Predicates /\ ~u.got /\ ~u.ok
        /\ u.force = e[r].force
    <3>1. e[r] \in EnrichRun /\ s \in Syms /\ v \in Nat
      BY <1>0, <1>2
    <3> QED BY ONLY <3>1, RunTakes
  <2> HIDE DEF u
  <2>2. /\ e' = [e EXCEPT ![r] = e'[r]] /\ e'[r] = u /\ Predicates > 0
        /\ \A q \in Repos \ {r} : e'[q] = e[q]
    BY <1>0, <1>6
  <2>3. RunFits(r, e[r])' /\ Active(e'[r])
    BY <1>0, <1>2, <1>3, <2>1, <2>2 DEF RunFits, Active
  <2>4. v \in {0, Seen(r).hash[FileOf[s]]}
    BY <1>1
  <2>5. s \notin forced' /\ v # 0 => v \notin Seen(r).claims[s] /\ v \notin Seen(r).perm[s]
    BY <1>1, <1>3, <1>6 DEF IsCacheHit
  <2> QED BY <1>1, <1>2, <1>3, <1>6, <2>1, <2>2, <2>3, <2>4, <2>5
<1> QED BY <1>1, <1>4, <1>5, <1>6

LEMMA TakeShape ==
  ASSUME Shape, NEW r \in Repos, Take(r)
  PROVE  Shape'
<1>0. missed \subseteq Syms /\ e[r].todo \subseteq Syms
  BY DEF Shape, TypeOK, EnrichRun
<1>1. /\ e' = [e EXCEPT ![r] = e'[r]] /\ e'[r] \in EnrichRun /\ RunFits(r, e[r])'
      /\ forced \subseteq forced' /\ forced' \subseteq Syms
      /\ UNCHANGED <<repository, store, queue, reqs, proc, stops>>
      /\ missed' \subseteq missed \cup Syms /\ e[r].at = "next"
  <2>1. PICK s \in e[r].todo, v \in Nat :
          /\ e[r].at = "next" /\ forced \subseteq forced' /\ forced' \subseteq Syms
          /\ UNCHANGED <<repository, store, queue, reqs, proc, stops>>
          /\ e' = [e EXCEPT ![r] = e'[r]] /\ e'[r] \in EnrichRun /\ RunFits(r, e[r])'
          /\ missed' = missed \cup e[r].todo \/ missed' = missed \ {s}
    BY TakeCases
  <2> QED BY <1>0, <2>1
<1>2. proc # "off" /\ missed' \subseteq Syms
  BY <1>1 DEF Shape, ProcFits, TypeOK
<1> QED BY <1>1, <1>2, RunStep DEF Shape, TypeOK, store

LEMMA AskShape ==
  ASSUME Shape, NEW r \in Repos, Ask(r)
  PROVE  Shape'
<1>0. /\ e \in [Repos -> EnrichRun] /\ e[r] \in EnrichRun /\ RunFits(r, e[r])
      /\ reqs \in Seq(Repos \X Syms \X (1 .. Predicates)) /\ SymsOf(r) \subseteq Syms
  BY SymsOfRepo DEF Shape, TypeOK
<1> DEFINE x == [e[r] EXCEPT !.at = "wait",
                   !.calls = IF e[r].budget > 0 THEN e[r].calls + 1 ELSE e[r].calls]
           q == <<r, e[r].cur, e[r].left>>
<1>1. /\ e[r].at = "ask" /\ Len(reqs) < Pending /\ reqs' = Append(reqs, q)
      /\ UNCHANGED <<repository, store, queue, proc, missed, forced, stops>>
  BY DEF Ask
<1>2. e' = [e EXCEPT ![r] = x]
  BY <1>0 DEF Ask
<1>3. /\ x \in EnrichRun /\ x.at = "wait" /\ x.todo = e[r].todo /\ x.cur = e[r].cur
      /\ x.left = e[r].left /\ x.force = e[r].force
  BY <1>0, RunWaits
<1> HIDE DEF x
<1>4. e'[r] = x /\ e' = [e EXCEPT ![r] = e'[r]]
  BY <1>0, <1>2
<1>5. RunFits(r, e[r])'
  BY <1>0, <1>1, <1>3, <1>4 DEF RunFits, Active
<1>6. q \in Repos \X Syms \X (1 .. Predicates)
  BY <1>0, <1>1 DEF RunFits, Active, EnrichRun
<1> HIDE DEF q
<1>7. reqs' \in Seq(Repos \X Syms \X (1 .. Predicates)) /\ Len(reqs') <= Pending
  BY <1>0, <1>1, <1>6
<1>8. proc # "off"
  BY <1>1 DEF Shape, ProcFits
<1> QED BY <1>1, <1>3, <1>4, <1>5, <1>7, <1>8, RunStep DEF Shape, TypeOK, store

\* A call that ended, however it did, leaves the run in shape.
LEMMA AskedFits ==
  ASSUME Shape, NEW r \in Repos, e[r].at \in {"ask", "wait"}, forced' = forced,
         \/ e' = [e EXCEPT ![r] = Asked(e[r])]
         \/ e' = [e EXCEPT ![r] = [Asked(e[r]) EXCEPT !.ok = TRUE]]
         \/ e' = [e EXCEPT ![r] = [Asked(e[r]) EXCEPT !.ok = TRUE, !.got = TRUE]]
  PROVE  /\ e' = [e EXCEPT ![r] = e'[r]] /\ e'[r] \in EnrichRun /\ RunFits(r, e[r])'
         /\ e'[r].at \in {"ask", "close"} /\ e'[r].todo = e[r].todo
         /\ e'[r].cur = e[r].cur /\ e'[r].ver = e[r].ver
         /\ e'[r].force = e[r].force /\ Active(e'[r]) /\ Active(e[r])
         /\ (e' = [e EXCEPT ![r] = Asked(e[r])] =>
               e'[r].ok = e[r].ok /\ e'[r].got = e[r].got)
         /\ (e' = [e EXCEPT ![r] = [Asked(e[r]) EXCEPT !.ok = TRUE]] =>
               e'[r].ok /\ e'[r].got = e[r].got)
         /\ (e' = [e EXCEPT ![r] = [Asked(e[r]) EXCEPT !.ok = TRUE, !.got = TRUE]] =>
               e'[r].ok /\ e'[r].got)
         /\ \A q \in Repos \ {r} : e'[q] = e[q]
<1>0. e \in [Repos -> EnrichRun] /\ e[r] \in EnrichRun /\ RunFits(r, e[r])
  BY DEF Shape, TypeOK
<1> DEFINE a == Asked(e[r])
           b == [a EXCEPT !.ok = TRUE]
           c == [a EXCEPT !.ok = TRUE, !.got = TRUE]
<1>1. /\ a \in EnrichRun /\ a.at \in {"ask", "close"} /\ a.todo = e[r].todo
      /\ (a.at = "ask" => a.left > 0)
      /\ a.cur = e[r].cur /\ a.ver = e[r].ver /\ a.force = e[r].force
      /\ a.ok = e[r].ok /\ a.got = e[r].got
  BY <1>0, RunAsked DEF RunFits
<1> HIDE DEF a
<1>2. /\ b \in EnrichRun /\ b.at = a.at /\ b.todo = a.todo /\ b.left = a.left
      /\ b.cur = a.cur /\ b.ver = a.ver /\ b.force = a.force /\ b.ok /\ b.got = a.got
      /\ c \in EnrichRun /\ c.at = a.at /\ c.todo = a.todo /\ c.left = a.left
      /\ c.cur = a.cur /\ c.ver = a.ver /\ c.force = a.force /\ c.ok /\ c.got
  BY <1>1, RunAnswered
<1> HIDE DEF b, c
<1>3. e' \in {[e EXCEPT ![r] = a], [e EXCEPT ![r] = b], [e EXCEPT ![r] = c]}
  BY DEF a, b, c
<1>4. /\ e'[r] \in {a, b, c} /\ e' = [e EXCEPT ![r] = e'[r]]
      /\ \A q \in Repos \ {r} : e'[q] = e[q]
  BY <1>0, <1>3
<1>5. /\ e'[r] \in EnrichRun /\ e'[r].at \in {"ask", "close"} /\ e'[r].todo = e[r].todo
      /\ (e'[r].at = "ask" => e'[r].left > 0)
      /\ e'[r].cur = e[r].cur /\ e'[r].ver = e[r].ver /\ e'[r].force = e[r].force
  BY <1>1, <1>2, <1>4
<1>6. RunFits(r, e[r])'
  BY <1>0, <1>5 DEF RunFits, Active
<1>7. /\ (e' = [e EXCEPT ![r] = a] => e'[r].ok = e[r].ok /\ e'[r].got = e[r].got)
      /\ (e' = [e EXCEPT ![r] = b] => e'[r].ok /\ e'[r].got = e[r].got)
      /\ (e' = [e EXCEPT ![r] = c] => e'[r].ok /\ e'[r].got)
  BY <1>0, <1>1, <1>2
<1> QED BY <1>4, <1>5, <1>6, <1>7 DEF Active, a, b, c

LEMMA AbandonShape ==
  ASSUME Shape, NEW r \in Repos, Abandon(r)
  PROVE  Shape'
<1>1. /\ Cancelled /\ e[r].at \in {"ask", "wait"} /\ e' = [e EXCEPT ![r] = Asked(e[r])]
      /\ UNCHANGED <<repository, store, queue, reqs, proc, missed, forced, stops>>
  BY DEF Abandon, Shape, TypeOK
<1>2. e' = [e EXCEPT ![r] = e'[r]] /\ e'[r] \in EnrichRun /\ RunFits(r, e[r])'
  BY <1>1, AskedFits
<1>3. proc # "off"
  BY <1>1 DEF Cancelled
<1> QED BY <1>1, <1>2, <1>3, RunStep DEF Shape, TypeOK, store

\* A write through ClaimsDB.exec reaches what the next read sees.
LEMMA Wrote ==
  ASSUME Shape, NEW r \in Repos, NEW d \in Database, Write(r, d), w' = w
  PROVE  /\ db' \in [Repos -> Database] /\ view' \in [Repos -> Database]
         /\ Seen(r)' = d
         /\ w[r].at = "tx" => db' = db
         /\ \A q \in Repos \ {r} : db'[q] = db[q] /\ view'[q] = view[q]
BY ZenonT(80) DEF Shape, TypeOK, Write, Seen

\* The worker's turn: the request at the head of its channel.
LEMMA ServedShape ==
  ASSUME Shape, Served
  PROVE  /\ reqs' \in Seq(Repos \X Syms \X (1 .. Predicates)) /\ Len(reqs') <= Pending
         /\ reqs[1][1] \in Repos
<1> DEFINE T == Repos \X Syms \X (1 .. Predicates)
<1>1. reqs \in Seq(T) /\ Len(reqs) <= Pending /\ reqs # <<>> /\ reqs' = Tail(reqs)
  BY DEF Shape, TypeOK, Served
<1>2. reqs[1] \in T
  <2> HIDE DEF T
  <2> QED BY <1>1
<1>3. Tail(reqs) \in Seq(T) /\ Len(Tail(reqs)) <= Pending
  <2> HIDE DEF T
  <2>1. Len(reqs) \in Nat /\ Len(reqs) # 0 /\ Len(Tail(reqs)) = Len(reqs) - 1
        /\ Tail(reqs) \in Seq(T)
    BY <1>1
  <2> QED BY <1>1, <2>1
<1> QED BY <1>1, <1>2, <1>3

\* What an answer does: a claim, a failed write or nothing, and the call is over.
LEMMA AnswerCases ==
  ASSUME Shape, NEW r \in Repos, e[r].at = "wait", Stored(r) \/ Vague(r),
         UNCHANGED <<w, forced>>
  PROVE  /\ \/ /\ Readable(r) /\ Active(e[r])
               /\ Write(r, [Seen(r) EXCEPT !.claims[e[r].cur] =
                              Seen(r).claims[e[r].cur] \cup {e[r].ver}])
               /\ e' = [e EXCEPT ![r] = [Asked(e[r]) EXCEPT !.ok = TRUE, !.got = TRUE]]
               /\ missed' = IF e[r].ver = 0 THEN missed \cup {e[r].cur} ELSE missed
            \/ /\ UNCHANGED store /\ missed' = missed \cup {e[r].cur}
               /\ e' = [e EXCEPT ![r] = [Asked(e[r]) EXCEPT !.ok = TRUE]]
         /\ e[r].cur \in SymsOf(r) /\ e[r].cur \in Syms /\ e[r].ver \in Nat
<1>1. e[r] \in EnrichRun /\ RunFits(r, e[r]) /\ Active(e[r])
  BY DEF Shape, TypeOK, Active
<1>2. e[r].cur \in SymsOf(r) /\ e[r].cur \in Syms /\ e[r].ver \in Nat
  BY <1>1, SymsOfRepo DEF RunFits, EnrichRun
<1>3. CASE Stored(r)
  BY <1>1, <1>2, <1>3, SeenTyped DEF Stored, Database
<1>4. CASE Vague(r)
  BY <1>2, <1>4 DEF Vague, Shape, TypeOK
<1> QED BY <1>2, <1>3, <1>4

\* The run an answer is for.
LEMMA WorkerCases ==
  ASSUME Shape, Worker
  PROVE  /\ reqs' \in Seq(Repos \X Syms \X (1 .. Predicates)) /\ Len(reqs') <= Pending
         /\ UNCHANGED <<repository, queue, proc, forced, stops, w>>
         /\ \/ UNCHANGED <<e, store, missed>>
            \/ \E r \in Repos :
                 \/ e[r].at = "wait" /\ (Stored(r) \/ Vague(r))
                 \/ /\ e[r].at = "wait" /\ e' = [e EXCEPT ![r] = Asked(e[r])]
                    /\ UNCHANGED <<store, missed>>
<1>1. e \in [Repos -> EnrichRun]
  BY DEF Shape, TypeOK
<1>2. Served
  BY DEF Worker, Answer, Error
<1>3. PICK r \in Repos : r = reqs[1][1]
  BY <1>2, ServedShape
<1>4. CASE Answer
  BY <1>2, <1>3, <1>4, ServedShape DEF Answer, Waiting, repository
<1>5. CASE Error
  BY <1>1, <1>2, <1>3, <1>5, ServedShape DEF Error, Waiting, repository, store
<1> QED BY <1>4, <1>5 DEF Worker

LEMMA WorkerShape ==
  ASSUME Shape, Worker
  PROVE  Shape'
<1>1. /\ reqs' \in Seq(Repos \X Syms \X (1 .. Predicates)) /\ Len(reqs') <= Pending
      /\ UNCHANGED <<repository, queue, proc, forced, stops, w>>
  BY WorkerCases
<1>3. /\ \A q \in Repos : WatcherFits(q, w[q])' /\ QueueFits(q)'
  BY <1>1 DEF Shape, WatcherFits, QueueFits, Extracting, repository, queue
<1>2. CASE UNCHANGED <<e, store, missed>>
  <2>1. \A q \in Repos : RunFits(q, e[q])'
    BY <1>1, <1>2 DEF Shape, RunFits, Active
  <2>2. ProcFits'
    BY <1>1, <1>2 DEF Shape, ProcFits
  <2> QED BY <1>1, <1>2, <1>3, <2>1, <2>2
          DEF Shape, TypeOK, repository, queue, store
<1>4. ASSUME NEW r \in Repos, e[r].at = "wait", UNCHANGED <<store, missed>>,
             e' = [e EXCEPT ![r] = Asked(e[r])]
      PROVE  Shape'
  <2>1. e' = [e EXCEPT ![r] = e'[r]] /\ e'[r] \in EnrichRun /\ RunFits(r, e[r])'
    BY <1>1, <1>4, AskedFits
  <2>2. proc # "off"
    BY <1>4 DEF Shape, ProcFits
  <2> QED BY <1>1, <1>4, <2>1, <2>2, RunStep DEF Shape, TypeOK, store
<1>5. ASSUME NEW r \in Repos, e[r].at = "wait", Stored(r) \/ Vague(r)
      PROVE  Shape'
  <2>1. proc # "off"
    BY <1>5 DEF Shape, ProcFits
  <2>2. e' = [e EXCEPT ![r] = e'[r]] /\ e'[r] \in EnrichRun /\ RunFits(r, e[r])'
    BY <1>1, <1>5, AnswerCases, AskedFits
  <2>3. missed' \subseteq Syms
    BY <1>1, <1>5, AnswerCases DEF Shape, TypeOK
  <2>4. db' \in [Repos -> Database] /\ view' \in [Repos -> Database]
    <3>1. PICK s \in Syms, v \in Nat : s = e[r].cur /\ v = e[r].ver
      BY <1>1, <1>5, AnswerCases
    <3> DEFINE d == [Seen(r) EXCEPT !.claims[s] = Seen(r).claims[s] \cup {v}]
    <3>2. Write(r, d) \/ UNCHANGED store
      BY <1>1, <1>5, <3>1, AnswerCases
    <3>3. d \in Database
      BY SeenTyped, ClaimWrites
    <3> HIDE DEF d
    <3>4. CASE Write(r, d)
      BY <1>1, <3>3, <3>4, Wrote
    <3>5. CASE UNCHANGED store
      BY <3>5 DEF Shape, TypeOK, store
    <3> QED BY <3>2, <3>4, <3>5
  <2> QED BY <1>1, <2>1, <2>2, <2>3, <2>4, RunStep DEF Shape, TypeOK
<1> QED BY <1>2, <1>4, <1>5, WorkerCases

\* How a run puts its symbol away: its tombstones are deleted, unless the
\* transaction locks them; one is added, unless the database cannot be read;
\* or nothing is written.
LEMMA CloseCases ==
  ASSUME Shape, NEW r \in Repos, Close(r), NEW s \in Syms, s = e[r].cur
  PROVE  /\ db' \in [Repos -> Database] /\ view' \in [Repos -> Database]
         /\ missed \subseteq missed' /\ missed' \subseteq missed \cup {s}
         /\ w[r].at = "tx" => db' = db
         /\ \A q \in Repos \ {r} : db'[q] = db[q] /\ view'[q] = view[q]
         /\ Seen(r)'.hash = Seen(r).hash /\ Seen(r)'.claims = Seen(r).claims
         /\ \A t \in Syms \ {s} : /\ Seen(r)'.fails[t] = Seen(r).fails[t]
                                  /\ Seen(r)'.perm[t] = Seen(r).perm[t]
         /\ w[r].at = "tx" => Seen(r).perm[s] \subseteq Seen(r)'.perm[s]
         /\ \/ e[r].got /\ Seen(r)'.perm[s] \subseteq Seen(r).perm[s]
            \/ /\ ~e[r].got /\ ~e[r].ok
               /\ Seen(r)'.perm[s] \subseteq Seen(r).perm[s] \cup {e[r].ver}
               /\ \/ s \in missed'
                  \/ Seen(r)'.fails[s] > 0
                  \/ e[r].ver # 0 /\ e[r].ver \in Seen(r)'.perm[s]
            \/ /\ ~e[r].got /\ e[r].ok
               /\ Seen(r)'.fails[s] = Seen(r).fails[s] /\ Seen(r)'.perm[s] = Seen(r).perm[s]
<1> DEFINE d == Seen(r)
           v == e[r].ver
<1>0. /\ e[r] \in EnrichRun /\ v \in Nat /\ d \in Database /\ d.fails[s] \in 0 .. MaxFailures - 1
      /\ db \in [Repos -> Database] /\ view \in [Repos -> Database] /\ db[r] \in Database
      /\ missed \subseteq Syms /\ w' = w
  <2>1. e[r] \in EnrichRun /\ d \in Database
    BY SeenTyped DEF Shape, TypeOK
  <2>2. v \in Nat
    BY <2>1 DEF EnrichRun
  <2>3. d.fails[s] \in 0 .. MaxFailures - 1
    BY <2>1 DEF Database
  <2> HIDE DEF d, v
  <2> QED BY <2>1, <2>2, <2>3 DEF Shape, TypeOK, Close, repository
<1>1. \/ e[r].got /\ RemoveTombstones(r, db[r], s)
      \/ ~e[r].got /\ ~e[r].ok /\ Escalate(r, s, v)
      \/ ~e[r].got /\ e[r].ok /\ UNCHANGED <<store, missed>>
  BY DEF Close
<1>2. CASE e[r].got /\ RemoveTombstones(r, db[r], s)
  <2>1. UNCHANGED <<view, missed>>
    BY <1>2 DEF RemoveTombstones
  <2>2. CASE w[r].at = "tx"
    <3>1. db' = db
      BY <1>2, <2>2 DEF RemoveTombstones
    <3>2. Seen(r)' = Seen(r)
      BY <1>0, <2>1, <3>1 DEF Seen
    <3> QED BY <1>0, <1>2, <2>1, <3>1, <3>2
  <2>3. CASE w[r].at # "tx"
    <3> DEFINE z == [db[r] EXCEPT !.fails[s] = 0, !.perm[s] = {}]
    <3>1. db' = [db EXCEPT ![r].fails[s] = 0, ![r].perm[s] = {}]
      BY <1>2, <2>3 DEF RemoveTombstones
    <3>2. db' = [db EXCEPT ![r] = z]
      BY <1>0, <3>1
    <3>3. /\ z \in Database /\ z.hash = db[r].hash /\ z.claims = db[r].claims
          /\ z.fails = [db[r].fails EXCEPT ![s] = 0]
          /\ z.perm = [db[r].perm EXCEPT ![s] = {}]
      BY ZenonT(80), <1>0, TombstoneDeletes
    <3> HIDE DEF z
    <3>4. /\ db' \in [Repos -> Database] /\ db'[r] = z
          /\ \A q \in Repos \ {r} : db'[q] = db[q]
      BY <1>0, <3>2, <3>3
    <3>5. Seen(r) = db[r] /\ Seen(r)' = z
      BY <1>0, <2>3, <3>4 DEF Seen
    <3>6. /\ \A t \in Syms \ {s} : z.fails[t] = db[r].fails[t] /\ z.perm[t] = db[r].perm[t]
          /\ z.perm[s] \subseteq db[r].perm[s]
      BY <1>0, <3>3 DEF Database
    <3> QED BY ZenonT(80), <1>0, <1>2, <2>1, <2>3, <3>3, <3>4, <3>5, <3>6
  <2> QED BY <2>2, <2>3
<1>3. CASE ~e[r].got /\ ~e[r].ok /\ Escalate(r, s, v)
  <2>1. CASE ~Readable(r)
    <3>1. missed' = missed \cup {s} /\ UNCHANGED store
      BY <1>3, <2>1 DEF Escalate
    <3>2. Seen(r)' = Seen(r)
      BY <1>0, <3>1 DEF Seen, store
    <3> QED BY <1>0, <1>3, <3>1, <3>2 DEF store
  <2>2. CASE Readable(r)
    <3> DEFINE n == d.fails[s]
               x == [d EXCEPT !.fails[s] = n + 1]
               k == IF w[r].at = "tx" THEN n ELSE 0
               z == [d EXCEPT !.perm[s] = d.perm[s] \cup {v}, !.fails[s] = k]
    <3>1. /\ (n + 1 >= MaxFailures => Write(r, z))
          /\ (~(n + 1 >= MaxFailures) => Write(r, x))
          /\ missed' = IF n + 1 >= MaxFailures /\ v = 0 THEN missed \cup {s} ELSE missed
      BY <1>0, <1>3, <2>2 DEF Escalate
    <3>2. k \in 0 .. MaxFailures - 1
      BY <1>0
    <3> HIDE DEF k
    <3>3. /\ z \in Database /\ z.hash = d.hash /\ z.claims = d.claims
          /\ z.fails = [d.fails EXCEPT ![s] = k]
          /\ z.perm = [d.perm EXCEPT ![s] = d.perm[s] \cup {v}]
      <4>1. d \in Database /\ v \in Nat /\ k \in 0 .. MaxFailures - 1
        BY <1>0, <3>2
      <4> HIDE DEF d, v
      <4> QED BY <4>1 DEF Database
    <3>4. CASE n + 1 >= MaxFailures
      <4>1. /\ db' \in [Repos -> Database] /\ view' \in [Repos -> Database]
            /\ Seen(r)' = z /\ (w[r].at = "tx" => db' = db)
            /\ \A q \in Repos \ {r} : db'[q] = db[q] /\ view'[q] = view[q]
        <5> HIDE DEF z
        <5> QED BY <1>0, <3>1, <3>3, <3>4, Wrote
      <4> HIDE DEF z
      <4>2. /\ \A t \in Syms \ {s} : z.fails[t] = d.fails[t] /\ z.perm[t] = d.perm[t]
            /\ z.perm[s] = d.perm[s] \cup {v}
        BY <1>0, <3>3 DEF Database
      <4>3. s \in missed' \/ v # 0
        BY <3>1, <3>4
      <4> QED BY <1>0, <1>3, <3>1, <3>3, <4>1, <4>2, <4>3
    <3>5. CASE ~(n + 1 >= MaxFailures)
      <4>1. n + 1 \in 0 .. MaxFailures - 1 /\ n + 1 > 0
        BY <1>0, <3>5
      <4>2. /\ x \in Database /\ x.hash = d.hash /\ x.claims = d.claims /\ x.perm = d.perm
            /\ x.fails = [d.fails EXCEPT ![s] = n + 1]
        <5>1. d \in Database
          BY <1>0
        <5>2. PICK m \in 0 .. MaxFailures - 1 : m = n + 1
          BY <4>1
        <5> HIDE DEF d, n
        <5>3. x = [d EXCEPT !.fails[s] = m]
          BY <5>2
        <5> HIDE DEF x
        <5> QED BY <5>1, <5>2, <5>3, FailureWrites
      <4> HIDE DEF x, z
      <4>3. /\ db' \in [Repos -> Database] /\ view' \in [Repos -> Database]
            /\ Seen(r)' = x /\ (w[r].at = "tx" => db' = db)
            /\ \A q \in Repos \ {r} : db'[q] = db[q] /\ view'[q] = view[q]
        BY <1>0, <3>1, <3>5, <4>2, Wrote
      <4>4. x.fails[s] > 0 /\ \A t \in Syms \ {s} : x.fails[t] = d.fails[t]
        BY <1>0, <4>1, <4>2 DEF Database
      <4> QED BY <1>0, <1>3, <3>1, <3>5, <4>2, <4>3, <4>4
    <3> QED BY <3>4, <3>5
  <2> QED BY <2>1, <2>2
<1>4. CASE ~e[r].got /\ e[r].ok /\ UNCHANGED <<store, missed>>
  <2>1. Seen(r)' = Seen(r)
    BY <1>0, <1>4 DEF Seen, store
  <2> QED BY <1>0, <1>4, <2>1 DEF store
<1> QED BY <1>1, <1>2, <1>3, <1>4

\* The run that has put its symbol away goes on or is over.
LEMMA CloseRun ==
  ASSUME Shape, NEW r \in Repos, Close(r)
  PROVE  /\ UNCHANGED <<repository, queue, reqs, proc, forced, stops, w>>
         /\ e' = [e EXCEPT ![r] = e'[r]] /\ e'[r] \in EnrichRun /\ RunFits(r, e[r])'
         /\ e'[r].todo = e[r].todo /\ ~Active(e'[r]) /\ Active(e[r])
         /\ \A q \in Repos \ {r} : e'[q] = e[q]
         /\ e[r].cur \in SymsOf(r) /\ e[r].cur \in Syms
<1> DEFINE x == PutAway(e[r])
<1>1. /\ e[r].at = "close" /\ Go(r, x)
      /\ UNCHANGED <<repository, queue, reqs, proc, forced, stops, w>>
  BY DEF Close, repository
<1>2. e[r] \in EnrichRun /\ RunFits(r, e[r])
  BY DEF Shape, TypeOK
<1>3. x \in EnrichRun /\ x.todo = e[r].todo /\ x.cur = 0
  BY <1>2, RunCloses
<1> HIDE DEF x
<1>4. x.todo \subseteq SymsOf(r)
  BY <1>2, <1>3 DEF RunFits
<1>5. e[r].cur \in SymsOf(r) /\ e[r].cur \in Syms /\ Active(e[r])
  BY <1>1, <1>2, SymsOfRepo DEF RunFits, Active
<1> QED BY <1>1, <1>3, <1>4, <1>5, GoFits

LEMMA CloseShape ==
  ASSUME Shape, NEW r \in Repos, Close(r)
  PROVE  Shape'
<1>1. /\ UNCHANGED <<repository, queue, reqs, proc, forced, stops>>
      /\ e' = [e EXCEPT ![r] = e'[r]] /\ e'[r] \in EnrichRun /\ RunFits(r, e[r])'
  BY CloseRun
<1>2. PICK s \in Syms : s = e[r].cur
  BY CloseRun
<1>3. /\ db' \in [Repos -> Database] /\ view' \in [Repos -> Database]
      /\ missed' \subseteq missed \cup {s}
  BY <1>2, CloseCases
<1>4. proc # "off" /\ missed' \subseteq Syms
  BY <1>2, <1>3, CloseRun DEF Shape, TypeOK, ProcFits, Active
<1> QED BY <1>1, <1>3, <1>4, RunStep DEF Shape, TypeOK

LEMMA HaltShape ==
  ASSUME Shape, Halt, stops <= MaxStops
  PROVE  Shape'
<1>1. /\ w' \in [Repos -> Watcher] /\ e' \in [Repos -> EnrichRun]
      /\ view' \in [Repos -> Database]
      /\ \A r \in Repos : w'[r] = Idle /\ e'[r] = NoRun
  BY NothingYet DEF Halt
<1>2. \A r \in Repos : RunFits(r, e[r])' /\ WatcherFits(r, w[r])'
  BY <1>1, NothingYet DEF RunFits, WatcherFits, Active, Extracting
<1>3. /\ chan' \in [Repos -> Seq(SUBSET Files)] /\ acc' \in [Repos -> SUBSET Files]
      /\ armed' \in [Repos -> BOOLEAN]
      /\ \A r \in Repos : chan'[r] = <<>> /\ acc'[r] = {} /\ armed'[r] = FALSE
  BY EmptyChannel DEF Halt
<1>4. \A r \in Repos : QueueFits(r)' /\ Len(chan'[r]) <= Buffer
                         /\ (armed'[r] <=> acc'[r] # {})
  BY <1>3, EmptyChannel DEF QueueFits
<1>5. missed' \subseteq Syms
  <2>1. \A r \in Repos : e[r].todo \subseteq Syms /\ {e[r].cur} \ {0} \subseteq Syms
    BY DEF Shape, TypeOK, EnrichRun
  <2>2. \A r \in Repos :
          SymsIn(acc[r] \cup UNION ToSet(chan[r])) \cup e[r].todo \cup ({e[r].cur} \ {0})
            \subseteq Syms
    BY <2>1 DEF SymsIn
  <2>3. missed \subseteq Syms
    BY DEF Shape, TypeOK
  <2> QED BY ZenonT(40), <2>2, <2>3 DEF Halt
<1>6. ProcFits' /\ proc' = "off" /\ stops' \in 0 .. MaxStops + 1
  BY <1>1, NothingYet DEF Halt, ProcFits, Shape, TypeOK
<1>7. /\ reqs' \in Seq(Repos \X Syms \X (1 .. Predicates)) /\ Len(reqs') <= Pending
      /\ text' \in Tree /\ mem' \in Tree /\ saved' \in Tree /\ seen' \in Tree
      /\ db' \in [Repos -> Database] /\ forced' \subseteq Syms
  BY EmptyChannel DEF Halt, Shape, TypeOK
<1> QED BY <1>1, <1>2, <1>3, <1>4, <1>5, <1>6, <1>7 DEF Shape, TypeOK

\* A step that changes nothing but the process.
LEMMA ProcStep ==
  ASSUME Shape, UNCHANGED <<repository, store, queue, e, reqs, missed, forced, stops>>,
         ProcFits', proc' \in {"up", "stopping", "closing", "off", "cli"}
  PROVE  Shape'
BY DEF Shape, TypeOK, RunFits, WatcherFits, QueueFits, Active, Extracting,
       repository, store, queue

\* Livedocs enrich starts a run over the best ranked symbols.
LEMMA CliEnrichRun ==
  ASSUME Shape, NEW r \in Repos, CliEnrich(r)
  PROVE  /\ e' = [e EXCEPT ![r] = e'[r]] /\ e'[r] \in EnrichRun /\ RunFits(r, e[r])'
         /\ ~Active(e'[r]) /\ e'[r].cur = 0 /\ e[r].at = "idle"
         /\ \A q \in Repos \ {r} : e'[q] = e[q]
<1> DEFINE known == {s \in SymsOf(r) : db[r].hash[FileOf[s]] # 0}
           todo  == Capped(Capped(known, MaxSymbols), MaxBatch)
<1>1. PICK f \in BOOLEAN :
        /\ proc = "off"
        /\ e' = [e EXCEPT ![r] = [NoRun EXCEPT !.at = "next", !.todo = todo,
                                                !.budget = Budget, !.force = f]]
  BY DEF CliEnrich
<1>2. todo \subseteq SymsOf(r) /\ todo \in SUBSET Syms
  BY SymsOfRepo DEF Capped
<1> HIDE DEF todo
<1> DEFINE u == [NoRun EXCEPT !.at = "next", !.todo = todo, !.budget = Budget, !.force = f]
<1>3. u \in EnrichRun /\ u.at = "next" /\ u.todo = todo /\ u.cur = 0
  <2> DEFINE u1 == [NoRun EXCEPT !.at = "next", !.todo = todo]
             u2 == [u1 EXCEPT !.budget = Budget, !.force = f]
  <2>1. u = u2
    OBVIOUS
  <2>2. u1 \in EnrichRun /\ u1.at = "next" /\ u1.todo = todo /\ u1.cur = 0
    BY <1>2, NothingYet DEF EnrichRun
  <2> HIDE DEF u1
  <2>3. u2 \in EnrichRun /\ u2.at = "next" /\ u2.todo = todo /\ u2.cur = 0
    BY <2>2 DEF EnrichRun
  <2> HIDE DEF u, u2
  <2> QED BY <2>1, <2>3
<1> HIDE DEF u
<1>4. e' = [e EXCEPT ![r] = u] /\ e \in [Repos -> EnrichRun] /\ e[r].at = "idle"
  BY <1>1 DEF u, Shape, TypeOK, ProcFits
<1>5. e'[r] = u /\ e' = [e EXCEPT ![r] = e'[r]] /\ \A q \in Repos \ {r} : e'[q] = e[q]
  BY <1>4
<1>6. RunFits(r, e[r])'
  BY <1>2, <1>3, <1>5 DEF RunFits, Active
<1> QED BY <1>3, <1>4, <1>5, <1>6 DEF Active

LEMMA HaltCases ==
  ASSUME Shape, Exit \/ Kill \/ Panic \/ CliEnd
  PROVE  Halt /\ stops <= MaxStops
<1>1. stops \in Nat /\ MaxStops \in Nat
  BY DEF Shape, TypeOK
<1> QED BY <1>1 DEF Exit, Kill, Panic, CliEnd, Running, Shape, ProcFits

LEMMA ProcessShape ==
  ASSUME Shape, Process
  PROVE  Shape'
<1>1. CASE Stop
  <2>1. ProcFits'
    BY <1>1 DEF Stop, Shape, TypeOK, ProcFits
  <2> QED BY <1>1, <2>1, ProcStep DEF Stop
<1>2. CASE \E r \in Repos : End(r)
  <2>1. PICK r \in Repos : End(r)
    BY <1>2
  <2>2. w \in [Repos -> Watcher] /\ w[r] \in Watcher
    BY DEF Shape, TypeOK
  <2>3. w' = [w EXCEPT ![r].at = "ended"] /\ w'[r] = [w[r] EXCEPT !.at = "ended"]
    BY <2>1, <2>2 DEF End
  <2>4. w'[r] \in Watcher /\ w'[r].at = "ended" /\ w' = [w EXCEPT ![r] = w'[r]]
    BY <2>2, <2>3, WatcherAt
  <2>5. WatcherFits(r, w[r])'
    BY <2>4 DEF WatcherFits, Extracting
  <2>6. UNCHANGED <<text, mem, saved, seen, store, queue, e, reqs, proc, missed,
                    forced, stops>>
    BY <2>1 DEF End
  <2> QED BY <2>4, <2>5, <2>6, QueueSame, RepositoryStep
          DEF Shape, TypeOK, queue, store
<1>3. CASE CloseClient
  <2>1. ProcFits'
    BY <1>3 DEF CloseClient, Shape, ProcFits
  <2> QED BY <1>3, <2>1, ProcStep DEF CloseClient
<1>4. CASE Exit \/ Kill \/ Panic \/ CliEnd
  BY <1>4, HaltCases, HaltShape
<1>5. CASE Restart
  <2>1. ProcFits'
    BY <1>5 DEF Restart, Shape, ProcFits
  <2> QED BY <1>5, <2>1, ProcStep DEF Restart
<1>6. CASE \E r \in Repos : CliEnrich(r)
  <2>1. PICK r \in Repos : CliEnrich(r)
    BY <1>6
  <2>2. /\ proc' = "cli" /\ stops <= MaxStops
        /\ UNCHANGED <<repository, store, queue, reqs, missed, forced, stops>>
    BY <2>1 DEF CliEnrich
  <2>3. e' = [e EXCEPT ![r] = e'[r]] /\ e'[r] \in EnrichRun /\ RunFits(r, e[r])'
    BY <2>1, CliEnrichRun
  <2>4. e' \in [Repos -> EnrichRun] /\ \A q \in Repos : RunFits(q, e[q])'
    BY <2>2, <2>3, RunsFit
  <2>5. \A q \in Repos : WatcherFits(q, w[q])' /\ QueueFits(q)'
    BY <2>2 DEF Shape, WatcherFits, QueueFits, Extracting, repository, queue
  <2>6. ProcFits'
    BY <2>2 DEF ProcFits
  <2> QED BY <2>2, <2>4, <2>5, <2>6 DEF Shape, TypeOK, repository, store, queue
<1> QED BY <1>1, <1>2, <1>3, <1>4, <1>5, <1>6 DEF Process

LEMMA ShapeKept == Shape /\ [Next]_vars => Shape'
<1> SUFFICES ASSUME Shape, [Next]_vars PROVE Shape'
  OBVIOUS
<1>1. ASSUME NEW f \in Files, Commit(f) PROVE Shape'
  BY <1>1, CommitShape
<1>2. ASSUME NEW r \in Repos, Pipeline(r) \/ Watch(r) \/ Queue(r) PROVE Shape'
  BY <1>2, PipelineShape, WatchShape, QueueShape
<1>3. ASSUME NEW r \in Repos, Enrich(r) PROVE Shape'
  BY <1>3, TakeShape, AskShape, AbandonShape, CloseShape DEF Enrich
<1>4. CASE UNCHANGED vars
  BY <1>4 DEF vars, Shape, TypeOK, ProcFits, RunFits, WatcherFits, QueueFits,
              Active, Extracting
<1> QED BY <1>1, <1>2, <1>3, <1>4, WorkerShape, ProcessShape DEF Next

LEMMA ShapeFirst == Init => Shape
<1> HAVE Init
<1>1. /\ w \in [Repos -> Watcher] /\ e \in [Repos -> EnrichRun]
      /\ db \in [Repos -> Database] /\ view \in [Repos -> Database]
      /\ \A r \in Repos : w[r] = Idle /\ e[r] = NoRun
  BY NothingYet DEF Init
<1>2. \A r \in Repos : RunFits(r, e[r]) /\ WatcherFits(r, w[r])
  BY <1>1, NothingYet DEF RunFits, WatcherFits, Active, Extracting
<1>3. /\ chan \in [Repos -> Seq(SUBSET Files)] /\ acc \in [Repos -> SUBSET Files]
      /\ armed \in [Repos -> BOOLEAN]
      /\ \A r \in Repos : chan[r] = <<>> /\ acc[r] = {} /\ armed[r] = FALSE
  BY EmptyChannel DEF Init
<1>4. \A r \in Repos : QueueFits(r) /\ Len(chan[r]) <= Buffer /\ (armed[r] <=> acc[r] # {})
  BY <1>3, EmptyChannel DEF QueueFits
<1>5. /\ text \in Tree /\ mem \in Tree /\ saved \in Tree /\ seen \in Tree
      /\ reqs \in Seq(Repos \X Syms \X (1 .. Predicates)) /\ Len(reqs) <= Pending
      /\ stops \in 0 .. MaxStops + 1 /\ missed \subseteq Syms /\ forced \subseteq Syms
  BY EmptyChannel, NothingYet DEF Init, Tree
<1>6. ProcFits /\ proc \in {"up", "stopping", "closing", "off", "cli"}
  BY DEF Init, ProcFits
<1> QED BY <1>1, <1>2, <1>3, <1>4, <1>5, <1>6 DEF Shape, TypeOK

\* The state of the watchers, the databases, the queues and the enrichment
\* runs is always of its type: no channel overflows, no run asks about a
\* symbol it does not have.
THEOREM TypeCorrect == Spec => []TypeOK
<1>1. Shape => TypeOK
  BY DEF Shape
<1> QED BY <1>1, ShapeFirst, ShapeKept, PTL DEF Spec

-----------------------------------------------------------------------------
\* Commits stay in order

LEMMA TreesTyped ==
  ASSUME Shape
  PROVE  /\ text \in [Files -> Nat] /\ mem \in [Files -> Nat]
         /\ saved \in [Files -> Nat] /\ seen \in [Files -> Nat]
         /\ w \in [Repos -> Watcher]
         /\ \A r \in Repos : /\ w[r] \in Watcher /\ WatcherFits(r, w[r])
                             /\ w[r].to \in [Files -> Nat] /\ w[r].snap \in [Files -> Nat]
BY DEF Shape, TypeOK, Tree, Watcher

\* Another repository's watcher is not concerned by a step on files that are
\* not its own, when what is remembered only grows.
LEMMA OthersAhead ==
  ASSUME Shape, InOrder, NEW r \in Repos, NEW q \in Repos \ {r},
         w'[q] = w[q], text' = text, \A f \in Files : mem'[f] \in Nat /\ mem[f] <= mem'[f],
         \A f \in Files \ FilesOf(r) : mem'[f] = mem[f] /\ seen'[f] = seen[f]
  PROVE  Ahead(q, w[q])'
<1>1. \A f \in FilesOf(q) : f \in Files \ FilesOf(r)
  BY SymsOfRepo
<1>2. Ahead(q, w[q])
  BY DEF InOrder
<1>3. w[q].snap \in [Files -> Nat] /\ mem \in [Files -> Nat]
  BY TreesTyped
<1>4. Extracting(w[q]) =>
        \A f \in FilesOf(q) :
          /\ seen'[f] <= w[q].to[f] /\ w[q].to[f] <= text'[f]
          /\ f \notin w[q].todo => seen'[f] = w[q].to[f]
          /\ IF f \in w[q].sent THEN mem'[f] < w[q].to[f] ELSE mem'[f] = w[q].to[f]
  BY <1>1, <1>2 DEF Ahead
<1>5. w[q].at = "rename" => \A f \in Files : w[q].snap[f] <= mem'[f]
  <2> SUFFICES ASSUME w[q].at = "rename", NEW f \in Files PROVE w[q].snap[f] <= mem'[f]
    OBVIOUS
  <2>1. w[q].snap[f] <= mem[f] /\ mem[f] <= mem'[f]
    BY <1>2 DEF Ahead
  <2>2. w[q].snap[f] \in Nat /\ mem[f] \in Nat /\ mem'[f] \in Nat
    BY <1>3
  <2> QED BY <2>1, <2>2
<1> QED BY <1>4, <1>5 DEF Ahead, Extracting

LEMMA CommitOrder ==
  ASSUME Shape, InOrder, NEW f \in Files, Commit(f)
  PROVE  InOrder'
<1>1. /\ UNCHANGED <<mem, saved, seen, w>> /\ text' = [text EXCEPT ![f] = text[f] + 1]
      /\ text \in [Files -> Nat] /\ seen \in [Files -> Nat]
  BY TreesTyped DEF Commit
<1>2. \A g \in Files : text'[g] \in Nat /\ text[g] <= text'[g]
  BY <1>1
<1>3. \A g \in Files : saved[g] <= mem[g] /\ mem[g] <= seen[g] /\ seen[g] <= text'[g]
  BY <1>1, <1>2 DEF InOrder
<1>4. \A r \in Repos : Ahead(r, w[r])'
  <2> TAKE r \in Repos
  <2>1. Ahead(r, w[r]) /\ w[r].to \in [Files -> Nat] /\ FilesOf(r) \subseteq Files
    BY TreesTyped, SymsOfRepo DEF InOrder
  <2>2. Extracting(w[r]) => \A g \in FilesOf(r) : w[r].to[g] <= text'[g]
    BY <1>1, <1>2, <2>1 DEF Ahead
  <2> QED BY <1>1, <2>1, <2>2 DEF Ahead, Extracting
<1> QED BY <1>1, <1>3, <1>4 DEF InOrder

\* A step that leaves the commits alone, and after which no pipeline is under
\* way that was not, or none is.
LEMMA OrderSame ==
  ASSUME InOrder, UNCHANGED <<text, mem, saved, seen>>,
         \A r \in Repos :
           \/ w'[r].at \in {"idle", "ended"}
           \/ /\ Extracting(w[r]) /\ Extracting(w'[r]) /\ w'[r].to = w[r].to
              /\ w'[r].todo = w[r].todo /\ w'[r].sent = w[r].sent
           \/ w'[r] = w[r]
  PROVE  InOrder'
BY DEF InOrder, Ahead, Extracting

LEMMA PipelineOrder ==
  ASSUME Shape, InOrder, NEW r \in Repos, Pipeline(r)
  PROVE  InOrder'
<1>0. w \in [Repos -> Watcher] /\ w[r] \in Watcher
  BY TreesTyped
<1>1. CASE TxBegin(r)
  <2>1. PICK f \in w[r].todo :
          /\ w[r].at = "run"
          /\ w' = [w EXCEPT ![r].at = "tx", ![r].todo = @ \ {f}]
          /\ seen' = [seen EXCEPT ![f] = w[r].to[f]]
          /\ UNCHANGED <<text, mem, saved>>
    BY <1>1 DEF TxBegin
  <2>2. /\ f \in FilesOf(r) /\ f \in Files /\ FilesOf(r) \subseteq Files
        /\ seen \in [Files -> Nat] /\ w[r].to \in [Files -> Nat]
        /\ text \in [Files -> Nat] /\ mem \in [Files -> Nat]
    BY <2>1, TreesTyped, SymsOfRepo DEF WatcherFits, Extracting
  <2> DEFINE x == [w[r] EXCEPT !.at = "tx", !.todo = w[r].todo \ {f}]
  <2>3. w'[r] = x /\ \A q \in Repos \ {r} : w'[q] = w[q]
    BY <1>0, <2>1
  <2>4. /\ x.at = "tx" /\ x.todo = w[r].todo \ {f} /\ x.sent = w[r].sent
        /\ x.to = w[r].to
    BY <1>0, WatcherOpens
  <2> HIDE DEF x
  <2>5. Ahead(r, w[r])
    BY DEF InOrder
  <2>6. /\ seen'[f] = w[r].to[f] /\ \A g \in Files \ {f} : seen'[g] = seen[g]
        /\ seen[f] <= w[r].to[f] /\ w[r].to[f] <= text[f]
    BY <2>1, <2>2, <2>5 DEF Ahead, Extracting
  <2>7. Ahead(r, w[r])'
    <3>1. \A g \in FilesOf(r) :
            /\ seen'[g] <= w[r].to[g] /\ w[r].to[g] <= text[g]
            /\ g \notin w[r].todo \ {f} => seen'[g] = w[r].to[g]
            /\ IF g \in w[r].sent THEN mem[g] < w[r].to[g] ELSE mem[g] = w[r].to[g]
      BY <2>1, <2>2, <2>5, <2>6 DEF Ahead, Extracting
    <3> QED BY ZenonT(80), <2>1, <2>3, <2>4, <3>1 DEF Ahead, Extracting
  <2>8. \A q \in Repos \ {r} : Ahead(q, w[q])'
    <3>1. \A g \in Files : mem'[g] \in Nat /\ mem[g] <= mem'[g]
      BY <2>1, <2>2
    <3>2. \A g \in Files \ FilesOf(r) : mem'[g] = mem[g] /\ seen'[g] = seen[g]
      BY <2>1, <2>2, <2>6
    <3> QED BY <2>1, <2>3, <3>1, <3>2, OthersAhead
  <2>9. \A g \in Files : saved[g] <= mem[g] /\ mem[g] <= seen'[g] /\ seen'[g] <= text[g]
    BY <2>2, <2>6 DEF InOrder
  <2> QED BY <2>1, <2>7, <2>8, <2>9 DEF InOrder
<1>2. CASE TxCommit(r) \/ TxRollback(r) \/ TxDone(r)
  <2>1. PICK a \in {"done", "run"} :
          /\ w' = [w EXCEPT ![r].at = a] /\ Extracting(w[r])
          /\ UNCHANGED <<text, mem, saved, seen>>
    BY <1>2 DEF TxCommit, TxRollback, TxDone, Extracting
  <2>2. w'[r] = [w[r] EXCEPT !.at = a] /\ \A q \in Repos \ {r} : w'[q] = w[q]
    BY <1>0, <2>1
  <2>3. /\ w'[r].at = a /\ w'[r].to = w[r].to /\ w'[r].todo = w[r].todo
        /\ w'[r].sent = w[r].sent
    BY <1>0, <2>2, WatcherAt
  <2>4. Extracting(w'[r])
    BY <2>3 DEF Extracting
  <2> QED BY <2>1, <2>2, <2>3, <2>4, OrderSame
<1> QED BY <1>1, <1>2 DEF Pipeline

LEMMA WatchOrder ==
  ASSUME Shape, InOrder, NEW r \in Repos, Watch(r)
  PROVE  InOrder'
<1>0. /\ w \in [Repos -> Watcher] /\ w[r] \in Watcher /\ Ahead(r, w[r])
      /\ text \in Tree /\ FilesOf(r) \subseteq Files
      /\ text \in [Files -> Nat] /\ mem \in [Files -> Nat] /\ seen \in [Files -> Nat]
      /\ saved \in [Files -> Nat]
      /\ w[r].to \in [Files -> Nat] /\ w[r].snap \in [Files -> Nat]
  BY TreesTyped, SymsOfRepo DEF InOrder, Tree
<1>1. CASE Check(r)
  <2> DEFINE S == {f \in FilesOf(r) : text[f] # mem[f]}
             x == [Idle EXCEPT !.at = "run", !.to = text, !.todo = S, !.sent = S]
  <2>1. w' = [w EXCEPT ![r] = x] /\ UNCHANGED <<text, mem, saved, seen>>
    BY <1>1 DEF Check
  <2>2. S \in SUBSET Files /\ \A f \in FilesOf(r) : f \in S <=> text[f] # mem[f]
    BY <1>0
  <2> HIDE DEF S
  <2>3. x.at = "run" /\ x.to = text /\ x.todo = S /\ x.sent = S
    <3>1. S \in SUBSET Files /\ text \in Tree
      BY <1>0, <2>2
    <3> QED BY ONLY <3>1, WatcherStarts
  <2> HIDE DEF x
  <2>4. w'[r] = x /\ \A q \in Repos \ {r} : w'[q] = w[q]
    BY <1>0, <2>1
  <2>5. \A f \in FilesOf(r) : mem[f] <= seen[f] /\ seen[f] <= text[f]
    BY <1>0 DEF InOrder
  <2>6. Ahead(r, w[r])'
    <3>1. \A f \in FilesOf(r) :
            /\ f \notin S => seen[f] = text[f]
            /\ IF f \in S THEN mem[f] < text[f] ELSE mem[f] = text[f]
      BY <1>0, <2>2, <2>5
    <3>2. \A f \in FilesOf(r) : text[f] <= text[f]
      BY <1>0
    <3> QED BY <2>1, <2>3, <2>4, <2>5, <3>1, <3>2 DEF Ahead
  <2>7. \A q \in Repos \ {r} : Ahead(q, w[q])'
    BY <2>1, <2>4 DEF InOrder, Ahead, Extracting
  <2> QED BY <2>1, <2>6, <2>7 DEF InOrder
<1>2. CASE Send(r)
  <2>1. /\ w[r].at = "run" /\ w[r].todo = {} /\ UNCHANGED <<text, saved, seen>>
        /\ w' = [w EXCEPT ![r].at = "rename", ![r].snap = mem']
        /\ mem' = [f \in Files |-> IF RepoOf[f] = r THEN w[r].to[f] ELSE mem[f]]
    BY <1>2 DEF Send, ForRepo
  <2>2. \A f \in Files : /\ f \in FilesOf(r) => mem'[f] = w[r].to[f]
                         /\ f \notin FilesOf(r) => mem'[f] = mem[f]
    BY <2>1 DEF FilesOf
  <2>3. \A f \in FilesOf(r) : /\ seen[f] = w[r].to[f] /\ mem[f] <= w[r].to[f]
    BY <1>0, <2>1 DEF Ahead, Extracting
  <2>4. \A f \in Files : mem'[f] \in Nat /\ mem[f] <= mem'[f] /\ mem'[f] <= seen[f]
    BY <1>0, <2>2, <2>3 DEF InOrder
  <2>5. /\ mem' \in Tree /\ w'[r] = [w[r] EXCEPT !.at = "rename", !.snap = mem']
        /\ \A q \in Repos \ {r} : w'[q] = w[q]
    BY <1>0, <2>1 DEF Tree
  <2>6. \A T \in Tree : LET u == [w[r] EXCEPT !.at = "rename", !.snap = T]
                        IN u.at = "rename" /\ u.snap = T
    BY <1>0, WatcherSends
  <2>7. w'[r].at = "rename" /\ w'[r].snap = mem'
    BY <2>5, <2>6
  <2>8. Ahead(r, w[r])'
    BY <2>4, <2>7 DEF Ahead, Extracting
  <2>9. \A q \in Repos \ {r} : Ahead(q, w[q])'
    BY ZenonT(80), <2>1, <2>2, <2>4, <2>5, OthersAhead
  <2>10. \A f \in Files : saved[f] <= mem'[f] /\ mem'[f] <= seen[f] /\ seen[f] <= text[f]
    BY <1>0, <2>4 DEF InOrder
  <2> QED BY <2>1, <2>8, <2>9, <2>10 DEF InOrder
<1>3. CASE SaveState(r)
  <2>1. /\ w[r].at = "rename" /\ saved' = w[r].snap /\ w' = [w EXCEPT ![r] = Idle]
        /\ UNCHANGED <<text, mem, seen>>
    BY <1>3 DEF SaveState
  <2>2. \A f \in Files : saved'[f] <= mem[f]
    BY <1>0, <2>1 DEF Ahead
  <2>3. Ahead(r, w[r])'
    BY <1>0, <2>1, NothingYet DEF Ahead, Extracting
  <2>4. \A q \in Repos \ {r} : Ahead(q, w[q])'
    BY <1>0, <2>1 DEF InOrder, Ahead, Extracting
  <2> QED BY <2>1, <2>2, <2>3, <2>4 DEF InOrder
<1> QED BY <1>1, <1>2, <1>3 DEF Watch

LEMMA ProcessOrder ==
  ASSUME Shape, InOrder, Process
  PROVE  InOrder'
<1>1. CASE \E r \in Repos : End(r)
  <2>1. PICK r \in Repos : End(r)
    BY <1>1
  <2>2. /\ w' = [w EXCEPT ![r].at = "ended"] /\ UNCHANGED <<text, mem, saved, seen>>
        /\ w \in [Repos -> Watcher]
    BY <2>1, TreesTyped DEF End
  <2>3. w'[r].at = "ended" /\ \A q \in Repos \ {r} : w'[q] = w[q]
    BY <2>2 DEF Watcher
  <2> QED BY <2>2, <2>3, OrderSame
<1>2. CASE Exit \/ Kill \/ Panic \/ CliEnd
  <2>1. /\ UNCHANGED <<text, saved, seen>> /\ mem' = saved
        /\ \A r \in Repos : w'[r].at = "idle"
    BY <1>2, HaltCases, NothingYet DEF Halt
  <2>2. \A f \in Files : saved[f] <= saved[f] /\ saved[f] <= seen[f] /\ seen[f] <= text[f]
    BY TreesTyped DEF InOrder
  <2>3. \A r \in Repos : Ahead(r, w[r])'
    BY <2>1 DEF Ahead, Extracting
  <2> QED BY <2>1, <2>2, <2>3 DEF InOrder
<1>3. CASE Stop \/ CloseClient \/ Restart \/ \E r \in Repos : CliEnrich(r)
  BY <1>3, OrderSame DEF Stop, CloseClient, Restart, CliEnrich, repository
<1> QED BY <1>1, <1>2, <1>3 DEF Process

LEMMA OrderKept == Shape /\ InOrder /\ [Next]_vars => InOrder'
<1> SUFFICES ASSUME Shape, InOrder, [Next]_vars PROVE InOrder'
  OBVIOUS
<1>1. ASSUME NEW f \in Files, Commit(f) PROVE InOrder'
  BY <1>1, CommitOrder
<1>2. ASSUME NEW r \in Repos, Pipeline(r) \/ Watch(r) PROVE InOrder'
  BY <1>2, PipelineOrder, WatchOrder
<1>3. ASSUME NEW r \in Repos, Queue(r) \/ Enrich(r) PROVE InOrder'
  <2>1. UNCHANGED repository
    BY <1>3 DEF Queue, Receive, Fire, Enrich, Take, Ask, Abandon, Close
  <2> QED BY <2>1, OrderSame DEF repository
<1>4. CASE Worker
  BY <1>4, OrderSame DEF Worker, Answer, Error, repository
<1>5. CASE UNCHANGED vars
  BY <1>5, OrderSame DEF vars
<1> QED BY <1>1, <1>2, <1>3, <1>4, <1>5, ProcessOrder DEF Next

LEMMA OrderFirst == Init => InOrder
BY NothingYet DEF Init, InOrder, Ahead, Extracting, NoTree

\* No state save skips work: the commit a watcher would resume from is never
\* ahead of what the pipeline has processed, whatever the order in which the
\* watchers that share the state marshal and rename it.
LEMMA Resumed == Shape /\ InOrder => NothingSkipped
<1> HAVE Shape /\ InOrder
<1>1. \A f \in Files : saved[f] \in Nat /\ mem[f] \in Nat /\ seen[f] \in Nat
  BY TreesTyped
<1> QED BY <1>1 DEF InOrder, NothingSkipped

-----------------------------------------------------------------------------
\* Given up or enriched, not both

\* A run that has a symbol in hand had it in hand before, at the same content.
Holds(run, was) ==
  Active(run) => /\ Active(was) /\ run.cur = was.cur /\ run.ver = was.ver
                 /\ was.got => run.got

LEMMA HoldsRefl == \A run : Holds(run, run)
BY DEF Holds

\* Claims and tombstones taken away break nothing.
LEMMA OneKept ==
  ASSUME Shape, NEW q \in Repos, Exclusive(q), Open(q, e[q]), forced \subseteq forced',
         \A s \in Syms : /\ Seen(q)'.claims[s] \subseteq Seen(q).claims[s]
                         /\ Seen(q)'.perm[s] \subseteq Seen(q).perm[s],
         Holds(e'[q], e[q])
  PROVE  Exclusive(q)' /\ Open(q, e[q])'
<1>1. Active(e[q]) => e[q].cur \in Syms
  BY SymsOfRepo DEF Shape, RunFits
<1>2. Exclusive(q)'
  BY DEF Exclusive
<1>3. Open(q, e[q])'
  BY <1>1 DEF Open, Holds
<1> QED BY <1>2, <1>3

\* A step that leaves the databases alone, and opens and ends no transaction.
LEMMA OneSame ==
  ASSUME Shape, OneOrOther, NEW q \in Repos, db'[q] = db[q], view'[q] = view[q],
         forced \subseteq forced', w'[q].at = "tx" <=> w[q].at = "tx",
         Holds(e'[q], e[q])
  PROVE  Grown(q)' /\ Exclusive(q)' /\ Open(q, e[q])'
<1>1. Seen(q)' = Seen(q) /\ Grown(q)'
  BY DEF Seen, OneOrOther, Grown
<1> QED BY <1>1, OneKept DEF OneOrOther

LEMMA PipelineOne ==
  ASSUME Shape, OneOrOther, NEW r \in Repos, Pipeline(r)
  PROVE  OneOrOther'
<1>0. /\ w \in [Repos -> Watcher] /\ w[r] \in Watcher
      /\ db \in [Repos -> Database] /\ view \in [Repos -> Database]
      /\ Grown(r) /\ Exclusive(r) /\ Open(r, e[r])
  BY DEF Shape, TypeOK, OneOrOther
<1>1. CASE TxBegin(r)
  <2>1. PICK f \in w[r].todo :
          /\ w[r].at = "run" /\ UNCHANGED <<db, e, forced>>
          /\ w' = [w EXCEPT ![r].at = "tx", ![r].todo = @ \ {f}]
          /\ view' = [view EXCEPT ![r] = [db[r] EXCEPT !.hash[f] = w[r].to[f]]]
    BY <1>1 DEF TxBegin
  <2>2. /\ f \in Files /\ w[r].to[f] \in Nat
    BY <1>0, <2>1 DEF Watcher, Tree
  <2> DEFINE d == [db[r] EXCEPT !.hash[f] = w[r].to[f]]
  <2>3. d.claims = db[r].claims /\ d.perm = db[r].perm
    BY <1>0, <2>2, HashWrites
  <2> HIDE DEF d
  <2>4. /\ view'[r] = d /\ w'[r].at = "tx"
        /\ \A q \in Repos \ {r} : view'[q] = view[q] /\ w'[q] = w[q]
    BY <1>0, <2>1 DEF d, Watcher
  <2>5. Seen(r)' = d /\ Seen(r) = db[r] /\ Grown(r)'
    BY <2>1, <2>3, <2>4 DEF Seen, Grown
  <2>6. Exclusive(r)' /\ Open(r, e[r])'
    BY <1>0, <2>1, <2>3, <2>5, OneKept, HoldsRefl
  <2>7. \A q \in Repos \ {r} : Grown(q)' /\ Exclusive(q)' /\ Open(q, e[q])'
    BY <2>1, <2>4, OneSame, HoldsRefl
  <2> QED BY <2>5, <2>6, <2>7 DEF OneOrOther
<1>2. CASE TxCommit(r) \/ TxRollback(r)
  <2>1. /\ w[r].at = "tx" /\ w' = [w EXCEPT ![r].at = "done"] /\ UNCHANGED <<e, forced>>
        /\ view' = [view EXCEPT ![r] = NoDatabase]
        /\ db' = [db EXCEPT ![r] = view[r]] \/ db' = db
    BY <1>2 DEF TxCommit, TxRollback
  <2>2. /\ w'[r].at = "done" /\ db'[r] \in {view[r], db[r]}
        /\ \A q \in Repos \ {r} : view'[q] = view[q] /\ w'[q] = w[q] /\ db'[q] = db[q]
    BY <1>0, <2>1 DEF Watcher
  <2>3. Seen(r)' = db'[r] /\ Seen(r) = view[r] /\ Grown(r)'
    BY <2>1, <2>2 DEF Seen, Grown
  <2>4. \A s \in Syms : /\ db'[r].claims[s] \subseteq view[r].claims[s]
                        /\ db'[r].perm[s] \subseteq view[r].perm[s]
    BY <1>0, <2>1, <2>2 DEF Grown
  <2>5. Exclusive(r)' /\ Open(r, e[r])'
    BY <1>0, <2>1, <2>3, <2>4, OneKept, HoldsRefl
  <2>6. \A q \in Repos \ {r} : Grown(q)' /\ Exclusive(q)' /\ Open(q, e[q])'
    BY <2>1, <2>2, OneSame, HoldsRefl
  <2> QED BY <2>3, <2>5, <2>6 DEF OneOrOther
<1>3. CASE TxDone(r)
  <2>1. w[r].at = "done" /\ w' = [w EXCEPT ![r].at = "run"] /\ UNCHANGED <<db, view, e, forced>>
    BY <1>3 DEF TxDone, store
  <2>2. \A q \in Repos : w'[q].at = "tx" <=> w[q].at = "tx"
    BY <1>0, <2>1 DEF Watcher
  <2> QED BY <2>1, <2>2, OneSame, HoldsRefl DEF OneOrOther
<1> QED BY <1>1, <1>2, <1>3 DEF Pipeline

LEMMA TakeOne ==
  ASSUME Shape, OneOrOther, NEW r \in Repos, Take(r)
  PROVE  OneOrOther'
<1>1. PICK s \in Syms, v \in Nat :
        /\ forced \subseteq forced' /\ UNCHANGED <<repository, store>>
        /\ \A q \in Repos \ {r} : e'[q] = e[q]
        /\ \/ ~Active(e'[r])
           \/ /\ Active(e'[r]) /\ e'[r].cur = s /\ e'[r].ver = v
              /\ s \notin forced' /\ v # 0 =>
                   v \notin Seen(r).claims[s] /\ v \notin Seen(r).perm[s]
  BY TakeCases
<1>2. UNCHANGED <<db, view, w>>
  BY <1>1 DEF repository, store
<1>3. \A q \in Repos \ {r} : Grown(q)' /\ Exclusive(q)' /\ Open(q, e[q])'
  BY <1>1, <1>2, OneSame, HoldsRefl
<1>4. CASE ~Active(e'[r])
  <2>1. Holds(e'[r], e[r])
    BY <1>4 DEF Holds
  <2> QED BY <1>1, <1>2, <1>3, <2>1, OneSame DEF OneOrOther
<1>5. CASE Active(e'[r])
  <2>1. Seen(r)' = Seen(r) /\ Grown(r)' /\ Exclusive(r)'
    BY <1>1, <1>2 DEF Seen, Grown, Exclusive, OneOrOther
  <2>2. Open(r, e[r])'
    BY <1>1, <1>5, <2>1 DEF Open
  <2> QED BY <1>3, <2>1, <2>2 DEF OneOrOther
<1> QED BY <1>4, <1>5

LEMMA AskedOne ==
  ASSUME Shape, OneOrOther, NEW r \in Repos, e[r].at \in {"ask", "wait"}, forced' = forced,
         UNCHANGED <<db, view, w>>,
         \/ e' = [e EXCEPT ![r] = Asked(e[r])]
         \/ e' = [e EXCEPT ![r] = [Asked(e[r]) EXCEPT !.ok = TRUE]]
  PROVE  OneOrOther'
<1>1. Holds(e'[r], e[r]) /\ \A q \in Repos \ {r} : e'[q] = e[q]
  BY AskedFits DEF Holds
<1> QED BY <1>1, OneSame, HoldsRefl DEF OneOrOther

LEMMA WorkerOne ==
  ASSUME Shape, OneOrOther, Worker
  PROVE  OneOrOther'
<1>1. forced' = forced /\ w' = w
  BY WorkerCases
<1>2. CASE UNCHANGED <<e, store, missed>>
  BY <1>1, <1>2, OneSame, HoldsRefl DEF OneOrOther, store
<1>3. ASSUME NEW r \in Repos, e[r].at = "wait", UNCHANGED <<store, missed>>,
             e' = [e EXCEPT ![r] = Asked(e[r])]
      PROVE  OneOrOther'
  BY <1>1, <1>3, AskedOne DEF store
<1>4. ASSUME NEW r \in Repos, e[r].at = "wait", Stored(r) \/ Vague(r)
      PROVE  OneOrOther'
  <2>1. CASE UNCHANGED store /\ e' = [e EXCEPT ![r] = [Asked(e[r]) EXCEPT !.ok = TRUE]]
    BY <1>1, <1>4, <2>1, AskedOne DEF store
  <2>2. CASE /\ e' = [e EXCEPT ![r] = [Asked(e[r]) EXCEPT !.ok = TRUE, !.got = TRUE]]
             /\ Write(r, [Seen(r) EXCEPT !.claims[e[r].cur] =
                             Seen(r).claims[e[r].cur] \cup {e[r].ver}])
    <3>1. PICK s \in Syms, v \in Nat : s = e[r].cur /\ v = e[r].ver
      BY <1>1, <1>4, AnswerCases
    <3> DEFINE d == [Seen(r) EXCEPT !.claims[s] = Seen(r).claims[s] \cup {v}]
    <3>2. Write(r, d)
      BY <2>2, <3>1
    <3>3. /\ Seen(r) \in Database /\ d \in Database /\ d.perm = Seen(r).perm
          /\ d.claims = [Seen(r).claims EXCEPT ![s] = Seen(r).claims[s] \cup {v}]
      BY SeenTyped, ClaimWrites
    <3> HIDE DEF d
    <3>4. /\ Seen(r)' = d /\ (w[r].at = "tx" => db' = db)
          /\ \A q \in Repos \ {r} : db'[q] = db[q] /\ view'[q] = view[q]
      BY <1>1, <3>2, <3>3, Wrote
    <3>5. /\ d.claims[s] = Seen(r).claims[s] \cup {v}
          /\ \A t \in Syms : Seen(r).claims[t] \subseteq d.claims[t]
          /\ \A t \in Syms \ {s} : d.claims[t] = Seen(r).claims[t]
      BY <3>3 DEF Database
    <3>6. Grown(r)'
      <4>1. w[r].at = "tx" => Seen(r) = view[r] /\ view'[r] = d
        BY <1>1, <3>4 DEF Seen
      <4> QED BY <1>1, <3>3, <3>4, <3>5, <4>1 DEF Grown, OneOrOther
    <3>7. /\ Active(e'[r]) /\ Active(e[r]) /\ e'[r].cur = s /\ e'[r].ver = v /\ e'[r].got
          /\ \A q \in Repos \ {r} : e'[q] = e[q]
      BY <1>1, <1>4, <2>2, <3>1, AskedFits
    <3>8. s \notin forced /\ v # 0 => v \notin Seen(r).perm[s]
      BY <3>1, <3>7 DEF OneOrOther, Open
    <3>9. Exclusive(r)'
      <4> SUFFICES ASSUME NEW t \in Syms \ forced PROVE d.claims[t] \cap d.perm[t] \subseteq {0}
        BY <1>1, <3>4 DEF Exclusive
      <4>1. Seen(r).claims[t] \cap Seen(r).perm[t] \subseteq {0}
        BY DEF OneOrOther, Exclusive
      <4>2. CASE t # s
        BY <3>3, <3>5, <4>1, <4>2
      <4>3. CASE t = s
        <5>1. v = 0 \/ v \notin d.perm[t]
          BY <3>3, <3>8, <4>3
        <5> QED BY <3>3, <3>5, <4>1, <4>3, <5>1
      <4> QED BY <4>2, <4>3
    <3>10. Open(r, e[r])'
      BY <1>1, <3>3, <3>4, <3>7, <3>8 DEF Open
    <3>11. \A q \in Repos \ {r} : Grown(q)' /\ Exclusive(q)' /\ Open(q, e[q])'
      BY <1>1, <3>4, <3>7, OneSame, HoldsRefl
    <3> QED BY <3>6, <3>9, <3>10, <3>11 DEF OneOrOther
  <2> QED BY <1>1, <1>4, <2>1, <2>2, AnswerCases
<1> QED BY <1>2, <1>3, <1>4, WorkerCases

LEMMA CloseOne ==
  ASSUME Shape, OneOrOther, NEW r \in Repos, Close(r)
  PROVE  OneOrOther'
<1>1. PICK s \in Syms : s = e[r].cur
  BY CloseRun
<1>2. /\ UNCHANGED <<w, forced>> /\ ~Active(e'[r]) /\ Active(e[r])
      /\ \A q \in Repos \ {r} : e'[q] = e[q]
  BY CloseRun
<1>3. /\ (w[r].at = "tx" => db' = db /\ Seen(r).perm[s] \subseteq Seen(r)'.perm[s])
      /\ \A q \in Repos \ {r} : db'[q] = db[q] /\ view'[q] = view[q]
      /\ Seen(r)'.claims = Seen(r).claims
      /\ \A t \in Syms \ {s} : Seen(r)'.perm[t] = Seen(r).perm[t]
      /\ \/ Seen(r)'.perm[s] \subseteq Seen(r).perm[s]
         \/ ~e[r].got /\ Seen(r)'.perm[s] \subseteq Seen(r).perm[s] \cup {e[r].ver}
  BY <1>1, CloseCases
<1>4. Exclusive(r) /\ Grown(r) /\ Open(r, e[r])
  BY DEF OneOrOther
<1>5. Grown(r)'
  <2>1. w[r].at = "tx" => Seen(r) = view[r] /\ Seen(r)' = view'[r]
    BY <1>2 DEF Seen
  <2> QED BY <1>2, <1>3, <1>4, <2>1 DEF Grown
<1>6. Exclusive(r)'
  BY SMTT(80), <1>1, <1>2, <1>3, <1>4 DEF Exclusive, Open
<1>7. Open(r, e[r])'
  BY <1>2 DEF Open
<1>8. \A q \in Repos \ {r} : Grown(q)' /\ Exclusive(q)' /\ Open(q, e[q])'
  BY <1>2, <1>3, OneSame, HoldsRefl
<1> QED BY <1>5, <1>6, <1>7, <1>8 DEF OneOrOther

LEMMA HaltOne ==
  ASSUME Shape, OneOrOther, Halt
  PROVE  OneOrOther'
<1>1. /\ UNCHANGED <<db, forced>>
      /\ \A r \in Repos : w'[r].at = "idle" /\ ~Active(e'[r])
  BY NothingYet DEF Halt
<1> SUFFICES ASSUME NEW r \in Repos PROVE Grown(r)' /\ Exclusive(r)' /\ Open(r, e[r])'
  BY DEF OneOrOther
<1>2. Seen(r)' = db[r] /\ Grown(r)'
  BY <1>1 DEF Seen, Grown
<1>3. \A s \in Syms : /\ db[r].claims[s] \subseteq Seen(r).claims[s]
                      /\ db[r].perm[s] \subseteq Seen(r).perm[s]
  BY DEF Seen, OneOrOther, Grown
<1>4. Holds(e'[r], e[r])
  BY <1>1 DEF Holds
<1> QED BY <1>1, <1>2, <1>3, <1>4, OneKept DEF OneOrOther

LEMMA ProcessOne ==
  ASSUME Shape, OneOrOther, Process
  PROVE  OneOrOther'
<1>1. CASE Exit \/ Kill \/ Panic \/ CliEnd
  BY <1>1, HaltCases, HaltOne
<1>2. CASE \E r \in Repos : End(r)
  <2>1. PICK r \in Repos : End(r)
    BY <1>2
  <2>2. /\ w[r].at = "idle" /\ w' = [w EXCEPT ![r].at = "ended"]
        /\ UNCHANGED <<db, view, e, forced>> /\ w \in [Repos -> Watcher]
    BY <2>1 DEF End, store, Shape, TypeOK
  <2>3. \A q \in Repos : w'[q].at = "tx" <=> w[q].at = "tx"
    BY <2>2 DEF Watcher
  <2> QED BY <2>2, <2>3, OneSame, HoldsRefl DEF OneOrOther
<1>3. CASE Stop \/ CloseClient \/ Restart
  BY <1>3, OneSame, HoldsRefl DEF OneOrOther, Stop, CloseClient, Restart, repository, store
<1>4. CASE \E r \in Repos : CliEnrich(r)
  <2>1. PICK r \in Repos : CliEnrich(r)
    BY <1>4
  <2>2. UNCHANGED <<w, db, view, forced>>
    BY <2>1 DEF CliEnrich, repository, store
  <2>3. \A q \in Repos : Holds(e'[q], e[q])
    BY <2>1, CliEnrichRun DEF Holds
  <2> QED BY <2>2, <2>3, OneSame DEF OneOrOther
<1> QED BY <1>1, <1>2, <1>3, <1>4 DEF Process

\* The watchers and the queues do not touch the databases, and an enrichment
\* run that waits is in hand of the same symbol.
LEMMA AroundOne ==
  ASSUME Shape, OneOrOther, NEW r \in Repos, Watch(r) \/ Queue(r) \/ Ask(r) \/ Abandon(r)
  PROVE  OneOrOther'
<1>0. w \in [Repos -> Watcher] /\ e \in [Repos -> EnrichRun] /\ e[r] \in EnrichRun
  BY DEF Shape, TypeOK
<1>1. CASE Watch(r)
  <2>1. UNCHANGED <<db, view, e, forced>>
    BY <1>1 DEF Watch, Check, Send, SaveState, store
  <2>2. \A q \in Repos : w'[q].at = "tx" <=> w[q].at = "tx"
    <3>1. w[r].at # "tx" /\ \A q \in Repos \ {r} : w'[q] = w[q]
      BY <1>0, <1>1 DEF Watch, Check, Send, SaveState
    <3>2. w[r] \in Watcher /\ Idle \in Watcher
      BY <1>0, NothingYet
    <3>3. w'[r].at # "tx"
      <4>1. CASE Check(r)
        BY <1>0, <3>2, <4>1 DEF Check, Watcher
      <4>2. CASE Send(r)
        BY <1>0, <3>2, <4>2 DEF Send, Watcher
      <4>3. CASE SaveState(r)
        BY <1>0, <4>3, NothingYet DEF SaveState
      <4> QED BY <1>1, <4>1, <4>2, <4>3 DEF Watch
    <3> QED BY <3>1, <3>3
  <2> QED BY <2>1, <2>2, OneSame, HoldsRefl DEF OneOrOther
<1>2. CASE Receive(r)
  BY <1>2, OneSame, HoldsRefl DEF OneOrOther, Receive, repository, store
<1>3. CASE Fire(r)
  <2> DEFINE known == {s \in SymsIn(acc[r]) : db[r].hash[FileOf[s]] # 0}
             batch == Capped(IF Readable(r) THEN known ELSE {}, MaxBatch)
             x == [NoRun EXCEPT !.todo = batch]
  <2>1. Go(r, x) /\ UNCHANGED <<w, db, view, forced>>
    BY <1>3 DEF Fire, repository, store
  <2>2. /\ batch \subseteq SymsOf(r) /\ batch \in SUBSET Syms
    <3>1. acc[r] \subseteq FilesOf(r)
      BY DEF Shape, QueueFits
    <3> QED BY <3>1, SymsOfRepo DEF Capped, SymsIn, SymsOf
  <2> HIDE DEF batch
  <2>3. x \in EnrichRun /\ x.todo \subseteq SymsOf(r) /\ x.cur = 0
    BY <2>2, RunBegins
  <2> HIDE DEF x
  <2>4. ~Active(e'[r]) /\ \A q \in Repos \ {r} : e'[q] = e[q]
    BY <2>1, <2>3, GoFits
  <2>5. \A q \in Repos : Holds(e'[q], e[q])
    BY <2>4, HoldsRefl DEF Holds
  <2> QED BY <2>1, <2>5, OneSame DEF OneOrOther
<1>4. CASE Ask(r)
  <2> DEFINE x == [e[r] EXCEPT !.at = "wait",
                     !.calls = IF e[r].budget > 0 THEN e[r].calls + 1 ELSE e[r].calls]
  <2>1. e' = [e EXCEPT ![r] = x] /\ e[r].at = "ask" /\ UNCHANGED <<w, db, view, forced>>
    BY <1>0, <1>4 DEF Ask, repository, store
  <2>2. x.at = "wait" /\ x.cur = e[r].cur /\ x.ver = e[r].ver /\ x.got = e[r].got
    BY <1>0, RunWaits
  <2> HIDE DEF x
  <2>3. e'[r] = x /\ \A q \in Repos \ {r} : e'[q] = e[q]
    BY <1>0, <2>1
  <2>4. \A q \in Repos : Holds(e'[q], e[q])
    BY <2>1, <2>2, <2>3, HoldsRefl DEF Holds, Active
  <2> QED BY <2>1, <2>4, OneSame DEF OneOrOther
<1>5. CASE Abandon(r)
  BY <1>0, <1>5, AskedOne DEF Abandon, repository, store
<1> QED BY <1>1, <1>2, <1>3, <1>4, <1>5 DEF Queue

LEMMA OneHeld == Shape /\ OneOrOther /\ [Next]_vars => OneOrOther'
<1> SUFFICES ASSUME Shape, OneOrOther, [Next]_vars PROVE OneOrOther'
  OBVIOUS
<1>1. ASSUME NEW f \in Files, Commit(f) PROVE OneOrOther'
  BY <1>1, OneSame, HoldsRefl DEF OneOrOther, Commit, store
<1>2. ASSUME NEW r \in Repos, Pipeline(r) \/ Watch(r) \/ Queue(r) PROVE OneOrOther'
  BY <1>2, PipelineOne, AroundOne
<1>3. ASSUME NEW r \in Repos, Enrich(r) PROVE OneOrOther'
  BY <1>3, TakeOne, AroundOne, CloseOne DEF Enrich
<1>4. CASE UNCHANGED vars
  BY <1>4, OneSame, HoldsRefl DEF OneOrOther, vars
<1> QED BY <1>1, <1>2, <1>3, <1>4, WorkerOne, ProcessOne DEF Next

LEMMA OneFirst == Init => OneOrOther
<1> HAVE Init
<1>1. \A r \in Repos : w[r].at = "idle" /\ ~Active(e[r]) /\ db[r] = NoDatabase
  BY NothingYet DEF Init
<1>2. \A s \in Syms : NoDatabase.claims[s] = {}
  BY DEF NoDatabase
<1> QED BY <1>1, <1>2 DEF OneOrOther, Grown, Exclusive, Open, Seen

\* Giving up and having succeeded exclude each other: no symbol is permanently
\* failed at a content it has claims of, unless --force asked again.
THEOREM GivenUpOrEnriched == Spec => []GivenUpHasNothing
<1>1. Shape /\ OneOrOther => GivenUpHasNothing
  <2> SUFFICES ASSUME Shape, OneOrOther, NEW r \in Repos, NEW s \in SymsOf(r) \ forced
               PROVE  db[r].claims[s] \cap db[r].perm[s] \subseteq {0}
    BY DEF GivenUpHasNothing
  <2>1. s \in Syms \ forced
    BY SymsOfRepo
  <2>2. Seen(r).claims[s] \cap Seen(r).perm[s] \subseteq {0}
    BY <2>1 DEF OneOrOther, Exclusive
  <2>3. db[r].claims[s] \subseteq Seen(r).claims[s] /\ db[r].perm[s] \subseteq Seen(r).perm[s]
    BY <2>1 DEF OneOrOther, Grown, Seen
  <2> QED BY <2>2, <2>3
<1> QED BY <1>1, ShapeFirst, ShapeKept, OneFirst, OneHeld, PTL DEF Spec

-----------------------------------------------------------------------------
\* Every symbol is decided, missed or still to be looked at

SameHand(run, was) ==
  /\ run.todo = was.todo /\ run.cur = was.cur /\ run.ver = was.ver
  /\ run.got = was.got /\ run.ok = was.ok /\ (Active(run) <=> Active(was))

\* A step that leaves what covers a symbol alone, or sees to it that the
\* queue hears of its file, or misses it.
StillCovered(q, s) ==
  /\ s \in missed => s \in missed'
  /\ \/ s \in missed'
     \/ /\ Seen(q)'.claims[s] = Seen(q).claims[s]
        /\ \/ FileOf[s] \in Told(q)'
           \/ /\ FileOf[s] \notin Told(q)
              /\ Seen(q)'.hash[FileOf[s]] = Seen(q).hash[FileOf[s]]
              /\ Seen(q)'.fails[s] = Seen(q).fails[s]
              /\ Seen(q)'.perm[s] = Seen(q).perm[s]
              /\ text[FileOf[s]] # mem[FileOf[s]] => text'[FileOf[s]] # mem'[FileOf[s]]

LEMMA StaysComplete ==
  ASSUME Shape, NEW q \in Repos, CompleteAt(q), SameHand(e'[q], e[q]),
         \A s \in SymsOf(q) : StillCovered(q, s)
  PROVE  CompleteAt(q)'
<1>1. Active(e[q]) => e[q].cur \in SymsOf(q)
  BY DEF Shape, RunFits
<1>2. Fresh(q, e[q])'
  BY <1>1 DEF CompleteAt, Fresh, SameHand, StillCovered
<1>3. \A s \in SymsOf(q) : Covered(q, s)'
  BY DEF CompleteAt, Covered, Decided, SameHand, StillCovered
<1> QED BY <1>2, <1>3 DEF CompleteAt

LEMMA HandRefl == \A run : SameHand(run, run)
BY DEF SameHand

\* What the queue was told of does not depend on what it does not look at.
LEMMA ToldSame ==
  ASSUME NEW q \in Repos, acc'[q] = acc[q], chan'[q] = chan[q],
         Extracting(w[q]) => Extracting(w'[q]) /\ w'[q].sent = w[q].sent
  PROVE  Told(q) \subseteq Told(q)'
BY DEF Told

\* A step that concerns another repository.
LEMMA RestComplete ==
  ASSUME Shape, NEW q \in Repos, CompleteAt(q), e'[q] = e[q], acc'[q] = acc[q],
         chan'[q] = chan[q], w'[q] = w[q], db'[q] = db[q], view'[q] = view[q],
         \A f \in FilesOf(q) : text'[f] = text[f] /\ mem'[f] = mem[f],
         \A s \in SymsOf(q) : s \in missed => s \in missed'
  PROVE  CompleteAt(q)'
<1>1. Told(q) \subseteq Told(q)'
  BY ToldSame
<1>2. Seen(q)' = Seen(q)
  BY DEF Seen
<1>3. \A s \in SymsOf(q) : StillCovered(q, s)
  BY <1>1, <1>2, SymsOfRepo DEF StillCovered
<1> QED BY <1>3, StaysComplete, HandRefl

LEMMA ApartRepos ==
  \A r \in Repos : \A q \in Repos \ {r} : \A s \in SymsOf(q) :
    s \notin SymsOf(r) /\ FileOf[s] \notin FilesOf(r)
BY SymsOfRepo

LEMMA CommitComplete ==
  ASSUME Shape, InOrder, Complete, NEW f \in Files, Commit(f)
  PROVE  Complete'
<1>1. /\ UNCHANGED <<mem, w, db, view, acc, chan, e, missed>>
      /\ text' = [text EXCEPT ![f] = text[f] + 1]
  BY DEF Commit, store, queue
<1>2. \A g \in Files : text[g] # mem[g] => text'[g] # mem'[g]
  <2>1. \A g \in Files : text[g] \in Nat /\ mem[g] \in Nat /\ mem[g] <= text[g]
    <3>1. \A g \in Files : mem[g] <= seen[g] /\ seen[g] <= text[g]
      BY DEF InOrder
    <3>2. \A g \in Files : text[g] \in Nat /\ mem[g] \in Nat /\ seen[g] \in Nat
      BY TreesTyped
    <3> QED BY <3>1, <3>2
  <2>2. text \in [Files -> Nat]
    BY TreesTyped
  <2> QED BY <1>1, <2>1, <2>2
<1> SUFFICES ASSUME NEW q \in Repos PROVE CompleteAt(q)'
  BY DEF Complete
<1>3. Told(q) \subseteq Told(q)' /\ Seen(q)' = Seen(q)
  BY <1>1, ToldSame DEF Seen
<1>4. \A s \in SymsOf(q) : StillCovered(q, s)
  BY <1>1, <1>2, <1>3, SymsOfRepo DEF StillCovered
<1> QED BY <1>1, <1>4, StaysComplete, HandRefl DEF Complete

LEMMA PipelineComplete ==
  ASSUME Shape, Complete, NEW r \in Repos, Pipeline(r)
  PROVE  Complete'
<1>0. /\ w \in [Repos -> Watcher] /\ w[r] \in Watcher /\ WatcherFits(r, w[r])
      /\ db \in [Repos -> Database] /\ view \in [Repos -> Database]
      /\ \A s \in SymsOf(r) : s \in Syms /\ FileOf[s] \in Files
  BY SymsOfRepo DEF Shape, TypeOK
<1>1. UNCHANGED <<text, mem, acc, chan, e>> /\ Extracting(w[r])
  BY DEF Pipeline, TxBegin, TxCommit, TxRollback, TxDone, queue, Extracting
<1>2. /\ Extracting(w'[r]) /\ w'[r].sent = w[r].sent /\ missed \subseteq missed'
      /\ \A q \in Repos \ {r} : w'[q] = w[q] /\ db'[q] = db[q] /\ view'[q] = view[q]
      /\ \A s \in SymsOf(r) :
           \/ s \in missed'
           \/ /\ Seen(r)'.claims[s] = Seen(r).claims[s]
              /\ Seen(r)'.fails[s] = Seen(r).fails[s] /\ Seen(r)'.perm[s] = Seen(r).perm[s]
              /\ \/ Seen(r)'.hash[FileOf[s]] = Seen(r).hash[FileOf[s]]
                 \/ FileOf[s] \in w[r].sent
  <2>1. CASE TxBegin(r)
    <3>1. PICK f \in w[r].todo :
            /\ w[r].at = "run" /\ UNCHANGED <<db, missed>>
            /\ w' = [w EXCEPT ![r].at = "tx", ![r].todo = @ \ {f}]
            /\ view' = [view EXCEPT ![r] = [db[r] EXCEPT !.hash[f] = w[r].to[f]]]
      BY <2>1 DEF TxBegin
    <3>2. f \in Files /\ w[r].to[f] \in Nat /\ f \in w[r].sent
      BY <1>0, <1>1, <3>1 DEF Watcher, Tree, WatcherFits
    <3> DEFINE d == [db[r] EXCEPT !.hash[f] = w[r].to[f]]
               x == [w[r] EXCEPT !.at = "tx", !.todo = w[r].todo \ {f}]
    <3>3. /\ d.claims = db[r].claims /\ d.perm = db[r].perm /\ d.fails = db[r].fails
          /\ d.hash = [db[r].hash EXCEPT ![f] = w[r].to[f]]
      BY <1>0, <3>2, HashWrites
    <3>4. x.at = "tx" /\ x.sent = w[r].sent
      BY <1>0, WatcherOpens
    <3>5. /\ w'[r] = x /\ view'[r] = d
          /\ \A q \in Repos \ {r} : w'[q] = w[q] /\ db'[q] = db[q] /\ view'[q] = view[q]
      BY <1>0, <3>1
    <3> HIDE DEF d, x
    <3>6. Seen(r)' = d /\ Seen(r) = db[r]
      BY <3>1, <3>4, <3>5 DEF Seen
    <3>7. \A g \in Files \ {f} : d.hash[g] = db[r].hash[g]
      BY <1>0, <3>3 DEF Database, Tree
    <3>8. \A s \in SymsOf(r) :
            FileOf[s] \in w[r].sent \/ Seen(r)'.hash[FileOf[s]] = Seen(r).hash[FileOf[s]]
      BY <1>0, <3>2, <3>6, <3>7
    <3> QED BY <3>1, <3>3, <3>4, <3>5, <3>6, <3>8 DEF Extracting
  <2>2. CASE TxCommit(r) \/ TxRollback(r) \/ TxDone(r)
    <3>1. /\ w'[r].at \in {"done", "run"} /\ w'[r].sent = w[r].sent
          /\ \A q \in Repos \ {r} : w'[q] = w[q] /\ db'[q] = db[q] /\ view'[q] = view[q]
      <4>1. w' = [w EXCEPT ![r].at = "done"] \/ w' = [w EXCEPT ![r].at = "run"]
        BY <2>2 DEF TxCommit, TxRollback, TxDone
      <4>2. \A q \in Repos \ {r} : db'[q] = db[q] /\ view'[q] = view[q]
        BY <1>0, <2>2 DEF TxCommit, TxRollback, TxDone, store
      <4> QED BY <1>0, <4>1, <4>2 DEF Watcher
    <3>2. Seen(r)' = db'[r] /\ missed \subseteq missed'
      BY <2>2, <3>1 DEF Seen, TxCommit, TxRollback, TxDone
    <3>3. CASE TxCommit(r)
      BY <1>0, <3>1, <3>2, <3>3 DEF TxCommit, Seen, Extracting
    <3>4. CASE TxRollback(r)
      BY <1>0, <3>1, <3>2, <3>4 DEF TxRollback, Seen, Extracting
    <3>5. CASE TxDone(r)
      BY <1>0, <3>1, <3>2, <3>5 DEF TxDone, Seen, Extracting, store
    <3> QED BY <2>2, <3>3, <3>4, <3>5
  <2> QED BY <2>1, <2>2 DEF Pipeline
<1>3. Told(r) \subseteq Told(r)' /\ w[r].sent \subseteq Told(r)'
  BY <1>1, <1>2, ToldSame DEF Told
<1>4. \A s \in SymsOf(r) : StillCovered(r, s)
  BY <1>1, <1>2, <1>3 DEF StillCovered
<1>5. CompleteAt(r)'
  BY <1>1, <1>4, StaysComplete, HandRefl DEF Complete
<1>6. \A q \in Repos \ {r} : CompleteAt(q)'
  BY <1>1, <1>2, RestComplete DEF Complete
<1> QED BY <1>5, <1>6 DEF Complete

LEMMA WatchComplete ==
  ASSUME Shape, InOrder, Complete, NEW r \in Repos, Watch(r)
  PROVE  Complete'
<1>0. /\ w \in [Repos -> Watcher] /\ w[r] \in Watcher /\ Idle.at = "idle"
      /\ WatcherFits(r, w[r]) /\ Ahead(r, w[r]) /\ mem \in [Files -> Nat]
      /\ chan \in [Repos -> Seq(SUBSET Files)]
      /\ \A s \in SymsOf(r) : s \in Syms /\ FileOf[s] \in FilesOf(r)
  BY SymsOfRepo, TreesTyped, NothingYet DEF Shape, TypeOK, InOrder
<1>1. UNCHANGED <<text, db, view, acc, e>> /\ w[r].at # "tx"
  BY DEF Watch, Check, Send, SaveState, store, queue
<1>2. /\ w'[r].at # "tx" /\ missed \subseteq missed'
      /\ \A q \in Repos \ {r} : /\ w'[q] = w[q] /\ chan'[q] = chan[q]
                               /\ \A f \in FilesOf(q) : mem'[f] = mem[f]
      /\ \A s \in SymsOf(r) :
           \/ s \in missed'
           \/ FileOf[s] \in Told(r)'
           \/ /\ FileOf[s] \notin Told(r)
              /\ text[FileOf[s]] # mem[FileOf[s]] => text[FileOf[s]] # mem'[FileOf[s]]
  <2>1. CASE Check(r)
    <3>1. /\ w[r].at = "idle" /\ UNCHANGED <<mem, acc, chan, missed>>
          /\ \A q \in Repos \ {r} : w'[q] = w[q]
      BY <1>0, <2>1 DEF Check, queue
    <3>2. w'[r].at = "run"
      BY <1>0, <2>1, NothingYet DEF Check, Watcher
    <3>3. Told(r) \subseteq Told(r)'
      BY <3>1, ToldSame DEF Extracting
    <3> QED BY <3>1, <3>2, <3>3
  <2>2. CASE Send(r)
    <3>1. /\ w[r].at = "run" /\ w[r].todo = {} /\ acc' = acc
          /\ w' = [w EXCEPT ![r].at = "rename", ![r].snap = mem']
          /\ mem' = [f \in Files |-> IF RepoOf[f] = r THEN w[r].to[f] ELSE mem[f]]
          /\ \/ /\ missed' = missed
                /\ chan' = [chan EXCEPT ![r] = Append(chan[r], w[r].sent)]
             \/ missed' = missed \cup SymsIn(w[r].sent) /\ chan' = chan
      BY <2>2 DEF Send, ForRepo
    <3>2. /\ w'[r].at = "rename" /\ \A q \in Repos \ {r} : w'[q] = w[q] /\ chan'[q] = chan[q]
      BY <1>0, <3>1 DEF Watcher
    <3>3. \A q \in Repos \ {r} : \A f \in FilesOf(q) : mem'[f] = mem[f]
      BY <1>0, <3>1 DEF FilesOf
    <3>4. \A f \in FilesOf(r) : f \notin w[r].sent => mem'[f] = mem[f]
      BY <1>0, <3>1 DEF FilesOf, Ahead, Extracting
    <3>5. \A s \in SymsOf(r) : FileOf[s] \in w[r].sent => s \in missed' \/ FileOf[s] \in Told(r)'
      <4>1. CASE missed' = missed \cup SymsIn(w[r].sent)
        BY <1>0, <4>1 DEF SymsIn
      <4>2. CASE chan' = [chan EXCEPT ![r] = Append(chan[r], w[r].sent)]
        <5>1. chan[r] \in Seq(SUBSET Files) /\ w[r].sent \in SUBSET Files
          BY <1>0 DEF Watcher
        <5>2. UNION ToSet(Append(chan[r], w[r].sent)) = w[r].sent \cup UNION ToSet(chan[r])
          BY ONLY <5>1, ChannelGrows
        <5>3. chan'[r] = Append(chan[r], w[r].sent)
          BY <1>0, <4>2
        <5>4. w[r].sent \subseteq Told(r)'
          BY <5>2, <5>3 DEF Told
        <5> QED BY <5>4
      <4> QED BY <3>1, <4>1, <4>2
    <3>6. \A f \in Told(r) : f \in w[r].sent \/ f \in Told(r)'
      <4>1. CASE chan' = chan
        BY <3>1, <4>1 DEF Told
      <4>2. CASE chan' = [chan EXCEPT ![r] = Append(chan[r], w[r].sent)]
        <5>1. chan[r] \in Seq(SUBSET Files) /\ w[r].sent \in SUBSET Files
          BY <1>0 DEF Watcher
        <5>2. UNION ToSet(Append(chan[r], w[r].sent)) = w[r].sent \cup UNION ToSet(chan[r])
          BY ONLY <5>1, ChannelGrows
        <5>3. chan'[r] = Append(chan[r], w[r].sent)
          BY <1>0, <4>2
        <5> QED BY <3>1, <5>2, <5>3 DEF Told
      <4> QED BY <3>1, <4>1, <4>2
    <3>7. \A s \in SymsOf(r) :
            \/ s \in missed'
            \/ FileOf[s] \in Told(r)'
            \/ FileOf[s] \notin Told(r) /\ mem'[FileOf[s]] = mem[FileOf[s]]
      BY <1>0, <3>4, <3>5, <3>6
    <3>8. missed \subseteq missed'
      BY <3>1
    <3> QED BY <3>2, <3>3, <3>7, <3>8
  <2>3. CASE SaveState(r)
    <3>1. /\ w[r].at = "rename" /\ w'[r] = Idle /\ UNCHANGED <<mem, acc, chan, missed>>
          /\ \A q \in Repos \ {r} : w'[q] = w[q]
      BY <1>0, <2>3 DEF SaveState, queue
    <3>2. Told(r) \subseteq Told(r)'
      BY <3>1, ToldSame DEF Extracting
    <3> QED BY <1>0, <3>1, <3>2
  <2> QED BY <2>1, <2>2, <2>3 DEF Watch
<1>3. Seen(r)' = Seen(r)
  BY <1>1, <1>2 DEF Seen
<1>4. \A s \in SymsOf(r) : StillCovered(r, s)
  BY <1>1, <1>2, <1>3 DEF StillCovered
<1>5. CompleteAt(r)'
  BY <1>1, <1>4, StaysComplete, HandRefl DEF Complete
<1>6. \A q \in Repos \ {r} : CompleteAt(q)'
  BY <1>1, <1>2, RestComplete DEF Complete
<1> QED BY <1>5, <1>6 DEF Complete

LEMMA QueueComplete ==
  ASSUME Shape, Complete, NEW r \in Repos, Queue(r)
  PROVE  Complete'
<1>0. /\ chan \in [Repos -> Seq(SUBSET Files)] /\ chan[r] \in Seq(SUBSET Files)
      /\ acc \in [Repos -> SUBSET Files] /\ QueueFits(r) /\ e[r] \in EnrichRun
      /\ RunFits(r, e[r]) /\ CompleteAt(r)
      /\ \A s \in SymsOf(r) : s \in Syms /\ s # 0
  BY SymsOfRepo DEF Shape, TypeOK, Complete
<1>1. /\ UNCHANGED <<text, mem, w, db, view>> /\ missed \subseteq missed' /\ e[r].at = "idle"
  BY DEF Queue, Receive, Fire, repository, store
<1>2. Seen(r)' = Seen(r)
  BY <1>1 DEF Seen
<1>3. CASE Receive(r)
  <2> DEFINE h == Head(chan[r])
             t == Tail(chan[r])
  <2>1. /\ chan[r] # <<>> /\ acc' = [acc EXCEPT ![r] = acc[r] \cup h]
        /\ chan' = [chan EXCEPT ![r] = t] /\ UNCHANGED <<e, missed>>
    BY <1>3 DEF Receive
  <2>2. UNION ToSet(chan[r]) = h \cup UNION ToSet(t)
    BY <1>0, <2>1, ChannelShrinks
  <2> HIDE DEF h, t
  <2>3. /\ chan'[r] = t /\ acc'[r] = acc[r] \cup h
        /\ \A q \in Repos \ {r} : chan'[q] = chan[q] /\ acc'[q] = acc[q]
    BY <1>0, <2>1
  <2>4. Told(r) \subseteq Told(r)'
    BY <1>1, <2>2, <2>3 DEF Told
  <2>5. \A s \in SymsOf(r) : StillCovered(r, s)
    BY <1>1, <1>2, <2>1, <2>4 DEF StillCovered
  <2>6. CompleteAt(r)'
    BY <1>0, <2>1, <2>5, StaysComplete, HandRefl
  <2>7. \A q \in Repos \ {r} : CompleteAt(q)'
    BY <1>1, <2>1, <2>3, RestComplete DEF Complete
  <2> QED BY <2>6, <2>7 DEF Complete
<1>4. CASE Fire(r)
  <2> DEFINE known == {s \in SymsIn(acc[r]) : db[r].hash[FileOf[s]] # 0}
             batch == Capped(IF Readable(r) THEN known ELSE {}, MaxBatch)
             x == [NoRun EXCEPT !.todo = batch]
  <2>1. /\ acc' = [acc EXCEPT ![r] = {}] /\ Go(r, x) /\ chan' = chan
        /\ missed' = missed \cup (SymsIn(acc[r]) \ batch)
    BY <1>4 DEF Fire
  <2>2. batch \subseteq SymsOf(r) /\ batch \in SUBSET Syms
    BY <1>0, SymsOfRepo DEF Capped, QueueFits, SymsOf, SymsIn
  <2> HIDE DEF batch
  <2>3. x \in EnrichRun /\ x.todo = batch /\ x.cur = 0
    BY <2>2, RunBegins
  <2> HIDE DEF x
  <2>4. /\ ~Active(e'[r]) /\ e'[r].todo = batch /\ \A q \in Repos \ {r} : e'[q] = e[q]
    BY <2>1, <2>2, <2>3, GoFits
  <2>5. /\ acc'[r] = {} /\ \A q \in Repos \ {r} : acc'[q] = acc[q]
    BY <1>0, <2>1
  <2>6. e[r].todo = {} /\ e[r].cur = 0
    BY <1>0, <1>1 DEF RunFits, Active
  <2>7. \A s \in SymsOf(r) : FileOf[s] \in acc[r] => s \in missed' \/ s \in e'[r].todo
    BY <1>0, <2>1, <2>4 DEF SymsIn
  <2>8. \A f \in Told(r) : f \in acc[r] \/ f \in Told(r)'
    BY <1>1, <2>1 DEF Told
  <2>9. \A s \in SymsOf(r) : Covered(r, s)'
    <3> SUFFICES ASSUME NEW s \in SymsOf(r) PROVE Covered(r, s)'
      OBVIOUS
    <3>1. Covered(r, s) /\ s # 0
      BY <1>0 DEF CompleteAt
    <3>2. \/ s \in missed \/ Decided(Seen(r), s) \/ FileOf[s] \in Told(r)
          \/ text[FileOf[s]] # mem[FileOf[s]]
      BY <2>6, <3>1 DEF Covered
    <3>3. Decided(Seen(r), s) => Decided(Seen(r), s)'
      BY <1>2 DEF Decided
    <3> QED BY <1>1, <2>7, <2>8, <3>2, <3>3 DEF Covered
  <2>10. CompleteAt(r)'
    BY <2>4, <2>9 DEF CompleteAt, Fresh
  <2>11. \A q \in Repos \ {r} : CompleteAt(q)'
    BY <1>1, <2>1, <2>4, <2>5, RestComplete DEF Complete
  <2> QED BY <2>10, <2>11 DEF Complete
<1> QED BY <1>3, <1>4 DEF Queue

\* What a run takes next is a hit because it is decided, or is in hand.
LEMMA TakeComplete ==
  ASSUME Shape, Complete, NEW r \in Repos, Take(r)
  PROVE  Complete'
<1>0. /\ RunFits(r, e[r]) /\ CompleteAt(r)
      /\ \A s \in SymsOf(r) : s \in Syms /\ s # 0
  BY SymsOfRepo DEF Shape, TypeOK, Complete
<1>1. PICK s \in e[r].todo, v \in Nat :
        /\ s \in SymsOf(r) /\ s \in Syms /\ e[r].cur = 0
        /\ UNCHANGED <<repository, store, queue, reqs, proc, stops>>
        /\ \A q \in Repos \ {r} : e'[q] = e[q]
        /\ \/ ~Active(e'[r]) /\ missed' = missed \cup e[r].todo
           \/ /\ ~Active(e'[r]) /\ e'[r].todo = e[r].todo \ {s} /\ missed' = missed \ {s}
              /\ v = Seen(r).hash[FileOf[s]]
              /\ v \in Seen(r).claims[s] \cup Seen(r).perm[s]
           \/ /\ Active(e'[r]) /\ e'[r].todo = e[r].todo \ {s} /\ missed' = missed \ {s}
              /\ e'[r].cur = s /\ e'[r].ver = v /\ ~e'[r].got /\ ~e'[r].ok
              /\ v \in {0, Seen(r).hash[FileOf[s]]}
  BY TakeCases
<1>2. UNCHANGED <<text, mem, w, db, view, acc, chan>>
  BY <1>1 DEF repository, store, queue
<1>3. Seen(r)' = Seen(r) /\ Told(r)' = Told(r)
  BY <1>2 DEF Seen, Told
<1>4. \A q \in Repos \ {r} : CompleteAt(q)'
  <2> TAKE q \in Repos \ {r}
  <2>1. \A t \in SymsOf(q) : t \in missed => t \in missed'
    BY <1>1, ApartRepos
  <2> QED BY <1>1, <1>2, <2>1, RestComplete DEF Complete
<1>5. \A t \in SymsOf(r) : Covered(r, t)'
  <2> SUFFICES ASSUME NEW t \in SymsOf(r) PROVE Covered(r, t)'
    OBVIOUS
  <2>1. Covered(r, t) /\ t # e[r].cur
    BY <1>0, <1>1 DEF CompleteAt
  <2>2. Decided(Seen(r), t) => Decided(Seen(r), t)'
    BY <1>3 DEF Decided
  <2>3. CASE missed' = missed \cup e[r].todo
    BY <1>2, <1>3, <2>1, <2>2, <2>3 DEF Covered
  <2>4. CASE e'[r].todo = e[r].todo \ {s} /\ missed' = missed \ {s} /\ t # s
    BY <1>2, <1>3, <2>1, <2>2, <2>4 DEF Covered
  <2>5. CASE t = s /\ v = Seen(r).hash[FileOf[s]] /\ v \in Seen(r).claims[s] \cup Seen(r).perm[s]
    <3>1. Decided(Seen(r), t)'
      BY <1>3, <2>5 DEF Decided
    <3> QED BY <3>1 DEF Covered
  <2>6. CASE t = s /\ e'[r].cur = s
    BY <2>6 DEF Covered
  <2> QED BY <1>1, <2>3, <2>4, <2>5, <2>6
<1>6. Fresh(r, e[r])'
  BY <1>1, <1>3 DEF Fresh
<1> QED BY <1>4, <1>5, <1>6 DEF Complete, CompleteAt

\* A request sent, and a call that ended with nothing.
LEMMA CallComplete ==
  ASSUME Shape, Complete, NEW r \in Repos, SameHand(e'[r], e[r]),
         UNCHANGED <<text, mem, w, db, view, acc, chan, missed>>,
         \A q \in Repos \ {r} : e'[q] = e[q]
  PROVE  Complete'
<1>1. Seen(r)' = Seen(r) /\ Told(r)' = Told(r)
  BY DEF Seen, Told
<1>2. \A s \in SymsOf(r) : StillCovered(r, s)
  BY <1>1 DEF StillCovered
<1>3. CompleteAt(r)'
  BY <1>2, StaysComplete DEF Complete
<1>4. \A q \in Repos \ {r} : CompleteAt(q)'
  BY RestComplete DEF Complete
<1> QED BY <1>3, <1>4 DEF Complete

LEMMA AskComplete ==
  ASSUME Shape, Complete, NEW r \in Repos, Ask(r) \/ Abandon(r)
  PROVE  Complete'
<1>0. e \in [Repos -> EnrichRun] /\ e[r] \in EnrichRun
  BY DEF Shape, TypeOK
<1>1. UNCHANGED <<text, mem, w, db, view, acc, chan, missed, forced>>
  BY DEF Ask, Abandon, repository, store, queue
<1>2. CASE Ask(r)
  <2> DEFINE x == [e[r] EXCEPT !.at = "wait",
                     !.calls = IF e[r].budget > 0 THEN e[r].calls + 1 ELSE e[r].calls]
  <2>1. e' = [e EXCEPT ![r] = x] /\ e[r].at = "ask"
    BY <1>0, <1>2 DEF Ask
  <2>2. /\ x.at = "wait" /\ x.todo = e[r].todo /\ x.cur = e[r].cur /\ x.ver = e[r].ver
        /\ x.got = e[r].got /\ x.ok = e[r].ok
    BY <1>0, RunWaits
  <2> HIDE DEF x
  <2>3. e'[r] = x /\ \A q \in Repos \ {r} : e'[q] = e[q]
    BY <1>0, <2>1
  <2>4. SameHand(e'[r], e[r])
    BY <2>1, <2>2, <2>3 DEF SameHand, Active
  <2> QED BY <1>1, <2>3, <2>4, CallComplete
<1>3. CASE Abandon(r)
  <2>1. e[r].at \in {"ask", "wait"} /\ e' = [e EXCEPT ![r] = Asked(e[r])]
    BY <1>0, <1>3 DEF Abandon
  <2>2. /\ \A q \in Repos \ {r} : e'[q] = e[q]
        /\ SameHand(e'[r], e[r])
    BY <1>1, <2>1, AskedFits DEF SameHand
  <2> QED BY <1>1, <2>2, CallComplete
<1> QED BY <1>2, <1>3

LEMMA WorkerComplete ==
  ASSUME Shape, Complete, Worker
  PROVE  Complete'
<1>1. UNCHANGED <<text, mem, w, acc, chan, forced>>
  BY WorkerCases DEF repository, queue
<1>2. CASE UNCHANGED <<e, store, missed>>
  <2>1. \A q \in Repos : CompleteAt(q)'
    BY <1>1, <1>2, RestComplete DEF Complete, store
  <2> QED BY <2>1 DEF Complete
<1>3. ASSUME NEW r \in Repos, e[r].at = "wait", UNCHANGED <<store, missed>>,
             e' = [e EXCEPT ![r] = Asked(e[r])]
      PROVE  Complete'
  <2>1. /\ \A q \in Repos \ {r} : e'[q] = e[q]
        /\ SameHand(e'[r], e[r])
    BY <1>1, <1>3, AskedFits DEF SameHand
  <2> QED BY <1>1, <1>3, <2>1, CallComplete DEF store
<1>4. ASSUME NEW r \in Repos, e[r].at = "wait", Stored(r) \/ Vague(r)
      PROVE  Complete'
  <2>1. PICK s \in Syms, v \in Nat : s = e[r].cur /\ v = e[r].ver
    BY <1>1, <1>4, AnswerCases
  <2> DEFINE d == [Seen(r) EXCEPT !.claims[s] = Seen(r).claims[s] \cup {v}]
  <2>2. /\ s \in SymsOf(r)
        /\ \/ /\ Write(r, d)
              /\ e' = [e EXCEPT ![r] = [Asked(e[r]) EXCEPT !.ok = TRUE, !.got = TRUE]]
              /\ missed' = IF v = 0 THEN missed \cup {s} ELSE missed
           \/ /\ UNCHANGED store /\ missed' = missed \cup {s}
              /\ e' = [e EXCEPT ![r] = [Asked(e[r]) EXCEPT !.ok = TRUE]]
    BY <1>1, <1>4, <2>1, AnswerCases
  <2>3. /\ Seen(r) \in Database /\ d \in Database /\ d.hash = Seen(r).hash
        /\ d.fails = Seen(r).fails /\ d.perm = Seen(r).perm
        /\ d.claims = [Seen(r).claims EXCEPT ![s] = Seen(r).claims[s] \cup {v}]
    BY SeenTyped, ClaimWrites
  <2>4. /\ d.claims[s] = Seen(r).claims[s] \cup {v}
        /\ \A t \in Syms : Seen(r).claims[t] \subseteq d.claims[t]
    BY <2>3 DEF Database
  <2> HIDE DEF d
  <2>5. /\ e'[r].cur = s /\ e'[r].ver = v /\ e'[r].todo = e[r].todo /\ Active(e[r])
        /\ \A q \in Repos \ {r} : e'[q] = e[q]
    BY <1>1, <1>4, <2>1, <2>2, AskedFits
  <2>6. /\ missed \subseteq missed' /\ Told(r)' = Told(r)
        /\ Fresh(r, e[r]) /\ \A t \in SymsOf(r) : t \in Syms /\ Covered(r, t)
    BY <1>1, <2>2, SymsOfRepo DEF Told, Complete, CompleteAt
  <2>7. /\ Seen(r)' \in {d, Seen(r)} /\ (Write(r, d) => Seen(r)' = d)
        /\ \A q \in Repos \ {r} : db'[q] = db[q] /\ view'[q] = view[q]
    <3>1. CASE Write(r, d)
      BY <1>1, <2>3, <3>1, Wrote
    <3>2. CASE ~Write(r, d)
      BY <1>1, <2>2, <3>2 DEF Seen, store
    <3> QED BY <3>1, <3>2
  <2>8. \A t \in SymsOf(r) : Covered(r, t)'
    <3> SUFFICES ASSUME NEW t \in SymsOf(r) PROVE Covered(r, t)'
      OBVIOUS
    <3>1. Decided(Seen(r), t) => Decided(Seen(r), t)'
      BY <2>3, <2>4, <2>6, <2>7 DEF Decided
    <3> QED BY <1>1, <2>1, <2>5, <2>6, <3>1 DEF Covered
  <2>9. Fresh(r, e[r])'
    <3>1. CASE s \in missed'
      BY <2>5, <3>1 DEF Fresh
    <3>2. CASE s \notin missed'
      <4>1. /\ Write(r, d) /\ v # 0 /\ s \notin missed
            /\ e' = [e EXCEPT ![r] = [Asked(e[r]) EXCEPT !.ok = TRUE, !.got = TRUE]]
        BY <2>2, <3>2
      <4>2. Seen(r)' = d /\ e'[r].got /\ v \in d.claims[s]
        BY <1>1, <1>4, <2>4, <2>7, <4>1, AskedFits
      <4>3. v = Seen(r).hash[FileOf[s]] \/ FileOf[s] \in Told(r)
        BY <2>1, <2>5, <2>6, <4>1 DEF Fresh
      <4> QED BY <2>3, <2>5, <2>6, <4>1, <4>2, <4>3 DEF Fresh
    <3> QED BY <3>1, <3>2
  <2>10. \A q \in Repos \ {r} : CompleteAt(q)'
    BY <1>1, <2>5, <2>6, <2>7, RestComplete DEF Complete
  <2> QED BY <2>8, <2>9, <2>10 DEF Complete, CompleteAt
<1> QED BY <1>2, <1>3, <1>4, WorkerCases

LEMMA CloseComplete ==
  ASSUME Shape, Complete, NEW r \in Repos, Close(r)
  PROVE  Complete'
<1>1. PICK s \in Syms : s = e[r].cur
  BY CloseRun
<1>2. /\ UNCHANGED <<text, mem, w, acc, chan>> /\ ~Active(e'[r]) /\ Active(e[r])
      /\ e'[r].todo = e[r].todo /\ s \in SymsOf(r)
      /\ \A q \in Repos \ {r} : e'[q] = e[q]
  BY <1>1, CloseRun DEF repository, queue
<1>3. /\ missed \subseteq missed'
      /\ \A q \in Repos \ {r} : db'[q] = db[q] /\ view'[q] = view[q]
      /\ Seen(r)'.hash = Seen(r).hash /\ Seen(r)'.claims = Seen(r).claims
      /\ \A t \in Syms \ {s} : /\ Seen(r)'.fails[t] = Seen(r).fails[t]
                               /\ Seen(r)'.perm[t] = Seen(r).perm[t]
      /\ \/ e[r].got
         \/ /\ ~e[r].got /\ ~e[r].ok
            /\ \/ s \in missed'
               \/ Seen(r)'.fails[s] > 0
               \/ e[r].ver # 0 /\ e[r].ver \in Seen(r)'.perm[s]
         \/ ~e[r].got /\ e[r].ok
  BY <1>1, CloseCases
<1>4. /\ Told(r)' = Told(r) /\ Fresh(r, e[r])
      /\ \A t \in SymsOf(r) : t \in Syms /\ Covered(r, t)
  BY <1>2, SymsOfRepo DEF Told, Complete, CompleteAt
<1>5. Covered(r, s)'
  <2>1. CASE s \in missed'
    BY <2>1 DEF Covered
  <2>2. CASE s \notin missed' /\ FileOf[s] \in Told(r)
    BY <1>4, <2>2 DEF Covered
  <2>3. CASE s \notin missed' /\ FileOf[s] \notin Told(r)
    <3>1. /\ e[r].ok => e[r].got
          /\ e[r].got => e[r].ver # 0 /\ e[r].ver \in Seen(r).claims[s]
          /\ e[r].ver = 0 \/ e[r].ver = Seen(r).hash[FileOf[s]]
      BY <1>1, <1>2, <1>3, <1>4, <2>3 DEF Fresh
    <3>2. Decided(Seen(r), s)'
      BY <1>3, <2>3, <3>1 DEF Decided
    <3> QED BY <3>2 DEF Covered
  <2> QED BY <2>1, <2>2, <2>3
<1>6. \A t \in SymsOf(r) \ {s} : Covered(r, t)'
  <2> TAKE t \in SymsOf(r) \ {s}
  <2>1. Decided(Seen(r), t) => Decided(Seen(r), t)'
    BY <1>3, <1>4 DEF Decided
  <2> QED BY <1>1, <1>2, <1>3, <1>4, <2>1 DEF Covered
<1>7. Fresh(r, e[r])'
  BY <1>2 DEF Fresh
<1>8. \A q \in Repos \ {r} : CompleteAt(q)'
  BY <1>2, <1>3, RestComplete DEF Complete
<1> QED BY <1>5, <1>6, <1>7, <1>8 DEF Complete, CompleteAt

\* What the end of a process loses is missed, or is what the watcher that
\* resumes from the saved commit finds changed.
LEMMA HaltComplete ==
  ASSUME Shape, InOrder, Complete, Halt
  PROVE  Complete'
<1>1. /\ UNCHANGED <<text, db>> /\ mem' = saved
      /\ \A r \in Repos : w'[r] = Idle /\ e'[r] = NoRun
      /\ missed' = missed \cup {s \in Syms : w[RepoOf[FileOf[s]]].at = "tx"}
           \cup (UNION {SymsIn(acc[r] \cup UNION ToSet(chan[r])) \cup e[r].todo
                        \cup ({e[r].cur} \ {0}) : r \in Repos})
  BY DEF Halt
<1> SUFFICES ASSUME NEW r \in Repos PROVE CompleteAt(r)'
  BY DEF Complete
<1>2. w'[r].at = "idle" /\ ~Active(e'[r])
  BY <1>1, NothingYet
<1>3. Seen(r)' = db[r] /\ Fresh(r, e[r])'
  BY <1>1, <1>2 DEF Seen, Fresh
<1> SUFFICES ASSUME NEW s \in SymsOf(r), s \notin missed' PROVE Covered(r, s)'
  BY <1>3 DEF CompleteAt, Covered
<1> DEFINE f == FileOf[s]
<1>4. s \in Syms /\ s # 0 /\ f \in FilesOf(r) /\ f \in Files /\ RepoOf[f] = r
  BY SymsOfRepo
<1>5. s \notin missed /\ w[r].at # "tx"
  BY <1>1, <1>4
<1>6. f \notin acc[r] \cup (UNION ToSet(chan[r])) /\ s \notin e[r].todo /\ s # e[r].cur
  <2> DEFINE Lost(q) == SymsIn(acc[q] \cup UNION ToSet(chan[q])) \cup e[q].todo
                          \cup ({e[q].cur} \ {0})
  <2>1. s \notin Lost(r)
    BY <1>1
  <2> QED BY <1>4, <2>1 DEF SymsIn
<1>7. saved[f] <= mem[f] /\ mem[f] <= seen[f] /\ seen[f] <= text[f] /\ Ahead(r, w[r])
  BY <1>4 DEF InOrder
<1>8. saved[f] \in Nat /\ mem[f] \in Nat /\ seen[f] \in Nat /\ text[f] \in Nat
      /\ w[r].to[f] \in Nat
  BY <1>4, TreesTyped
<1>9. Covered(r, s)
  BY DEF Complete, CompleteAt
<1>10. CASE Decided(Seen(r), s)
  <2>1. Decided(Seen(r), s)'
    BY <1>3, <1>5, <1>10 DEF Decided, Seen
  <2> QED BY <2>1 DEF Covered
<1>11. CASE f \in Told(r)
  <2>1. Extracting(w[r]) /\ f \in w[r].sent
    BY <1>6, <1>11 DEF Told
  <2>2. mem[f] < w[r].to[f] /\ w[r].to[f] <= text[f]
    BY <1>4, <1>7, <2>1 DEF Ahead
  <2>3. text[f] # saved[f]
    BY <1>7, <1>8, <2>2
  <2> QED BY <1>1, <2>3 DEF Covered
<1>12. CASE text[f] # mem[f]
  <2>1. text[f] # saved[f]
    BY <1>7, <1>8, <1>12
  <2> QED BY <1>1, <2>1 DEF Covered
<1> QED BY <1>5, <1>6, <1>9, <1>10, <1>11, <1>12 DEF Covered

LEMMA ProcessComplete ==
  ASSUME Shape, InOrder, Complete, Process
  PROVE  Complete'
<1>1. CASE Exit \/ Kill \/ Panic \/ CliEnd
  BY <1>1, HaltCases, HaltComplete
<1>2. CASE \E r \in Repos : End(r)
  <2>1. PICK r \in Repos : End(r)
    BY <1>2
  <2>2. /\ w[r].at = "idle" /\ w' = [w EXCEPT ![r].at = "ended"]
        /\ UNCHANGED <<text, mem, db, view, acc, chan, e, missed>> /\ w \in [Repos -> Watcher]
    BY <2>1 DEF End, store, queue, Shape, TypeOK
  <2>3. w'[r].at = "ended" /\ \A q \in Repos \ {r} : w'[q] = w[q]
    BY <2>2 DEF Watcher
  <2>4. Seen(r)' = Seen(r) /\ Told(r)' = Told(r)
    BY <2>2, <2>3 DEF Seen, Told, Extracting
  <2>5. \A s \in SymsOf(r) : StillCovered(r, s)
    BY <2>2, <2>4 DEF StillCovered
  <2>6. CompleteAt(r)'
    BY <2>2, <2>5, StaysComplete, HandRefl DEF Complete
  <2>7. \A q \in Repos \ {r} : CompleteAt(q)'
    BY <2>2, <2>3, RestComplete DEF Complete
  <2> QED BY <2>6, <2>7 DEF Complete
<1>3. CASE Stop \/ CloseClient \/ Restart
  <2>1. UNCHANGED <<text, mem, w, db, view, acc, chan, e, missed>>
    BY <1>3 DEF Stop, CloseClient, Restart, repository, store, queue
  <2> QED BY <2>1, RestComplete DEF Complete
<1>4. CASE \E r \in Repos : CliEnrich(r)
  <2>1. PICK r \in Repos : CliEnrich(r)
    BY <1>4
  <2>2. UNCHANGED <<text, mem, w, db, view, acc, chan, missed>>
    BY <2>1 DEF CliEnrich, repository, store, queue
  <2>3. ~Active(e'[r]) /\ e[r].at = "idle" /\ \A q \in Repos \ {r} : e'[q] = e[q]
    BY <2>1, CliEnrichRun
  <2>4. /\ e[r].todo = {} /\ e[r].cur = 0 /\ CompleteAt(r)
        /\ \A s \in SymsOf(r) : s \in Syms /\ s # 0
    BY <2>3, SymsOfRepo DEF Shape, RunFits, Active, Complete
  <2>5. Seen(r)' = Seen(r) /\ Told(r)' = Told(r)
    BY <2>2 DEF Seen, Told
  <2>6. \A s \in SymsOf(r) : Covered(r, s)'
    BY <2>2, <2>4, <2>5 DEF CompleteAt, Covered, Decided
  <2>7. CompleteAt(r)'
    BY <2>3, <2>6 DEF CompleteAt, Fresh
  <2>8. \A q \in Repos \ {r} : CompleteAt(q)'
    BY <2>2, <2>3, RestComplete DEF Complete
  <2> QED BY <2>7, <2>8 DEF Complete
<1> QED BY <1>1, <1>2, <1>3, <1>4 DEF Process

LEMMA CompleteKept == Shape /\ InOrder /\ Complete /\ [Next]_vars => Complete'
<1> SUFFICES ASSUME Shape, InOrder, Complete, [Next]_vars PROVE Complete'
  OBVIOUS
<1>1. ASSUME NEW f \in Files, Commit(f) PROVE Complete'
  BY <1>1, CommitComplete
<1>2. ASSUME NEW r \in Repos, Pipeline(r) \/ Watch(r) \/ Queue(r) PROVE Complete'
  BY <1>2, PipelineComplete, WatchComplete, QueueComplete
<1>3. ASSUME NEW r \in Repos, Enrich(r) PROVE Complete'
  BY <1>3, TakeComplete, AskComplete, CloseComplete DEF Enrich
<1>4. CASE UNCHANGED vars
  BY <1>4, RestComplete DEF Complete, vars
<1> QED BY <1>1, <1>2, <1>3, <1>4, WorkerComplete, ProcessComplete DEF Next

LEMMA CompleteFirst == Init => Complete
<1> HAVE Init
<1>1. \A r \in Repos : Fresh(r, e[r])
  BY NothingYet DEF Init, Fresh
<1>2. \A f \in Files : text[f] # mem[f]
  BY DEF Init, NoTree
<1> QED BY <1>1, <1>2, SymsOfRepo DEF Complete, CompleteAt, Covered

\* A repository that has gone quiet has nothing left to do but what it missed.
LEMMA QuietSettled == Shape /\ Complete => Settled
<1> SUFFICES ASSUME Shape, Complete, NEW r \in Repos, Quiet(r), NEW s \in SymsOf(r) \ missed
             PROVE  Decided(db[r], s)
  BY DEF Settled
<1>1. /\ w[r].at = "idle" /\ chan[r] = <<>> /\ acc[r] = {} /\ e[r].at = "idle"
      /\ SameFor(r, text, mem)
  BY DEF Quiet
<1>2. e[r].todo = {} /\ e[r].cur = 0
  BY <1>1 DEF Shape, RunFits, Active
<1>3. Told(r) = {} /\ Seen(r) = db[r]
  BY <1>1, EmptyChannel DEF Told, Extracting, Seen
<1>4. s # 0 /\ text[FileOf[s]] = mem[FileOf[s]]
  BY <1>1, SymsOfRepo DEF SameFor
<1>5. Covered(r, s)
  BY DEF Complete, CompleteAt
<1> QED BY <1>2, <1>3, <1>4, <1>5 DEF Covered

\* No change is forgotten: the commit a watcher would resume from is never
\* ahead of what the pipeline has processed, and in a repository that has gone
\* quiet every symbol is enriched, failed or given up at its present content,
\* but those a logged failure kept from being decided.
THEOREM NothingLost == Spec => []NothingForgotten
<1>1. Init => Shape /\ InOrder /\ Complete
  BY ShapeFirst, OrderFirst, CompleteFirst
<1>2. Shape /\ InOrder /\ Complete /\ [Next]_vars => (Shape /\ InOrder /\ Complete)'
  BY ShapeKept, OrderKept, CompleteKept
<1>3. Shape /\ InOrder /\ Complete => NothingForgotten
  BY Resumed, QuietSettled DEF NothingForgotten
<1> QED BY <1>1, <1>2, <1>3, PTL DEF Spec
=============================================================================
