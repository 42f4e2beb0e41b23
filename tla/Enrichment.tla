----------------------------- MODULE Enrichment -----------------------------
(***************************************************************************)
(* livedocs watch --enrich over several repositories (cmd/livedocs/        *)
(* watch_cmd.go).  A watcher per repository extracts the files that        *)
(* changed, tells the repository's enrichment queue (sourcegraph/queue.go) *)
(* which, and saves its commit in a state file all watchers share          *)
(* (watch/state.go).  The queue waits for a quiet period and runs the      *)
(* enricher (sourcegraph/enrich.go) over the symbols of the files; the     *)
(* enricher asks a Sourcegraph MCP server about each predicate through one *)
(* client (sourcegraph/client.go) that all repositories share and that     *)
(* serves one request at a time, and writes claims and tombstones into the *)
(* claims database the watcher is writing to.  livedocs enrich             *)
(* (cmd/livedocs/enrich.go) runs the same enricher while no watch does.    *)
(*                                                                         *)
(* A commit is the content of each file, a number; a file's content hash   *)
(* is its content.  The version of an enrichment claim or a tombstone is   *)
(* the hash its symbol's file had when the enricher looked; 0 is a claim   *)
(* without one.  Symbols are row numbers.                                  *)
(*                                                                         *)
(* History variables (not in the code): missed, seen, forced, stops.       *)
(***************************************************************************)
EXTENDS Naturals, FiniteSets, SequencesExt

CONSTANTS
  Repos, Files,
  Syms,         \* row numbers of symbols
  RepoOf,       \* [Files -> Repos]
  FileOf,       \* [Syms -> Files]: the symbol's import path
  Fanin,        \* [Files -> Nat]: import claims that name the file's package
  Predicates,   \* how many predicates a symbol is asked about
  MaxBatch,     \* maxBatchSize
  MaxFailures,  \* maxConsecutiveFailures
  Buffer,       \* batches the queue's channel holds
  Pending,      \* requests the client's channel holds
  Budget,       \* --budget of livedocs enrich; 0: none
  MaxSymbols,   \* --max-symbols of livedocs enrich; 0: none
  MaxEdits,     \* [Files -> Nat], bound: contents a file goes through
  MaxStops,     \* bound: ends of a process, one more for livedocs enrich
  Faults        \* which failures may happen

ASSUME FleetAssumption ==
  /\ Syms \subseteq Nat \ {0}
  /\ RepoOf \in [Files -> Repos] /\ FileOf \in [Syms -> Files]
  /\ Fanin \in [Files -> Nat] /\ MaxEdits \in [Files -> Nat \ {0}]
  /\ {Predicates, MaxBatch, MaxFailures, Buffer, Pending} \subseteq Nat \ {0}
  /\ {Budget, MaxSymbols, MaxStops} \subseteq Nat
  /\ Faults \subseteq {"tx", "write", "tool", "kill"}

VARIABLES
  text,    \* HEAD of every repository: the content of each file
  mem,     \* watch.State: the content of each file in the commit indexed
  saved,   \* the state file
  w,       \* watchers
  db,      \* claims databases, what is committed
  view,    \* what the pipeline's open transaction sees
  chan,    \* pathCh
  acc,     \* accumulated paths
  armed,   \* the debounce timer runs
  e,       \* enrichment runs
  reqs,    \* reqCh of the client
  proc,    \* the process
  missed,  \* history: symbols a failure kept from being decided
  seen,    \* history: content of each file the pipeline processed last
  forced,  \* history: symbols enriched with --force
  stops    \* history: ends of a process

repository == <<text, w, mem, saved, seen>>
queue      == <<chan, acc, armed>>
store      == <<db, view>>
vars == <<text, mem, saved, w, db, view, chan, acc, armed, e, reqs, proc,
          missed, seen, forced, stops>>
-----------------------------------------------------------------------------
FilesOf(r)  == {f \in Files : RepoOf[f] = r}
SymsIn(F)   == {s \in Syms : FileOf[s] \in F}
SymsOf(r)   == SymsIn(FilesOf(r))
Tree        == [Files -> Nat]

\* A claims database: content hash of each file, versions of the semantic
\* claims of each symbol, its enrichment_failed rows, and the versions of
\* its enrichment_permanently_failed rows.
Database ==
  [hash : Tree, claims : [Syms -> SUBSET Nat],
   fails : [Syms -> 0 .. MaxFailures - 1], perm : [Syms -> SUBSET Nat]]
NoDatabase ==
  [hash  |-> [f \in Files |-> 0], claims |-> [s \in Syms |-> {}],
   fails |-> [s \in Syms |-> 0],  perm   |-> [s \in Syms |-> {}]]

Watcher ==
  [at : {"idle", "run", "tx", "done", "rename", "ended"},
   to : Tree, todo : SUBSET Files, sent : SUBSET Files, snap : Tree]
NoTree == [f \in Files |-> 0]
Idle == [at |-> "idle", to |-> NoTree, todo |-> {}, sent |-> {}, snap |-> NoTree]

EnrichRun ==
  [at : {"idle", "next", "ask", "wait", "close"}, todo : SUBSET Syms, cur : Syms \cup {0},
   ver : Nat, left : 0 .. Predicates, got : BOOLEAN, ok : BOOLEAN,
   calls : Nat, budget : Nat, force : BOOLEAN]
NoRun == [at |-> "idle", todo |-> {}, cur |-> 0, ver |-> 0, left |-> 0,
          got |-> FALSE, ok |-> FALSE, calls |-> 0, budget |-> 0, force |-> FALSE]

TypeOK ==
  /\ {text, mem, saved, seen} \subseteq Tree
  /\ w \in [Repos -> Watcher] /\ e \in [Repos -> EnrichRun]
  /\ db \in [Repos -> Database] /\ view \in [Repos -> Database]
  /\ chan \in [Repos -> Seq(SUBSET Files)] /\ acc \in [Repos -> SUBSET Files]
  /\ armed \in [Repos -> BOOLEAN]
  /\ \A r \in Repos : Len(chan[r]) <= Buffer /\ (armed[r] <=> acc[r] # {})
  /\ reqs \in Seq(Repos \X Syms \X (1 .. Predicates)) /\ Len(reqs) <= Pending
  /\ proc \in {"up", "stopping", "closing", "off", "cli"}
  /\ missed \subseteq Syms /\ forced \subseteq Syms
  /\ stops \in 0 .. MaxStops + 1

Init ==
  /\ text = [f \in Files |-> 1]
  /\ mem = NoTree /\ saved = NoTree /\ seen = NoTree
  /\ w = [r \in Repos |-> Idle] /\ e = [r \in Repos |-> NoRun]
  /\ db = [r \in Repos |-> NoDatabase] /\ view = db
  /\ chan = [r \in Repos |-> <<>>] /\ acc = [r \in Repos |-> {}]
  /\ armed = [r \in Repos |-> FALSE]
  /\ reqs = <<>> /\ proc = "up"
  /\ missed = {} /\ forced = {} /\ stops = 0

Fault(f) == f \in Faults
Running  == proc \in {"up", "stopping", "closing"}
-----------------------------------------------------------------------------
(* The claims database: ClaimsDB.exec is the open transaction while the    *)
(* pipeline has one, for every caller.  Once it ended and until exec is    *)
(* put back, every read and write through exec fails.                      *)
Readable(r) == w[r].at # "done"
Seen(r)     == IF w[r].at = "tx" THEN view[r] ELSE db[r]
Write(r, d) ==
  IF w[r].at = "tx" THEN view' = [view EXCEPT ![r] = d] /\ UNCHANGED db
                    ELSE db' = [db EXCEPT ![r] = d] /\ UNCHANGED view

\* RunInTransaction of the pipeline for a changed file; it sees its own rows.
TxBegin(r) == \E f \in w[r].todo :
  /\ Running /\ w[r].at = "run"
  /\ view' = [view EXCEPT ![r] = [db[r] EXCEPT !.hash[f] = w[r].to[f]]]
  /\ w' = [w EXCEPT ![r].at = "tx", ![r].todo = @ \ {f}]
  /\ seen' = [seen EXCEPT ![f] = w[r].to[f]]
  /\ UNCHANGED <<text, mem, saved, db, e, queue, reqs, proc, missed, forced, stops>>

TxCommit(r) ==
  /\ Running /\ w[r].at = "tx"
  /\ db' = [db EXCEPT ![r] = view[r]]
  /\ view' = [view EXCEPT ![r] = NoDatabase]
  /\ w' = [w EXCEPT ![r].at = "done"]
  /\ UNCHANGED <<text, mem, saved, seen, e, queue, reqs, proc, missed, forced, stops>>

\* What the enricher wrote meanwhile goes with the transaction, and the file
\* that failed keeps the hash it had.
TxRollback(r) ==
  /\ Running /\ w[r].at = "tx" /\ Fault("tx")
  /\ view' = [view EXCEPT ![r] = NoDatabase]
  /\ w' = [w EXCEPT ![r].at = "done"]
  /\ missed' = missed \cup
       {s \in SymsOf(r) : \/ view[r].claims[s] # db[r].claims[s]
                          \/ view[r].fails[s] # db[r].fails[s]
                          \/ view[r].perm[s] # db[r].perm[s]
                          \/ view[r].hash[FileOf[s]] # db[r].hash[FileOf[s]]}
  /\ UNCHANGED <<text, mem, saved, seen, db, e, queue, reqs, proc, forced, stops>>

TxDone(r) ==
  /\ Running /\ w[r].at = "done"
  /\ w' = [w EXCEPT ![r].at = "run"]
  /\ UNCHANGED <<text, mem, saved, seen, store, e, queue, reqs, proc, missed, forced, stops>>
-----------------------------------------------------------------------------
(* Watchers                                                                *)
SameFor(r, S, T) == \A f \in FilesOf(r) : S[f] = T[f]
ForRepo(r, S, T) == [f \in Files |-> IF RepoOf[f] = r THEN S[f] ELSE T[f]]

Commit(f) ==
  /\ text[f] < MaxEdits[f]
  /\ text' = [text EXCEPT ![f] = @ + 1]
  /\ UNCHANGED <<mem, saved, w, seen, store, e, queue, reqs, proc, missed, forced, stops>>

\* check: HEAD differs from the commit indexed, and the pipeline runs.
Check(r) ==
  LET changed == {f \in FilesOf(r) : text[f] # mem[f]}
  IN /\ proc = "up" /\ w[r].at = "idle" /\ changed # {}
     /\ w' = [w EXCEPT ![r] = [Idle EXCEPT !.at = "run", !.to = text,
                                           !.todo = changed, !.sent = changed]]
     /\ UNCHANGED <<text, mem, saved, seen, store, e, queue, reqs, proc, missed,
                    forced, stops>>

\* Mutant of Send: the state remembers what HEAD is by then.
SendHead(r) ==
  /\ Running /\ w[r].at = "run" /\ w[r].todo = {}
  /\ IF Len(chan[r]) < Buffer
     THEN chan' = [chan EXCEPT ![r] = Append(@, w[r].sent)] /\ UNCHANGED missed
     ELSE missed' = missed \cup SymsIn(w[r].sent) /\ UNCHANGED chan
  /\ mem' = ForRepo(r, text, mem)
  /\ w' = [w EXCEPT ![r].at = "rename", ![r].snap = mem']
  /\ UNCHANGED <<text, saved, seen, store, acc, armed, e, reqs, proc, forced, stops>>

\* OnExtract sends the changed paths, and a full channel drops them; then
\* the commit is remembered and the state of all watchers is marshalled.
Send(r) ==
  /\ Running /\ w[r].at = "run" /\ w[r].todo = {}
  /\ IF Len(chan[r]) < Buffer
     THEN chan' = [chan EXCEPT ![r] = Append(@, w[r].sent)] /\ UNCHANGED missed
     ELSE missed' = missed \cup SymsIn(w[r].sent) /\ UNCHANGED chan
  /\ mem' = ForRepo(r, w[r].to, mem)
  /\ w' = [w EXCEPT ![r].at = "rename", ![r].snap = mem']
  /\ UNCHANGED <<text, saved, seen, store, acc, armed, e, reqs, proc, forced, stops>>

\* SaveState renames what it marshalled: the renames of two watchers may
\* come in another order than their marshals.  (A save that fails leaves the
\* file as it was, as the end of the process before the rename does.)
SaveState(r) ==
  /\ Running /\ w[r].at = "rename"
  /\ saved' = w[r].snap
  /\ w' = [w EXCEPT ![r] = Idle]
  /\ UNCHANGED <<text, mem, seen, store, e, queue, reqs, proc, missed, forced, stops>>
-----------------------------------------------------------------------------
(* The queue                                                               *)
Receive(r) ==
  /\ Running /\ e[r].at = "idle" /\ chan[r] # <<>>
  /\ acc' = [acc EXCEPT ![r] = @ \cup Head(chan[r])]
  /\ chan' = [chan EXCEPT ![r] = Tail(@)]
  /\ armed' = [armed EXCEPT ![r] = TRUE]
  /\ UNCHANGED <<repository, store, e, reqs, proc, missed, forced, stops>>

\* Symbol rows come in the order the database gives them, in livedocs enrich
\* ranked by the imports of their package.
ById(s, t)   == s < t
Ranked(s, t) ==
  \/ Fanin[FileOf[s]] > Fanin[FileOf[t]]
  \/ Fanin[FileOf[s]] = Fanin[FileOf[t]] /\ s < t
Before(s, t) == IF proc \in {"off", "cli"} THEN Ranked(s, t) ELSE ById(s, t)
Capped(S, n) == {s \in S : n = 0 \/ Cardinality({t \in S : Before(t, s)}) < n}

\* A run goes on with its next symbol or is over.
Go(r, run) ==
  e' = [e EXCEPT ![r] = IF run.todo = {} THEN NoRun ELSE [run EXCEPT !.at = "next"]]

\* The timer fires: processBatch resolves the accumulated paths to symbols
\* and runs the enricher over them, at most MaxBatch.
Fire(r) ==
  LET known == {s \in SymsIn(acc[r]) : db[r].hash[FileOf[s]] # 0}
      found == IF Readable(r) THEN known ELSE {}
      batch == Capped(found, MaxBatch)
  IN /\ Running /\ e[r].at = "idle" /\ armed[r]
     /\ acc' = [acc EXCEPT ![r] = {}]
     /\ armed' = [armed EXCEPT ![r] = FALSE]
     /\ Go(r, [NoRun EXCEPT !.todo = batch])
     /\ missed' = missed \cup (SymsIn(acc[r]) \ batch)
     /\ UNCHANGED <<repository, store, chan, reqs, proc, forced, stops>>
-----------------------------------------------------------------------------
(* Enricher.Run                                                            *)
Cancelled == proc \in {"stopping", "closing"}
Spent(run) == run.budget > 0 /\ run.calls >= run.budget

\* Mutants of IsCacheHit: a permanent tombstone is retried as the others are;
\* claims are a hit whatever their version.
IsCacheHitRetries(d, s, ver) == ver # 0 /\ ver \in d.claims[s]
IsCacheHitAnyVersion(d, s, ver) == ver # 0 /\ (d.claims[s] # {} \/ ver \in d.perm[s])

\* isCacheHit: enriched, or given up, at this content.
IsCacheHit(d, s, ver) == ver # 0 /\ (ver \in d.claims[s] \/ ver \in d.perm[s])

\* A symbol taken in hand.
InHand(run, s, ver) ==
  [run EXCEPT !.at = "ask", !.todo = @ \ {s}, !.cur = s, !.ver = ver,
              !.left = Predicates, !.got = FALSE, !.ok = FALSE]

\* The run ends at a cancelled context or a spent budget; otherwise the next
\* symbol is looked up, and skipped when it is a cache hit.
Take(r) == \E s \in e[r].todo :
  LET run == e[r]
      ver == IF Readable(r) THEN Seen(r).hash[FileOf[s]] ELSE 0
      hit == Readable(r) /\ ~run.force /\ IsCacheHit(Seen(r), s, ver)
  IN /\ run.at = "next" /\ \A t \in run.todo : ~Before(t, s)
     /\ IF Cancelled \/ Spent(run)
        THEN e' = [e EXCEPT ![r] = NoRun] /\ missed' = missed \cup run.todo
        ELSE /\ missed' = missed \ {s}
             /\ IF hit THEN Go(r, [run EXCEPT !.todo = @ \ {s}])
                ELSE e' = [e EXCEPT ![r] = InHand(run, s, ver)]
     /\ forced' = IF run.force THEN forced \cup {s} ELSE forced
     /\ UNCHANGED <<repository, store, queue, reqs, proc, stops>>

\* What a call leaves behind: the next predicate, or the symbol is done.
Asked(run) == [run EXCEPT !.left = @ - 1,
                          !.at = IF run.left = 1 \/ Spent(run) THEN "close" ELSE "ask"]

\* Route sends a request to the client, whose channel is open.
Ask(r) ==
  /\ e[r].at = "ask" /\ proc # "closing" /\ Len(reqs) < Pending
  /\ reqs' = Append(reqs, <<r, e[r].cur, e[r].left>>)
  /\ e' = [e EXCEPT ![r].at = "wait",
                       ![r].calls = IF e[r].budget > 0 THEN @ + 1 ELSE @]
  /\ UNCHANGED <<repository, store, queue, proc, missed, forced, stops>>

\* A cancelled context ends a call before it is sent or answered: a failure.
Abandon(r) ==
  /\ Cancelled /\ e[r].at \in {"ask", "wait"}
  /\ e' = [e EXCEPT ![r] = Asked(@)]
  /\ UNCHANGED <<repository, store, queue, reqs, proc, missed, forced, stops>>

Waiting(req) == e[req[1]].at = "wait" /\ e[req[1]].cur = req[2] /\ e[req[1]].left = req[3]

\* The worker takes the requests one at a time.  A call fails when the
\* subprocess cannot be spawned or has died, or the tool reports an error or
\* an empty answer; a request nobody waits for is answered to nobody.
Served == reqs # <<>> /\ reqs' = Tail(reqs)

\* A text about the symbol is stored under the version read before.
Stored(r) ==
  LET run == e[r]
  IN \/ /\ Readable(r)
        /\ Write(r, [Seen(r) EXCEPT !.claims[run.cur] = @ \cup {run.ver}])
        /\ e' = [e EXCEPT ![r] = [Asked(run) EXCEPT !.ok = TRUE, !.got = TRUE]]
        /\ missed' = IF run.ver = 0 THEN missed \cup {run.cur} ELSE missed
     \/ /\ ~Readable(r) \/ Fault("write")
        /\ e' = [e EXCEPT ![r] = [Asked(run) EXCEPT !.ok = TRUE]]
        /\ missed' = missed \cup {run.cur}
        /\ UNCHANGED store

\* An answer that says nothing about the symbol: nothing is stored.
Vague(r) ==
  /\ e' = [e EXCEPT ![r] = [Asked(@) EXCEPT !.ok = TRUE]]
  /\ missed' = missed \cup {e[r].cur}
  /\ UNCHANGED store

Answer ==
  /\ Served
  /\ IF Waiting(reqs[1]) THEN Stored(reqs[1][1]) \/ Vague(reqs[1][1])
                         ELSE UNCHANGED <<e, store, missed>>
  /\ UNCHANGED <<repository, queue, proc, forced, stops>>

Error ==
  /\ Fault("tool") /\ Served
  /\ e' = IF Waiting(reqs[1]) THEN [e EXCEPT ![reqs[1][1]] = Asked(@)] ELSE e
  /\ UNCHANGED <<repository, store, queue, proc, missed, forced, stops>>

\* A symbol with a claim loses its tombstones, by a connection of its own
\* that the pipeline's transaction locks out: the error is ignored.
RemoveTombstones(r, d, s) ==
  /\ db' = IF w[r].at = "tx" THEN db
           ELSE [db EXCEPT ![r].fails[s] = 0, ![r].perm[s] = {}]
  /\ UNCHANGED <<view, missed>>

\* A symbol of which every call failed gets a tombstone, the last of
\* MaxFailures for good; the others are then deleted, by their own connection.
Escalate(r, s, ver) ==
  LET d    == Seen(r)
      last == d.fails[s] + 1 >= MaxFailures
  IN IF ~Readable(r) THEN missed' = missed \cup {s} /\ UNCHANGED store
     ELSE /\ Write(r, IF ~last THEN [d EXCEPT !.fails[s] = @ + 1]
                      ELSE [d EXCEPT !.perm[s] = @ \cup {ver},
                                     !.fails[s] = IF w[r].at = "tx" THEN @ ELSE 0])
          /\ missed' = IF last /\ ver = 0 THEN missed \cup {s} ELSE missed

\* The symbol in hand is put away.
PutAway(run) == [run EXCEPT !.cur = 0, !.ver = 0, !.left = 0, !.got = FALSE, !.ok = FALSE]

Close(r) ==
  LET run == e[r]
  IN /\ run.at = "close"
     /\ \/ run.got /\ RemoveTombstones(r, db[r], run.cur)
        \/ ~run.got /\ ~run.ok /\ Escalate(r, run.cur, run.ver)
        \/ ~run.got /\ run.ok /\ UNCHANGED <<store, missed>>
     /\ Go(r, PutAway(run))
     /\ UNCHANGED <<repository, queue, reqs, proc, forced, stops>>
-----------------------------------------------------------------------------
(* Processes                                                               *)
\* A signal cancels the context; the watchers end at their next tick.
Stop ==
  /\ proc = "up" /\ stops < MaxStops
  /\ proc' = "stopping"
  /\ UNCHANGED <<repository, store, queue, e, reqs, missed, forced, stops>>

End(r) ==
  /\ proc = "stopping" /\ w[r].at = "idle"
  /\ w' = [w EXCEPT ![r].at = "ended"]
  /\ UNCHANGED <<text, mem, saved, seen, store, queue, e, reqs, proc, missed, forced, stops>>

\* Every watcher ended: the deferred Close of the client closes its channel
\* and waits for the worker; the queues are not waited for.
CloseClient ==
  /\ proc = "stopping" /\ \A r \in Repos : w[r].at = "ended"
  /\ proc' = "closing"
  /\ UNCHANGED <<repository, store, queue, e, reqs, missed, forced, stops>>

\* The process is gone: open transactions roll back, and what the queues and
\* the runs still had to do is lost.
Halt ==
  /\ proc' = "off" /\ stops' = stops + 1
  /\ w' = [r \in Repos |-> Idle] /\ e' = [r \in Repos |-> NoRun]
  /\ view' = [r \in Repos |-> NoDatabase]
  /\ chan' = [r \in Repos |-> <<>>] /\ acc' = [r \in Repos |-> {}]
  /\ armed' = [r \in Repos |-> FALSE]
  /\ reqs' = <<>>
  /\ mem' = saved
  /\ missed' = missed \cup {s \in Syms : w[RepoOf[FileOf[s]]].at = "tx"}
       \cup (UNION {SymsIn(acc[r] \cup UNION ToSet(chan[r])) \cup e[r].todo
                    \cup ({e[r].cur} \ {0}) : r \in Repos})
  /\ UNCHANGED <<text, saved, seen, db, forced>>

Exit == proc = "closing" /\ reqs = <<>> /\ Halt
Kill ==
  /\ Fault("kill")
  /\ \/ Running /\ stops < MaxStops
     \/ proc = "cli"
  /\ Halt

\* A request is sent on the channel Close closed: the process panics.
Panic == proc = "closing" /\ (\E r \in Repos : e[r].at = "ask") /\ Halt

Restart ==
  /\ proc = "off" /\ stops <= MaxStops
  /\ proc' = "up"
  /\ UNCHANGED <<repository, store, queue, e, reqs, missed, forced, stops>>

\* livedocs enrich over one database: symbols ranked, capped, and a budget.
CliEnrich(r) == \E force \in BOOLEAN :
  LET known == {s \in SymsOf(r) : db[r].hash[FileOf[s]] # 0}
      todo  == Capped(Capped(known, MaxSymbols), MaxBatch)
  IN /\ proc = "off" /\ stops <= MaxStops /\ todo # {}
     /\ proc' = "cli"
     /\ e' = [e EXCEPT ![r] = [NoRun EXCEPT !.at = "next", !.todo = todo,
                                            !.budget = Budget, !.force = force]]
     /\ UNCHANGED <<repository, store, queue, reqs, missed, forced, stops>>

CliEnd == proc = "cli" /\ (\A r \in Repos : e[r].at = "idle") /\ Halt
-----------------------------------------------------------------------------
Pipeline(r) == TxBegin(r) \/ TxCommit(r) \/ TxRollback(r) \/ TxDone(r)
Watch(r)    == Check(r) \/ Send(r) \/ SaveState(r)
Queue(r)    == Receive(r) \/ Fire(r)
Enrich(r)   == Take(r) \/ Ask(r) \/ Abandon(r) \/ Close(r)
Worker      == Answer \/ Error
Process     == Stop \/ (\E r \in Repos : End(r)) \/ CloseClient \/ Exit \/ Kill \/ Panic
               \/ Restart \/ (\E r \in Repos : CliEnrich(r)) \/ CliEnd

Next ==
  \/ \E f \in Files : Commit(f)
  \/ \E r \in Repos : Pipeline(r) \/ Watch(r) \/ Queue(r) \/ Enrich(r)
  \/ Worker
  \/ Process

Spec == Init /\ [][Next]_vars
-----------------------------------------------------------------------------
(* Properties                                                              *)

\* No state save skips work: after a restart the watcher resumes from a
\* commit the pipeline has processed, whatever the order in which watchers
\* that share the state marshal and rename it (watch/state.go SaveState).
NothingSkipped == \A f \in Files : saved[f] <= seen[f]

\* Giving up and having succeeded exclude each other: a symbol is not
\* permanently failed at a content it has claims of, unless --force asked
\* again (enrich.go isCacheHit, removeTombstones, insertOrEscalateTombstone).
GivenUpHasNothing ==
  \A r \in Repos : \A s \in SymsOf(r) \ forced :
    db[r].claims[s] \cap db[r].perm[s] \subseteq {0}

Quiet(r) ==
  /\ proc = "up" /\ w[r].at = "idle" /\ SameFor(r, text, mem)
  /\ chan[r] = <<>> /\ acc[r] = {} /\ e[r].at = "idle"

Decided(d, s) ==
  \/ d.hash[FileOf[s]] \in d.claims[s] \cup d.perm[s]
  \/ d.fails[s] > 0

\* Once a repository is quiet, every symbol is enriched, failed or given up
\* at its file's present content, unless a failure the code only logs kept it
\* from being decided: a full channel, a cut batch, a database error, a
\* transaction rolled back, an answer that says nothing, an end of the process.
Settled ==
  \A r \in Repos : Quiet(r) =>
    \A s \in SymsOf(r) \ missed : Decided(db[r], s)

\* No change is forgotten: neither by a watcher that resumes, nor by a queue that
\* has gone quiet.
NothingForgotten == NothingSkipped /\ Settled
=============================================================================
