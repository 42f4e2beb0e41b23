----------------------------- MODULE MiningTool ------------------------------
(***************************************************************************)
(* Who asks the tribal mining service: the MCP tool tribal_mine_on_demand  *)
(* (mcpserver/tribal_mine.go), which takes a token of the client's session *)
(* and builds a service for the call (cmd/livedocs/mcp_mining_factory.go), *)
(* and the batch miner of livedocs extract (extract_cmd.go), which mines   *)
(* the files the ranker puts first (db/rank_files.go).                     *)
(*                                                                         *)
(* Extends TribalMining: a caller is a tool call or a batch, and every     *)
(* step of a flight is TribalMining's with what its callers make of it.    *)
(*                                                                         *)
(* History variables (not in the code): admitted, witnessed and spent.     *)
(***************************************************************************)
EXTENDS TribalMining, Integers

CONSTANTS
  Batches,     \* callers that are batch runs; the others are tool calls
  RateLimited, \* Config.MineRateLimiter is set; livedocs mcp leaves it nil
  Burst,       \* tokens of a session; the tool calls are of one session
  MaxRefills,  \* bound: tokens refilled in a behaviour
  Mineable,    \* files the exclusion globs let through
  Supported,   \* files of an extension the batch mines
  MaxFiles,    \* files a batch mines at most
  Surface      \* [Files -> public surface and fan-in of a file]

ASSUME ToolAssumption ==
  /\ PerCall
  /\ RateLimited \in BOOLEAN
  /\ Batches \subseteq Callers /\ IsFiniteSet(Batches)
  /\ Burst \in Nat \ {0}
  /\ MaxRefills \in Nat
  /\ Mineable \subseteq Files
  /\ Supported \subseteq Files
  /\ MaxFiles \in Nat
  /\ Surface \in [Files -> Nat]

VARIABLES
  tokens,     \* the session's bucket in the server's KeyedLimiter
  refills,    \* tokens refilled so far
  mined,      \* the MiningResult of a flight: facts stored, upserts that failed
  got,        \* the results MineSymbol has collected for a caller
  reply,      \* the last reply of a caller
  admitted,   \* services built for a call or a batch
  witnessed,  \* comments stored or rejected for a caller while it waited
  spent       \* LLM calls made, whoever asked

tool == <<tokens, refills, mined, got, reply, admitted, witnessed, spent>>
toolVars == <<vars, tool>>

Nothing == [facts |-> 0, failed |-> 0]
Errors == {"limited", "unavailable", "budget", "canceled"}

ToolInit ==
  /\ Init
  /\ tokens = Burst
  /\ refills = 0
  /\ mined = [s \in Services |-> [f \in Files |-> Nothing]]
  /\ got = [c \in Callers |-> Nothing]
  /\ reply = [c \in Callers |-> "none yet"]
  /\ admitted = 0
  /\ witnessed = [c \in Callers |-> {}]
  /\ spent = 0

\* Tool calls parked on the flight of a file: a batch only logs its results.
Parked(s, f) == {c \in Callers \ Batches : ServiceOf[c] = s /\ f \in caller[c].at}

-----------------------------------------------------------------------------
(* Calls *)

\* The agent reads the reply; a batch has none.
Replies(c, kind) ==
  reply' = IF c \in Batches THEN reply ELSE [reply EXCEPT ![c] = kind]

\* The service is built and MineSymbol starts with nothing.
Begins(c) ==
  /\ Call(c)
  /\ admitted' = admitted + 1
  /\ got' = [got EXCEPT ![c] = Nothing]
  /\ witnessed' = [witnessed EXCEPT ![c] = {}]
  /\ Replies(c, "none yet")
  /\ UNCHANGED <<refills, mined, spent>>

\* Allow: a token of the session is taken; without a limiter everyone passes.
Allowed ==
  IF RateLimited THEN tokens > 0 /\ tokens' = tokens - 1 ELSE UNCHANGED tokens

\* The session is allowed, the repository has a database, an LLM client and a
\* git remote are found.
Admit(c) ==
  /\ c \notin Batches
  /\ Allowed
  /\ Begins(c)

\* Mutant: the bucket is asked after the service was built and put to use.
DenyLate(c) ==
  /\ c \notin Batches
  /\ RateLimited /\ tokens = 0
  /\ Begins(c)
  /\ UNCHANGED tokens

\* The session has no token: no service is built.
Deny(c) ==
  /\ c \notin Batches
  /\ caller[c].pc = "idle"
  /\ RateLimited /\ tokens = 0
  /\ Replies(c, "limited")
  /\ UNCHANGED <<vars, tokens, refills, mined, got, admitted, witnessed, spent>>

\* No such repository, no LLM client, no git remote, or the symbol cannot be
\* looked up; or it is in no file, which is nothing new.  The token is gone.
Reject(c) ==
  /\ c \notin Batches
  /\ caller[c].pc = "idle"
  /\ Allowed
  /\ Replies(c, "unavailable") \/ Replies(c, "none")
  /\ witnessed' = [witnessed EXCEPT ![c] = {}]
  /\ UNCHANGED <<vars, refills, mined, got, admitted, spent>>

\* A second passes.
Refill ==
  /\ refills < MaxRefills
  /\ tokens < Burst
  /\ refills' = refills + 1
  /\ tokens' = tokens + 1
  /\ UNCHANGED <<vars, mined, got, reply, admitted, witnessed, spent>>

-----------------------------------------------------------------------------
(* The batch miner *)

\* Facts a file has already.
Existing(f) == Cardinality({b \in Bodies : evidence[f][b] # {}})

\* Never mined first: a file no cursor was saved for, one whose window is
\* always empty included; then by what is public and used and not yet known.
Above(f, g) ==
  LET Weight(h) == Surface[h] - 5 * Existing(h)
  IN IF (cursor[f] = {}) # (cursor[g] = {}) THEN cursor[f] = {}
     ELSE Weight(f) > Weight(g)

\* At most limit mineable files with no file left out above one that is in;
\* ties fall to the path, which is to say either way.
RankFilesForMining(limit) ==
  {paths \in SUBSET Mineable :
     /\ Cardinality(paths) = IF Cardinality(Mineable) < limit
                             THEN Cardinality(Mineable) ELSE limit
     /\ \A f \in paths, g \in Mineable \ paths : ~Above(g, f)}

\* A run of livedocs extract: the whole ranking is one service's work, with no
\* token and one budget.  A file of another extension has taken a place of the
\* ranking when it is skipped.  Bound: a batch runs once.
Batch(c) ==
  /\ c \in Batches
  /\ caller[c].calls = 0
  /\ Begins(c)
  /\ caller'[c].todo \in {paths \cap Supported : paths \in RankFilesForMining(MaxFiles)}
  /\ UNCHANGED tokens

-----------------------------------------------------------------------------
(* Flights, and what they hand to their callers *)

\* Mutant: the failures of a file are counted when it has facts only.
CollectFacts(s, f) ==
  /\ got' = [c \in Callers |->
       IF c \in Parked(s, f) /\ mined[s][f].facts > 0
       THEN [facts  |-> got[c].facts + mined[s][f].facts,
             failed |-> got[c].failed + mined[s][f].failed]
       ELSE got[c]]
  /\ mined' = [mined EXCEPT ![s][f] = Nothing]

\* The result of the flight is appended to the results of who waited for it.
Collect(s, f) ==
  /\ got' = [c \in Callers |->
       IF c \in Parked(s, f)
       THEN [facts  |-> got[c].facts + mined[s][f].facts,
             failed |-> got[c].failed + mined[s][f].failed]
       ELSE got[c]]
  /\ mined' = [mined EXCEPT ![s][f] = Nothing]

Counts(s, f, field) ==
  /\ mined' = [mined EXCEPT ![s][f][field] = @ + 1]
  /\ LET done == flight[s][f].facts \ flight'[s][f].facts
     IN witnessed' = [c \in Callers |->
          IF c \in Parked(s, f) THEN witnessed[c] \cup {fact[1] : fact \in done}
          ELSE witnessed[c]]
  /\ UNCHANGED <<tokens, refills, got, reply, admitted, spent>>

FlightStep(s, f) ==
  \/ /\ \/ LoadCursor(s, f) \/ FindPRs(s, f) \/ FetchComments(s, f)
        \/ CheckBudget(s, f) \/ ExtractDone(s, f) \/ BumpGeneration(s, f)
        \/ SkipPR(s, f)
     /\ UNCHANGED tool
  \* The call is paid for, whether it answers or not.
  \/ /\ ClassifyComment(s, f) \/ ClassifyFails(s, f)
     /\ spent' = spent + 1
     /\ UNCHANGED <<tokens, refills, mined, got, reply, admitted, witnessed>>
  \/ UpsertFact(s, f) /\ Counts(s, f, "facts")
  \/ UpsertFails(s, f) /\ Counts(s, f, "failed")
  \/ /\ SaveCursor(s, f) \/ SaveFails(s, f)
     /\ Collect(s, f)
     /\ UNCHANGED <<tokens, refills, reply, admitted, witnessed, spent>>
  \* MineSymbol goes on with the next file, whatever stopped this one.
  \/ /\ SymbolFails(s, f) \/ FindFails(s, f) \/ Regress(s, f)
     /\ UNCHANGED tool
  \* The budget is spent: an error, whatever other files gave.
  \/ /\ BudgetExceeded(s, f)
     /\ reply' = [c \in Callers |-> IF c \in Parked(s, f) THEN "budget" ELSE reply[c]]
     /\ UNCHANGED <<tokens, refills, mined, got, admitted, witnessed, spent>>

\* buildTribalMineResponse: the facts with the number of failed upserts; or
\* that there is nothing new, unless an upsert failed.
Rendered(c) ==
  IF got[c].facts > 0 THEN "facts" ELSE IF got[c].failed > 0 THEN "warning" ELSE "none"

ToolStep(c) ==
  \/ Admit(c) \/ Deny(c) \/ Reject(c) \/ Batch(c)
  \/ (\E f \in Files : Enter(c, f)) /\ UNCHANGED tool
  \/ /\ GiveUp(c)
     /\ Replies(c, "canceled")
     /\ UNCHANGED <<tokens, refills, mined, got, admitted, witnessed, spent>>
  \/ /\ Return(c)
     /\ Replies(c, Rendered(c))
     /\ UNCHANGED <<tokens, refills, mined, got, admitted, witnessed, spent>>

\* livedocs extract --force-remine, or the server stops: its buckets are full
\* when it starts again.
Outage ==
  \/ ForceRemine /\ UNCHANGED tool
  \/ /\ Crash
     /\ refills + Burst - tokens <= MaxRefills
     /\ refills' = refills + Burst - tokens
     /\ tokens' = Burst
     /\ mined' = [s \in Services |-> [f \in Files |-> Nothing]]
     /\ got' = [c \in Callers |-> Nothing]
     /\ reply' = [c \in Callers |-> "none yet"]
     /\ witnessed' = [c \in Callers |-> {}]
     /\ UNCHANGED <<admitted, spent>>

ToolNext ==
  \/ \E c \in Callers : ToolStep(c)
  \/ \E s \in Services, f \in Files : FlightStep(s, f)
  \/ Refill
  \/ Outage

ToolSpec == ToolInit /\ [][ToolNext]_toolVars

-----------------------------------------------------------------------------
(* Properties *)

\* The only bound there is on what agents spend: a denied or rejected call
\* spends nothing and an admitted one the budget of its own service at most, so
\* with a limiter LLM calls are bounded by the session's tokens, refills and
\* restarts included, and the batches, times the budget, whatever fails or is
\* mined again (tribal_mine.go:436-458, mcp_mining_factory.go:118-127).
SpendBounded ==
  DailyBudget > 0 =>
    /\ spent <= admitted * DailyBudget
    /\ RateLimited => admitted <= Burst + refills + Cardinality(Batches)

\* An agent is told that there is nothing new only when no fact was stored or
\* refused by the database for it while it waited, in a flight of its own or one
\* it shared (tribal_mine.go:295-312).
NoneMeansNone ==
  \A c \in Callers : reply[c] = "none" => witnessed[c] = {}
=============================================================================
