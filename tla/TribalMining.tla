---------------------------- MODULE TribalMining ----------------------------
(***************************************************************************)
(* The tribal mining service (extractor/tribal/service.go) with the PR     *)
(* comment miner it owns (extractor/tribal/pr_comment.go) and the cursor   *)
(* columns of the claims database (db/pr_id_set.go).                       *)
(*                                                                         *)
(* Callers run MineSymbol: they mine the files of a symbol one by one.     *)
(* MineFile deduplicates concurrent callers of one file with singleflight, *)
(* so a FLIGHT (one execution of mineFileOnce) is indexed by service and   *)
(* file.  A flight loads the stored cursor, asks GitHub for a window of    *)
(* PRs, fetches the comments of the PRs that are new, pays one LLM call    *)
(* per comment, upserts the facts one transaction each, and writes the     *)
(* union of cursor and window back last.  Several services may share one   *)
(* database: the MCP factory builds a service for every tool call.         *)
(*                                                                         *)
(* History variables (not in the code): fate and charges.                  *)
(***************************************************************************)
EXTENDS Naturals, FiniteSets

CONSTANTS
  Services,      \* TribalMiningService values alive in the process
  Callers,       \* goroutines that call MineSymbol
  ServiceOf,     \* the service each caller uses
  PerCall,       \* TRUE: a call builds its service afresh (the MCP factory)
  Files,
  PRs,           \* PR numbers
  Comments,      \* review comments
  CommentsOf,    \* [Files -> [PRs -> SUBSET Comments]]
  Bodies,        \* clusters (kind, scrubbed body) an LLM verdict can fall in
  DailyBudget,   \* 0 means unlimited
  MaxPRsPerFile, \* limit of the gh window
  MaxCalls,      \* bound: calls one caller makes in a behaviour
  Faults         \* which failures and interventions may happen

FaultKinds ==
  {"symbol", "read", "find", "regress", "fetch", "llm", "upsert", "write",
   "cancel", "throttle", "crash", "remine"}

ASSUME ConstantsAssumption ==
  /\ IsFiniteSet(Files)
  /\ ServiceOf \in [Callers -> Services]
  /\ PerCall \in BOOLEAN
  /\ PRs \subseteq Nat
  /\ CommentsOf \in [Files -> [PRs -> SUBSET Comments]]
  /\ DailyBudget \in Nat
  /\ MaxPRsPerFile \in Nat
  /\ MaxCalls \in Nat
  /\ Faults \subseteq FaultKinds

\* A service built per call is used by one caller only.
ASSUME PerCallAssumption ==
  PerCall => \A c, d \in Callers : ServiceOf[c] = ServiceOf[d] => c = d

VARIABLES
  cursor,        \* source_files.last_pr_id_set
  version,       \* source_files.pr_miner_version
  evidence,      \* tribal_evidence rows of the fact in a cluster, per file
  corroboration, \* tribal_facts.corroboration
  callCount,     \* prCommentMiner.callCount
  generation,    \* TribalMiningService.factsGeneration
  flight,        \* the execution of mineFileOnce under way for a file
  caller,        \* MineSymbol's loop
  fate,          \* history: what became of a comment
  charges        \* history: LLM calls spent on a comment

stored  == <<cursor, version, evidence, corroboration>>
history == <<fate, charges>>
vars == <<cursor, version, evidence, corroboration, callCount, generation,
          flight, caller, fate, charges>>
-----------------------------------------------------------------------------
Versions == {"unmined", "current", "needs_remine"}
Fates    == {"null", "stored", "unfetched", "rejected"}
Stages   == {"idle", "load", "find", "mine", "checked", "store", "save"}

Flight ==
  [stage    : Stages,
   seen     : SUBSET PRs,       \* the cursor, then its union with the window
   prs      : SUBSET PRs,       \* new PRs whose comments are not fetched yet
   comments : SUBSET Comments,  \* fetched comments not classified yet
   facts    : SUBSET (Comments \X Bodies),
   wrote    : BOOLEAN]          \* len(result.Facts) > 0

Idle == [stage |-> "idle", seen |-> {}, prs |-> {}, comments |-> {},
         facts |-> {}, wrote |-> FALSE]

Caller ==
  [pc      : {"idle", "mining", "waiting"},
   todo    : SUBSET Files,
   at      : SUBSET Files,      \* the file waited for: empty or a singleton
   calls   : 0 .. MaxCalls]

AtRest == [pc |-> "idle", todo |-> {}, at |-> {}, calls |-> 0]

TypeOK ==
  /\ cursor \in [Files -> SUBSET PRs]
  /\ version \in [Files -> Versions]
  /\ evidence \in [Files -> [Bodies -> SUBSET Comments]]
  /\ corroboration \in [Files -> [Bodies -> Nat]]
  /\ callCount \in [Services -> Nat]
  /\ generation \in [Services -> Nat]
  /\ flight \in [Services -> [Files -> Flight]]
  /\ caller \in [Callers -> Caller]
  /\ fate \in [Comments -> SUBSET Fates]
  /\ charges \in [Comments -> Nat]

Init ==
  /\ cursor = [f \in Files |-> {}]
  /\ version = [f \in Files |-> "unmined"]
  /\ evidence = [f \in Files |-> [b \in Bodies |-> {}]]
  /\ corroboration = [f \in Files |-> [b \in Bodies |-> 0]]
  /\ callCount = [s \in Services |-> 0]
  /\ generation = [s \in Services |-> 0]
  /\ flight = [s \in Services |-> [f \in Files |-> Idle]]
  /\ caller = [c \in Callers |-> AtRest]
  /\ fate = [c \in Comments |-> {}]
  /\ charges = [c \in Comments |-> 0]
-----------------------------------------------------------------------------
(* Helpers *)

Fault(kind) == kind \in Faults

\* The window's highest PR number fell below the cursor's.
Regressed(observed, since) ==
  /\ observed # {}
  /\ \E p \in since : \A q \in observed : q < p

\* Mutant: the check lets the call after the last one through.
BudgetSpentLate(s) == DailyBudget > 0 /\ callCount[s] > DailyBudget

BudgetSpent(s) == DailyBudget > 0 /\ callCount[s] >= DailyBudget

\* A step inside a flight: the record changes, no caller notices.
Advance(s, f, new) ==
  /\ flight' = [flight EXCEPT ![s][f] = new]
  /\ UNCHANGED caller

\* Mutant: only a caller that gets a result leaves singleflight.
DeliveredResult(r, f, outcome) ==
  IF outcome = "failed" THEN r
  ELSE IF outcome = "budget" THEN [r EXCEPT !.pc = "idle", !.todo = {}, !.at = {}]
  ELSE [r EXCEPT !.pc = "mining", !.todo = @ \ {f}, !.at = {}]

\* What a caller does with the pair singleflight hands it: MineSymbol stops
\* on budget exhaustion and goes on with the next file otherwise.
Delivered(r, f, outcome) ==
  IF outcome = "budget"
    THEN [r EXCEPT !.pc = "idle", !.todo = {}, !.at = {}]
    ELSE [r EXCEPT !.pc = "mining", !.todo = @ \ {f}, !.at = {}]

\* mineFileOnce returns: the singleflight key is released and every caller
\* parked on it receives the same pair.
Finish(s, f, outcome) ==
  /\ flight' = [flight EXCEPT ![s][f] = Idle]
  /\ caller' = [c \in Callers |->
       IF ServiceOf[c] = s /\ f \in caller[c].at
         THEN Delivered(caller[c], f, outcome)
         ELSE caller[c]]
-----------------------------------------------------------------------------
(* Callers *)

\* MineSymbol is called; resolveSymbolFiles maps the symbol to source files.
\* The MCP factory has just built the service, with a zero call count.
Call(c) ==
  /\ caller[c].pc = "idle"
  /\ caller[c].calls < MaxCalls
  /\ \E paths \in (SUBSET Files) \ {{}} :
       caller' = [caller EXCEPT ![c] =
         [caller[c] EXCEPT !.pc = "mining", !.todo = paths, !.calls = @ + 1]]
  /\ IF PerCall
       THEN /\ callCount' = [callCount EXCEPT ![ServiceOf[c]] = 0]
            /\ generation' = [generation EXCEPT ![ServiceOf[c]] = 0]
       ELSE UNCHANGED <<callCount, generation>>
  /\ UNCHANGED <<stored, flight, history>>

\* MineFile enters singleflight: it starts a flight or joins the one there is.
Enter(c, f) ==
  LET s == ServiceOf[c] IN
  /\ caller[c].pc = "mining"
  /\ f \in caller[c].todo
  /\ caller' = [caller EXCEPT ![c] = [caller[c] EXCEPT !.pc = "waiting", !.at = {f}]]
  /\ flight' = IF flight[s][f].stage = "idle"
                 THEN [flight EXCEPT ![s][f] = [Idle EXCEPT !.stage = "load"]]
                 ELSE flight
  /\ UNCHANGED <<stored, callCount, generation, history>>

\* The call stops before the next file: the mine limiter denied it, or its
\* context is done.
GiveUp(c) ==
  /\ Fault("throttle") \/ Fault("cancel")
  /\ caller[c].pc = "mining"
  /\ caller[c].todo # {}
  /\ caller' = [caller EXCEPT ![c] = [caller[c] EXCEPT !.pc = "idle", !.todo = {}]]
  /\ UNCHANGED <<stored, callCount, generation, flight, history>>

\* Every file of the symbol was tried.
Return(c) ==
  /\ caller[c].pc = "mining"
  /\ caller[c].todo = {}
  /\ caller' = [caller EXCEPT ![c].pc = "idle"]
  /\ UNCHANGED <<stored, callCount, generation, flight, history>>
-----------------------------------------------------------------------------
(* mineFileOnce: cursor and window *)

\* UpsertSymbol and GetPRIDSet.  A read error, like the re-mine sentinel,
\* leaves an empty cursor.
LoadCursor(s, f) ==
  /\ flight[s][f].stage = "load"
  /\ \E since \in {cursor[f]} \cup (IF Fault("read") THEN {{}} ELSE {}) :
       Advance(s, f, [flight[s][f] EXCEPT
         !.stage = "find",
         !.seen = IF version[f] = "needs_remine" THEN {} ELSE since])
  /\ UNCHANGED <<stored, callCount, generation, history>>

\* A step of the flight fails: the error reaches every caller of the file.
Abort(s, f) ==
  /\ Finish(s, f, "failed")
  /\ UNCHANGED <<stored, callCount, generation, history>>

SymbolFails(s, f) ==
  Fault("symbol") /\ flight[s][f].stage = "load" /\ Abort(s, f)

\* gh pr list fails, or the leader's context is cancelled under it.
FindFails(s, f) ==
  Fault("find") /\ flight[s][f].stage = "find" /\ Abort(s, f)

\* Mutant: the whole window is mined, PRs of the cursor included.
FindAllPRs(s, f) ==
  /\ flight[s][f].stage = "find"
  /\ \E observed \in SUBSET PRs :
       /\ Cardinality(observed) <= MaxPRsPerFile
       /\ ~Regressed(observed, flight[s][f].seen)
       /\ Advance(s, f, [flight[s][f] EXCEPT
            !.seen = @ \cup observed, !.prs = observed, !.stage = "mine"])
  /\ UNCHANGED <<stored, callCount, generation, history>>

\* Mutant: the cursor to come is the window, not the union.
FindWindow(s, f) ==
  LET since == flight[s][f].seen IN
  /\ flight[s][f].stage = "find"
  /\ \E observed \in SUBSET PRs :
       /\ Cardinality(observed) <= MaxPRsPerFile
       /\ ~Regressed(observed, since)
       /\ Advance(s, f, [flight[s][f] EXCEPT
            !.seen = observed,
            !.prs = observed \ since,
            !.stage = IF observed \subseteq since THEN "store" ELSE "mine"])
  /\ UNCHANGED <<stored, callCount, generation, history>>

\* A window of merged PRs is observed: the ones not in the cursor are to be
\* mined, and the cursor to come is the union.
FindPRs(s, f) ==
  LET since == flight[s][f].seen IN
  /\ flight[s][f].stage = "find"
  /\ \E observed \in SUBSET PRs :
       /\ Cardinality(observed) <= MaxPRsPerFile
       /\ ~Regressed(observed, since)
       /\ Advance(s, f, [flight[s][f] EXCEPT
            !.seen = since \cup observed,
            !.prs = observed \ since,
            !.stage = IF observed \subseteq since THEN "store" ELSE "mine"])
  /\ UNCHANGED <<stored, callCount, generation, history>>

\* The window regressed: the file is flagged for a full re-mine.
Regress(s, f) ==
  /\ Fault("regress")
  /\ flight[s][f].stage = "find"
  /\ \E observed \in SUBSET PRs :
       /\ Cardinality(observed) <= MaxPRsPerFile
       /\ Regressed(observed, flight[s][f].seen)
  /\ cursor' = [cursor EXCEPT ![f] = {}]
  /\ version' = [version EXCEPT ![f] = "needs_remine"]
  /\ Finish(s, f, "failed")
  /\ UNCHANGED <<evidence, corroboration, callCount, generation, history>>
-----------------------------------------------------------------------------
(* mineFileOnce: ExtractForFile's loop over new PRs and their comments *)

FetchComments(s, f) ==
  /\ flight[s][f].stage = "mine"
  /\ flight[s][f].comments = {}
  /\ \E p \in flight[s][f].prs :
       Advance(s, f, [flight[s][f] EXCEPT
         !.prs = @ \ {p},
         !.comments = CommentsOf[f][p]])
  /\ UNCHANGED <<stored, callCount, generation, history>>

\* A PR whose comments cannot be fetched is skipped; it stays in the union.
SkipPR(s, f) ==
  /\ Fault("fetch")
  /\ flight[s][f].stage = "mine"
  /\ flight[s][f].comments = {}
  /\ \E p \in flight[s][f].prs :
       /\ Advance(s, f, [flight[s][f] EXCEPT !.prs = @ \ {p}])
       /\ fate' = [c \in Comments |->
            IF c \in CommentsOf[f][p] THEN fate[c] \cup {"unfetched"} ELSE fate[c]]
  /\ UNCHANGED <<stored, callCount, generation, charges>>

\* checkBudget lets the next comment through.
CheckBudget(s, f) ==
  /\ flight[s][f].stage = "mine"
  /\ flight[s][f].comments # {}
  /\ ~BudgetSpent(s)
  /\ Advance(s, f, [flight[s][f] EXCEPT !.stage = "checked"])
  /\ UNCHANGED <<stored, callCount, generation, history>>

\* Mutant: the union is saved although the in-flight PR is not done.
BudgetExceededSaves(s, f) ==
  /\ flight[s][f].stage = "mine"
  /\ flight[s][f].comments # {}
  /\ BudgetSpent(s)
  /\ cursor' = [cursor EXCEPT ![f] = flight[s][f].seen]
  /\ Finish(s, f, "budget")
  /\ UNCHANGED <<version, evidence, corroboration, callCount, generation, history>>

\* checkBudget refuses: the flight's facts and union are dropped.
BudgetExceeded(s, f) ==
  /\ flight[s][f].stage = "mine"
  /\ flight[s][f].comments # {}
  /\ BudgetSpent(s)
  /\ Finish(s, f, "budget")
  /\ UNCHANGED <<stored, callCount, generation, history>>

\* classifyComment: incrementCallCount, a lock acquisition of its own, then
\* the LLM call.  verdict is the cluster the LLM puts the comment in, none
\* for a null classification.
ClassifyComment(s, f) ==
  /\ flight[s][f].stage = "checked"
  /\ callCount' = [callCount EXCEPT ![s] = @ + 1]
  /\ \E c \in flight[s][f].comments :
       /\ charges' = [charges EXCEPT ![c] = @ + 1]
       /\ \/ /\ \E b \in Bodies :
                 Advance(s, f, [flight[s][f] EXCEPT
                   !.stage = "mine", !.comments = @ \ {c},
                   !.facts = @ \cup {<<c, b>>}])
             /\ UNCHANGED fate
          \/ /\ Advance(s, f, [flight[s][f] EXCEPT
                   !.stage = "mine", !.comments = @ \ {c}])
             /\ fate' = [fate EXCEPT ![c] = @ \cup {"null"}]
  /\ UNCHANGED <<stored, generation>>

\* The LLM call fails, or its answer does not parse: the error drops the
\* flight's facts and union, the call stays paid for.
ClassifyFails(s, f) ==
  /\ Fault("llm")
  /\ flight[s][f].stage = "checked"
  /\ callCount' = [callCount EXCEPT ![s] = @ + 1]
  /\ \E c \in flight[s][f].comments : charges' = [charges EXCEPT ![c] = @ + 1]
  /\ Finish(s, f, "failed")
  /\ UNCHANGED <<stored, generation, fate>>

\* Every new PR is done.
ExtractDone(s, f) ==
  /\ flight[s][f].stage = "mine"
  /\ flight[s][f].prs = {}
  /\ flight[s][f].comments = {}
  /\ Advance(s, f, [flight[s][f] EXCEPT !.stage = "store"])
  /\ UNCHANGED <<stored, callCount, generation, history>>
-----------------------------------------------------------------------------
(* mineFileOnce: facts, generation and cursor *)

\* Mutant: every upsert corroborates, evidence rows it has seen included.
CorroborateAlways(f, b, c) ==
  /\ evidence' = [evidence EXCEPT ![f][b] = @ \cup {c}]
  /\ corroboration' = [corroboration EXCEPT ![f][b] = @ + 1]

\* UpsertTribalFact, one transaction: a comment already among the cluster's
\* evidence changes nothing, a new one corroborates the fact by one.
Corroborate(f, b, c) ==
  IF c \in evidence[f][b]
    THEN UNCHANGED <<evidence, corroboration>>
    ELSE /\ evidence' = [evidence EXCEPT ![f][b] = @ \cup {c}]
         /\ corroboration' = [corroboration EXCEPT ![f][b] = @ + 1]

UpsertFact(s, f) ==
  /\ flight[s][f].stage = "store"
  /\ \E c \in Comments, b \in Bodies :
       /\ <<c, b>> \in flight[s][f].facts
       /\ Corroborate(f, b, c)
       /\ fate' = [fate EXCEPT ![c] = @ \cup {"stored"}]
       /\ Advance(s, f, [flight[s][f] EXCEPT
            !.facts = @ \ {<<c, b>>}, !.wrote = TRUE])
  /\ UNCHANGED <<cursor, version, callCount, generation, charges>>

\* Mutant: the loop stops at the first failure, the cursor is saved all the same.
UpsertFailsStops(s, f) ==
  /\ Fault("upsert")
  /\ flight[s][f].stage = "store"
  /\ \E c \in Comments, b \in Bodies :
       /\ <<c, b>> \in flight[s][f].facts
       /\ fate' = [fate EXCEPT ![c] = @ \cup {"rejected"}]
       /\ Advance(s, f, [flight[s][f] EXCEPT !.facts = {}])
  /\ UNCHANGED <<stored, callCount, generation, charges>>

\* The upsert fails: it is counted in FailedCount and the loop goes on.
UpsertFails(s, f) ==
  /\ Fault("upsert")
  /\ flight[s][f].stage = "store"
  /\ \E c \in Comments, b \in Bodies :
       /\ <<c, b>> \in flight[s][f].facts
       /\ fate' = [fate EXCEPT ![c] = @ \cup {"rejected"}]
       /\ Advance(s, f, [flight[s][f] EXCEPT !.facts = @ \ {<<c, b>>}])
  /\ UNCHANGED <<stored, callCount, generation, charges>>

\* The generation counter tells readers that facts were written.
BumpGeneration(s, f) ==
  /\ flight[s][f].stage = "store"
  /\ flight[s][f].facts = {}
  /\ generation' = IF flight[s][f].wrote
                     THEN [generation EXCEPT ![s] = @ + 1] ELSE generation
  /\ Advance(s, f, [flight[s][f] EXCEPT !.stage = "save"])
  /\ UNCHANGED <<stored, callCount, history>>

\* SetPRIDSet; an empty union is not written.
SaveCursor(s, f) ==
  /\ flight[s][f].stage = "save"
  /\ IF flight[s][f].seen = {}
       THEN UNCHANGED <<cursor, version>>
       ELSE /\ cursor' = [cursor EXCEPT ![f] = flight[s][f].seen]
            /\ version' = [version EXCEPT ![f] = "current"]
  /\ Finish(s, f, "mined")
  /\ UNCHANGED <<evidence, corroboration, callCount, generation, history>>

\* SetPRIDSet fails: the error is dropped.
SaveFails(s, f) ==
  /\ Fault("write")
  /\ flight[s][f].stage = "save"
  /\ Finish(s, f, "mined")
  /\ UNCHANGED <<stored, callCount, generation, history>>
-----------------------------------------------------------------------------
\* ClearPRIDSet, the operator's --force-remine: every cursor is wiped.
ForceRemine ==
  /\ Fault("remine")
  /\ cursor' = [f \in Files |-> {}]
  /\ version' = [f \in Files |-> "unmined"]
  /\ UNCHANGED <<evidence, corroboration, callCount, generation, flight, caller, history>>

\* The process stops and starts again: the database is what is left.
Crash ==
  /\ Fault("crash")
  /\ \E c \in Callers : caller[c].pc # "idle"
  /\ flight' = [s \in Services |-> [f \in Files |-> Idle]]
  /\ caller' = [c \in Callers |-> [AtRest EXCEPT !.calls = caller[c].calls]]
  /\ callCount' = [s \in Services |-> 0]
  /\ generation' = [s \in Services |-> 0]
  /\ UNCHANGED <<stored, history>>

CallerStep(c) ==
  \/ Call(c)
  \/ \E f \in Files : Enter(c, f)
  \/ GiveUp(c)
  \/ Return(c)

\* The steps mineFileOnce takes when nothing fails.
Progress(s, f) ==
  \/ LoadCursor(s, f)
  \/ FindPRs(s, f)
  \/ FetchComments(s, f)
  \/ CheckBudget(s, f)
  \/ BudgetExceeded(s, f)
  \/ ClassifyComment(s, f)
  \/ ExtractDone(s, f)
  \/ UpsertFact(s, f)
  \/ BumpGeneration(s, f)
  \/ SaveCursor(s, f)

Failure(s, f) ==
  \/ SymbolFails(s, f)
  \/ FindFails(s, f)
  \/ Regress(s, f)
  \/ SkipPR(s, f)
  \/ ClassifyFails(s, f)
  \/ UpsertFails(s, f)
  \/ SaveFails(s, f)

Next ==
  \/ \E c \in Callers : CallerStep(c)
  \/ \E s \in Services, f \in Files : Progress(s, f) \/ Failure(s, f)
  \/ ForceRemine
  \/ Crash

\* Goroutines run, and gh, the LLM and SQLite answer: a step of a flight or
\* of a caller that stays possible is taken.  Nobody has to call again.
Fairness ==
  /\ \A s \in Services, f \in Files : WF_vars(Progress(s, f) \/ Failure(s, f))
  /\ \A c \in Callers :
       WF_vars((\E f \in Files : Enter(c, f)) \/ GiveUp(c) \/ Return(c))

Spec == Init /\ [][Next]_vars
FairSpec == Spec /\ Fairness
-----------------------------------------------------------------------------
(* Properties *)

\* An invariant of the service's budget.  The check and the increment are two
\* lock acquisitions, so flights of different files may pass the check
\* together; but a file has one flight, so a service overshoots its budget by
\* less than the number of files, and a flight past the check counts as spent.
Passed(s) == {f \in Files : flight[s][f].stage = "checked"}
BudgetOvershoot ==
  DailyBudget > 0 =>
    \A s \in Services :
      callCount[s] + Cardinality(Passed(s)) <= DailyBudget + Cardinality(Files) - 1

\* The stored cursor is honest about its PRs: whatever stops a flight, and
\* however many services share the database, each comment of a PR in the
\* cursor met a fate.  This is what writing the cursor last is for.
CursorAccounts ==
  \A f \in Files : \A p \in cursor[f] : \A c \in CommentsOf[f][p] : fate[c] # {}

\* UpsertTribalFact's corroboration counter is the number of distinct comments
\* behind a fact, however often a comment is mined again by whatever service.
CorroborationCounts ==
  \A f \in Files, b \in Bodies :
    corroboration[f][b] = Cardinality(evidence[f][b])

\* singleflight and the cursor together: with nothing failing, no comment is
\* sent to the LLM twice, whoever asks for the file and when.
ChargedOnce == \A c \in Comments : charges[c] <= 1

\* A cursor only grows, unless a regression flags its file for a re-mine.
CursorGrows ==
  [][\A f \in Files :
       cursor[f] \subseteq cursor'[f] \/ version'[f] = "needs_remine"]_vars

\* Every call returns: a caller parked on another caller's flight is woken
\* whichever way that flight ends.
CallsReturn == \A c \in Callers : caller[c].pc # "idle" ~> caller[c].pc = "idle"
-----------------------------------------------------------------------------
\* PRs of a file whose every comment met a fate.
Accounted(f) == {p \in PRs : \A c \in CommentsOf[f][p] : fate[c] # {}}

Ledger == INSTANCE MiningLedger WITH
  accounted <- [f \in Files |-> Accounted(f)]

\* Through crashes, failures and services that race on one database, the
\* service implements the ledger.
ImplementsLedger == Ledger!Spec
=============================================================================
