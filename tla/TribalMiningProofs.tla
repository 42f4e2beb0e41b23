------------------------- MODULE TribalMiningProofs -------------------------
(***************************************************************************)
(* Proofs about TribalMining, for every number of services, callers, files *)
(* and PRs, every budget and every set of faults; and about MiningTool,    *)
(* which does nothing to the service that TribalMining does not allow.     *)
(***************************************************************************)
EXTENDS MiningTool, FiniteSetTheorems, TLAPS

\* Updating one cell of a two-level function keeps its type.
LEMMA CellType ==
  ASSUME NEW S, NEW T, NEW V, NEW g \in [S -> [T -> V]],
         NEW i \in S, NEW j \in T, NEW v \in V
  PROVE  [g EXCEPT ![i][j] = v] \in [S -> [T -> V]]
OBVIOUS

\* The same for a function of one argument.
LEMMA EntryType ==
  ASSUME NEW S, NEW V, NEW g \in [S -> V], NEW i \in S, NEW v \in V
  PROVE  [g EXCEPT ![i] = v] \in [S -> V]
OBVIOUS

\* What a delivery leaves of a caller's record is a caller's record.
LEMMA DeliveredType ==
  ASSUME NEW r \in Caller, NEW f \in Files, NEW outcome
  PROVE  Delivered(r, f, outcome) \in Caller
BY DEF Delivered, Caller

\* The end of a flight keeps the types of what it touches.
LEMMA FinishType ==
  ASSUME TypeOK, NEW s \in Services, NEW f \in Files, NEW outcome,
         Finish(s, f, outcome)
  PROVE  /\ flight' \in [Services -> [Files -> Flight]]
         /\ caller' \in [Callers -> Caller]
<1>1. Idle \in Flight
  BY DEF Idle, Flight, Stages
<1>2. flight' \in [Services -> [Files -> Flight]]
  BY <1>1 DEF Finish, TypeOK
<1>3. caller' \in [Callers -> Caller]
  BY DeliveredType DEF Finish, TypeOK
<1> QED BY <1>2, <1>3

\* A step inside a flight keeps the types of what it touches.
LEMMA AdvanceType ==
  ASSUME TypeOK, NEW s \in Services, NEW f \in Files, NEW new \in Flight,
         Advance(s, f, new)
  PROVE  /\ flight' \in [Services -> [Files -> Flight]]
         /\ caller' \in [Callers -> Caller]
BY DEF Advance, TypeOK

\* A classified comment and its cluster join the flight's facts.
LEMMA FactsType ==
  ASSUME NEW r \in Flight, NEW c \in Comments, NEW b \in Bodies
  PROVE  [r EXCEPT !.stage = "mine", !.comments = @ \ {c},
                   !.facts = @ \cup {<<c, b>>}] \in Flight
<1>1. r.facts \cup {<<c, b>>} \in SUBSET (Comments \X Bodies)
  BY DEF Flight
<1> QED BY <1>1 DEF Flight, Stages

-----------------------------------------------------------------------------
\* Type correctness: TypeOK is inductive.
THEOREM TypeCorrect == Spec => []TypeOK
<1>1. Init => TypeOK
  BY ConstantsAssumption
  DEF Init, TypeOK, Idle, AtRest, Flight, Caller, Stages, Versions, Fates
<1>2. TypeOK /\ [Next]_vars => TypeOK'
  <2> SUFFICES ASSUME TypeOK, [Next]_vars PROVE TypeOK'
    OBVIOUS
  <2> USE ConstantsAssumption
  <2>1. ASSUME NEW c \in Callers, Call(c) PROVE TypeOK'
    <3>1. PICK paths \in (SUBSET Files) \ {{}} :
            caller' = [caller EXCEPT ![c] =
              [caller[c] EXCEPT !.pc = "mining", !.todo = paths,
                                !.calls = caller[c].calls + 1]]
      BY <2>1 DEF Call
    <3>2. caller[c].calls + 1 \in 0 .. MaxCalls
      BY <2>1 DEF Call, TypeOK, Caller
    <3>3. caller' \in [Callers -> Caller]
      BY ZenonT(80), <3>1, <3>2 DEF TypeOK, Caller
    <3>4. ServiceOf[c] \in Services
      BY DEF ConstantsAssumption
    <3>5. /\ callCount' \in [Services -> Nat]
          /\ generation' \in [Services -> Nat]
      <4>1. /\ callCount \in [Services -> Nat]
            /\ generation \in [Services -> Nat]
        BY DEF TypeOK
      <4> QED BY <2>1, <3>4, <4>1, EntryType DEF Call
    <3> QED BY <2>1, <3>3, <3>5 DEF Call, TypeOK, stored, history
  <2>2. ASSUME NEW c \in Callers, NEW f \in Files, Enter(c, f) PROVE TypeOK'
    BY ZenonT(80), <2>2 DEF Enter, TypeOK, Caller, Flight, Stages, Idle, stored, history
  <2>3. ASSUME NEW c \in Callers, GiveUp(c) PROVE TypeOK'
    BY ZenonT(80), <2>3 DEF GiveUp, TypeOK, Caller, stored, history
  <2>4. ASSUME NEW c \in Callers, Return(c) PROVE TypeOK'
    BY ZenonT(40), <2>4 DEF Return, TypeOK, Caller, stored, history
  <2>5. ASSUME NEW s \in Services, NEW f \in Files, LoadCursor(s, f) PROVE TypeOK'
    <3>1. flight[s][f] \in Flight
      BY DEF TypeOK
    <3>2. PICK new \in Flight : Advance(s, f, new)
      BY <2>5, <3>1 DEF LoadCursor, TypeOK, Flight, Stages
    <3> QED BY <2>5, <3>2, AdvanceType DEF LoadCursor, TypeOK, stored, history
  <2>6. ASSUME NEW s \in Services, NEW f \in Files, FindPRs(s, f) PROVE TypeOK'
    <3>1. flight[s][f] \in Flight
      BY DEF TypeOK
    <3>2. PICK new \in Flight : Advance(s, f, new)
      BY <2>6, <3>1 DEF FindPRs, Flight, Stages
    <3> QED BY <2>6, <3>2, AdvanceType DEF FindPRs, TypeOK, stored, history
  <2>7. ASSUME NEW s \in Services, NEW f \in Files, FetchComments(s, f) PROVE TypeOK'
    <3>1. flight[s][f] \in Flight
      BY DEF TypeOK
    <3>2. PICK new \in Flight : Advance(s, f, new)
      BY <2>7, <3>1 DEF FetchComments, Flight, Stages
    <3> QED BY <2>7, <3>2, AdvanceType DEF FetchComments, TypeOK, stored, history
  <2>8. ASSUME NEW s \in Services, NEW f \in Files, CheckBudget(s, f) PROVE TypeOK'
    <3>1. flight[s][f] \in Flight
      BY DEF TypeOK
    <3>2. PICK new \in Flight : Advance(s, f, new)
      BY <2>8, <3>1 DEF CheckBudget, Flight, Stages
    <3> QED BY <2>8, <3>2, AdvanceType DEF CheckBudget, TypeOK, stored, history
  <2>9. ASSUME NEW s \in Services, NEW f \in Files, BudgetExceeded(s, f) PROVE TypeOK'
    BY <2>9, FinishType DEF BudgetExceeded, TypeOK, stored, history
  <2>10. ASSUME NEW s \in Services, NEW f \in Files, ClassifyComment(s, f) PROVE TypeOK'
    <3>1. PICK c \in flight[s][f].comments :
            /\ charges' = [charges EXCEPT ![c] = @ + 1]
            /\ \/ /\ \E b \in Bodies :
                       Advance(s, f, [flight[s][f] EXCEPT
                         !.stage = "mine", !.comments = @ \ {c},
                         !.facts = @ \cup {<<c, b>>}])
                  /\ UNCHANGED fate
               \/ /\ Advance(s, f, [flight[s][f] EXCEPT
                         !.stage = "mine", !.comments = @ \ {c}])
                  /\ fate' = [fate EXCEPT ![c] = @ \cup {"null"}]
      BY <2>10 DEF ClassifyComment
    <3>2. c \in Comments
      BY DEF TypeOK, Flight
    <3>3. PICK new \in Flight : Advance(s, f, new)
      <4>1. flight[s][f] \in Flight
        BY DEF TypeOK
      <4>2. [flight[s][f] EXCEPT !.stage = "mine", !.comments = @ \ {c}] \in Flight
        BY <4>1 DEF Flight, Stages
      <4> QED BY <3>1, <3>2, <4>1, <4>2, FactsType
    <3>4. /\ flight' \in [Services -> [Files -> Flight]]
          /\ caller' \in [Callers -> Caller]
      BY <3>3, AdvanceType
    <3>5. fate' \in [Comments -> SUBSET Fates]
      BY <3>1, <3>2 DEF TypeOK, Fates
    <3>6. charges' \in [Comments -> Nat]
      <4>1. charges \in [Comments -> Nat] /\ charges[c] + 1 \in Nat
        BY <3>2 DEF TypeOK
      <4> QED BY <3>1, <3>2, <4>1, EntryType
    <3>7. callCount' \in [Services -> Nat]
      <4>1. callCount \in [Services -> Nat] /\ callCount[s] + 1 \in Nat
        BY DEF TypeOK
      <4> QED BY <2>10, <4>1, EntryType DEF ClassifyComment
    <3>8. UNCHANGED <<stored, generation>>
      BY <2>10 DEF ClassifyComment
    <3> QED
      BY <3>4, <3>5, <3>6, <3>7, <3>8 DEF TypeOK, stored
  <2>11. ASSUME NEW s \in Services, NEW f \in Files, ExtractDone(s, f) PROVE TypeOK'
    <3>1. flight[s][f] \in Flight
      BY DEF TypeOK
    <3>2. PICK new \in Flight : Advance(s, f, new)
      BY <2>11, <3>1 DEF ExtractDone, Flight, Stages
    <3> QED BY <2>11, <3>2, AdvanceType DEF ExtractDone, TypeOK, stored, history
  <2>12. ASSUME NEW s \in Services, NEW f \in Files, UpsertFact(s, f) PROVE TypeOK'
    <3>1. PICK c \in Comments, b \in Bodies :
            /\ Corroborate(f, b, c)
            /\ fate' = [fate EXCEPT ![c] = @ \cup {"stored"}]
            /\ Advance(s, f, [flight[s][f] EXCEPT
                 !.facts = @ \ {<<c, b>>}, !.wrote = TRUE])
      BY <2>12 DEF UpsertFact
    <3>2. /\ evidence' \in [Files -> [Bodies -> SUBSET Comments]]
          /\ corroboration' \in [Files -> [Bodies -> Nat]]
      <4>1. CASE c \in evidence[f][b]
        BY <3>1, <4>1 DEF Corroborate, TypeOK
      <4>2. CASE c \notin evidence[f][b]
        <5>1. evidence[f][b] \cup {c} \in SUBSET Comments
          BY DEF TypeOK
        <5>2. corroboration[f][b] + 1 \in Nat
          BY DEF TypeOK
        <5>3. /\ evidence' = [evidence EXCEPT ![f][b] = evidence[f][b] \cup {c}]
              /\ corroboration' = [corroboration EXCEPT ![f][b] = corroboration[f][b] + 1]
          BY <3>1, <4>2 DEF Corroborate
        <5>4. /\ evidence \in [Files -> [Bodies -> SUBSET Comments]]
              /\ corroboration \in [Files -> [Bodies -> Nat]]
          BY DEF TypeOK
        <5> QED BY <5>1, <5>2, <5>3, <5>4, CellType
      <4> QED BY <4>1, <4>2
    <3>3. flight[s][f] \in Flight
      BY DEF TypeOK
    <3>4. PICK new \in Flight : Advance(s, f, new)
      BY <3>1, <3>3 DEF Flight
    <3> QED
      BY <2>12, <3>1, <3>2, <3>4, AdvanceType DEF UpsertFact, TypeOK, Fates
  <2>13. ASSUME NEW s \in Services, NEW f \in Files, BumpGeneration(s, f) PROVE TypeOK'
    <3>1. flight[s][f] \in Flight
      BY DEF TypeOK
    <3>2. PICK new \in Flight : Advance(s, f, new)
      BY <2>13, <3>1 DEF BumpGeneration, Flight, Stages
    <3> QED BY <2>13, <3>2, AdvanceType DEF BumpGeneration, TypeOK, stored, history
  <2>14. ASSUME NEW s \in Services, NEW f \in Files, SaveCursor(s, f) PROVE TypeOK'
    <3>1. flight[s][f].seen \in SUBSET PRs
      BY DEF TypeOK, Flight
    <3>2. /\ cursor' \in [Files -> SUBSET PRs]
          /\ version' \in [Files -> Versions]
      BY <2>14, <3>1 DEF SaveCursor, TypeOK, Versions
    <3> QED BY <2>14, <3>2, FinishType DEF SaveCursor, TypeOK, history
  <2>15. ASSUME NEW s \in Services, NEW f \in Files, SymbolFails(s, f) PROVE TypeOK'
    BY <2>15, FinishType DEF SymbolFails, Abort, TypeOK, stored, history
  <2>16. ASSUME NEW s \in Services, NEW f \in Files, FindFails(s, f) PROVE TypeOK'
    BY <2>16, FinishType DEF FindFails, Abort, TypeOK, stored, history
  <2>17. ASSUME NEW s \in Services, NEW f \in Files, Regress(s, f) PROVE TypeOK'
    BY <2>17, FinishType DEF Regress, TypeOK, Versions, history
  <2>18. ASSUME NEW s \in Services, NEW f \in Files, SkipPR(s, f) PROVE TypeOK'
    <3>1. flight[s][f] \in Flight
      BY DEF TypeOK
    <3>2. PICK new \in Flight : Advance(s, f, new)
      BY <2>18, <3>1 DEF SkipPR, Flight, Stages
    <3> QED BY <2>18, <3>2, AdvanceType DEF SkipPR, TypeOK, Fates, stored
  <2>19. ASSUME NEW s \in Services, NEW f \in Files, ClassifyFails(s, f) PROVE TypeOK'
    BY <2>19, FinishType DEF ClassifyFails, TypeOK, Flight, stored
  <2>20. ASSUME NEW s \in Services, NEW f \in Files, UpsertFails(s, f) PROVE TypeOK'
    <3>1. flight[s][f] \in Flight
      BY DEF TypeOK
    <3>2. PICK new \in Flight : Advance(s, f, new)
      BY <2>20, <3>1 DEF UpsertFails, Flight, Stages
    <3> QED BY <2>20, <3>2, AdvanceType DEF UpsertFails, TypeOK, Fates, stored
  <2>21. ASSUME NEW s \in Services, NEW f \in Files, SaveFails(s, f) PROVE TypeOK'
    BY <2>21, FinishType DEF SaveFails, TypeOK, stored, history
  <2>22. CASE ForceRemine
    BY <2>22 DEF ForceRemine, TypeOK, Versions, history
  <2>23. CASE Crash
    BY <2>23 DEF Crash, TypeOK, Caller, AtRest, Idle, Flight, Stages, stored, history
  <2>24. CASE UNCHANGED vars
    BY <2>24 DEF vars, TypeOK
  <2> QED
    BY <2>1, <2>2, <2>3, <2>4, <2>5, <2>6, <2>7, <2>8, <2>9, <2>10, <2>11,
       <2>12, <2>13, <2>14, <2>15, <2>16, <2>17, <2>18, <2>19, <2>20, <2>21,
       <2>22, <2>23, <2>24
    DEF Next, CallerStep, Progress, Failure
<1> QED BY <1>1, <1>2, PTL DEF Spec
-----------------------------------------------------------------------------
(* The budget *)

\* One service's share of BudgetOvershoot.
Overshoot(s) ==
  callCount[s] + Cardinality(Passed(s)) <= DailyBudget + Cardinality(Files) - 1

\* The flights past the check are finitely many, as the files are.
LEMMA PassedFinite ==
  ASSUME NEW s
  PROVE  /\ IsFiniteSet(Passed(s))
         /\ Cardinality(Passed(s)) \in Nat
         /\ Cardinality(Passed(s)) <= Cardinality(Files)
         /\ Cardinality(Files) \in Nat
<1>1. Passed(s) \subseteq Files
  BY DEF Passed
<1> QED
  BY <1>1, ConstantsAssumption, FS_Subset, FS_CardinalityType DEF ConstantsAssumption

LEMMA PassedFiniteNext ==
  ASSUME NEW s
  PROVE  /\ IsFiniteSet(Passed(s)')
         /\ Cardinality(Passed(s)') \in Nat
         /\ Cardinality(Passed(s)') <= Cardinality(Files)
<1>1. Passed(s)' \subseteq Files
  BY DEF Passed
<1> QED
  BY <1>1, ConstantsAssumption, FS_Subset, FS_CardinalityType DEF ConstantsAssumption

\* Fewer flights past the check and no more calls: the bound is kept.
LEMMA Shrinks ==
  ASSUME TypeOK, TypeOK', NEW s \in Services, Overshoot(s),
         callCount'[s] <= callCount[s], Passed(s)' \subseteq Passed(s)
  PROVE  Overshoot(s)'
<1>1. Cardinality(Passed(s)') <= Cardinality(Passed(s))
  BY PassedFinite, FS_Subset
<1>2. callCount[s] \in Nat /\ callCount'[s] \in Nat
  BY DEF TypeOK
<1> QED
  BY <1>1, <1>2, PassedFinite, PassedFiniteNext, ConstantsAssumption
  DEF Overshoot, ConstantsAssumption

\* Only CheckBudget puts a flight past the check.
LEMMA AdvancePassed ==
  ASSUME TypeOK, NEW s \in Services, NEW f \in Files, NEW new,
         Advance(s, f, new), new.stage # "checked", NEW t \in Services
  PROVE  Passed(t)' \subseteq Passed(t) \ (IF t = s THEN {f} ELSE {})
BY DEF Advance, Passed, TypeOK

LEMMA FinishPassed ==
  ASSUME TypeOK, NEW s \in Services, NEW f \in Files, NEW outcome,
         Finish(s, f, outcome), NEW t \in Services
  PROVE  Passed(t)' \subseteq Passed(t) \ (IF t = s THEN {f} ELSE {})
BY DEF Finish, Passed, TypeOK, Idle

\* A call spent by a flight past the check takes its place in the sum.
LEMMA Spends ==
  ASSUME TypeOK, TypeOK', NEW s \in Services, NEW f \in Files, Overshoot(s),
         f \in Passed(s), callCount'[s] = callCount[s] + 1,
         Passed(s)' \subseteq Passed(s) \ {f}
  PROVE  Overshoot(s)'
<1>1. Cardinality(Passed(s) \ {f}) = Cardinality(Passed(s)) - 1
  BY PassedFinite, FS_RemoveElement
<1>2. /\ IsFiniteSet(Passed(s) \ {f})
  BY PassedFinite, FS_RemoveElement
<1>3. Cardinality(Passed(s)') <= Cardinality(Passed(s) \ {f})
  BY <1>2, FS_Subset
<1>4. callCount[s] \in Nat
  BY DEF TypeOK
<1> QED
  BY <1>1, <1>3, <1>4, PassedFinite, PassedFiniteNext, ConstantsAssumption
  DEF Overshoot, ConstantsAssumption

\* A step that pays nothing and lets no flight past the check keeps the bound.
LEMMA QuietStep ==
  ASSUME TypeOK, TypeOK', BudgetOvershoot, UNCHANGED callCount,
         \A t \in Services : Passed(t)' \subseteq Passed(t)
  PROVE  BudgetOvershoot'
<1> SUFFICES ASSUME DailyBudget > 0, NEW t \in Services PROVE Overshoot(t)'
  BY DEF BudgetOvershoot, Overshoot
<1>1. Overshoot(t)
  BY DEF BudgetOvershoot, Overshoot
<1>2. callCount'[t] <= callCount[t]
  BY DEF TypeOK
<1> QED BY <1>1, <1>2, Shrinks

\* So does a step that pays for a call of a flight past the check.
LEMMA PayingStep ==
  ASSUME TypeOK, TypeOK', BudgetOvershoot, NEW s \in Services, NEW f \in Files,
         flight[s][f].stage = "checked",
         callCount' = [callCount EXCEPT ![s] = @ + 1],
         \A t \in Services :
           Passed(t)' \subseteq Passed(t) \ (IF t = s THEN {f} ELSE {})
  PROVE  BudgetOvershoot'
<1> SUFFICES ASSUME DailyBudget > 0, NEW t \in Services PROVE Overshoot(t)'
  BY DEF BudgetOvershoot, Overshoot
<1>1. Overshoot(t)
  BY DEF BudgetOvershoot, Overshoot
<1>2. CASE t = s
  <2>1. f \in Passed(s)
    BY DEF Passed
  <2>2. callCount'[s] = callCount[s] + 1
    BY DEF TypeOK
  <2>3. Passed(s)' \subseteq Passed(s) \ {f}
    OBVIOUS
  <2> QED BY <1>1, <1>2, <2>1, <2>2, <2>3, Spends
<1>3. CASE t # s
  <2>1. callCount'[t] <= callCount[t]
    BY <1>3 DEF TypeOK
  <2>2. Passed(t)' \subseteq Passed(t)
    BY <1>3
  <2> QED BY <1>1, <2>1, <2>2, Shrinks
<1> QED BY <1>2, <1>3

\* Only the flight that passes the check joins those past it, and it passes
\* with a call to spare.
LEMMA CheckingStep ==
  ASSUME TypeOK, TypeOK', BudgetOvershoot, NEW s \in Services, NEW f \in Files,
         CheckBudget(s, f)
  PROVE  BudgetOvershoot'
<1> SUFFICES ASSUME DailyBudget > 0, NEW t \in Services PROVE Overshoot(t)'
  BY DEF BudgetOvershoot, Overshoot
<1>1. Overshoot(t)
  BY DEF BudgetOvershoot, Overshoot
<1>2. UNCHANGED callCount /\ callCount[t] \in Nat
  BY DEF CheckBudget, TypeOK
<1>3. CASE t = s
  <2>1. callCount'[t] <= DailyBudget - 1
    BY <1>2, <1>3, ConstantsAssumption DEF CheckBudget, BudgetSpent, ConstantsAssumption
  <2>2. callCount'[t] \in Nat /\ DailyBudget \in Nat
    BY <1>2, ConstantsAssumption DEF ConstantsAssumption
  <2> QED
    BY <2>1, <2>2, PassedFiniteNext, PassedFinite DEF Overshoot
<1>4. CASE t # s
  <2>1. Passed(t)' \subseteq Passed(t)
    BY <1>4 DEF CheckBudget, Advance, Passed, TypeOK
  <2> QED BY <1>1, <1>2, <2>1, Shrinks
<1> QED BY <1>3, <1>4

\* A step inside a flight that does not pass the check.
LEMMA QuietAdvance ==
  ASSUME TypeOK, TypeOK', BudgetOvershoot, NEW s \in Services, NEW f \in Files,
         NEW new, Advance(s, f, new), new.stage # "checked",
         UNCHANGED callCount
  PROVE  BudgetOvershoot'
BY AdvancePassed, QuietStep

\* The end of a flight that pays nothing.
LEMMA QuietFinish ==
  ASSUME TypeOK, TypeOK', BudgetOvershoot, NEW s \in Services, NEW f \in Files,
         NEW outcome, Finish(s, f, outcome), UNCHANGED callCount
  PROVE  BudgetOvershoot'
BY FinishPassed, QuietStep

\* A caller entering singleflight starts a flight that has passed no check.
LEMMA EnterPassed ==
  ASSUME TypeOK, NEW c \in Callers, NEW f \in Files, Enter(c, f), NEW t \in Services
  PROVE  Passed(t)' \subseteq Passed(t)
<1>1. CASE flight' = flight
  BY <1>1 DEF Passed
<1>2. CASE flight' = [flight EXCEPT ![ServiceOf[c]][f] = [Idle EXCEPT !.stage = "load"]]
  BY <1>2 DEF Passed, TypeOK, Idle
<1> QED BY <1>1, <1>2 DEF Enter

\* A service's LLM calls overshoot its budget by less than the number of
\* files: BudgetOvershoot holds for every number of files, callers and services.
THEOREM BudgetBounded == Spec => []BudgetOvershoot
<1>1. Init => BudgetOvershoot
  <2> SUFFICES ASSUME Init, DailyBudget > 0, NEW s \in Services PROVE Overshoot(s)
    BY DEF BudgetOvershoot, Overshoot
  <2>1. Passed(s) = {}
    BY DEF Init, Passed, Idle
  <2>2. callCount[s] = 0 /\ Cardinality(Passed(s)) = 0
    BY <2>1, FS_EmptySet DEF Init
  <2> QED
    BY <2>2, PassedFinite, ConstantsAssumption DEF Overshoot, ConstantsAssumption
<1>2. TypeOK /\ TypeOK' /\ BudgetOvershoot /\ [Next]_vars => BudgetOvershoot'
  <2> SUFFICES ASSUME TypeOK, TypeOK', BudgetOvershoot, [Next]_vars
               PROVE BudgetOvershoot'
    OBVIOUS
  <2>1. ASSUME NEW c \in Callers, Call(c) PROVE BudgetOvershoot'
    <3> SUFFICES ASSUME DailyBudget > 0, NEW t \in Services PROVE Overshoot(t)'
      BY DEF BudgetOvershoot, Overshoot
    <3>1. Overshoot(t)
      BY DEF BudgetOvershoot, Overshoot
    <3>2. Passed(t)' \subseteq Passed(t)
      BY <2>1 DEF Call, Passed
    <3>3. callCount'[t] <= callCount[t]
      <4>1. callCount \in [Services -> Nat] /\ callCount[t] >= 0
        BY DEF TypeOK
      <4>2. \/ callCount' = [callCount EXCEPT ![ServiceOf[c]] = 0]
            \/ callCount' = callCount
        BY <2>1 DEF Call
      <4>3. callCount'[t] = 0 \/ callCount'[t] = callCount[t]
        BY <4>1, <4>2
      <4> QED BY <4>1, <4>3
    <3> QED BY <3>1, <3>2, <3>3, Shrinks
  <2>2. ASSUME NEW c \in Callers, NEW f \in Files, Enter(c, f) PROVE BudgetOvershoot'
    BY <2>2, EnterPassed, QuietStep DEF Enter
  <2>3. ASSUME NEW c \in Callers, GiveUp(c) \/ Return(c) PROVE BudgetOvershoot'
    <3>1. UNCHANGED <<callCount, flight>>
      BY <2>3 DEF GiveUp, Return
    <3> QED BY <3>1, QuietStep DEF Passed
  <2>4. ASSUME NEW s \in Services, NEW f \in Files, Progress(s, f) PROVE BudgetOvershoot'
    <3>0. flight[s][f] \in Flight /\ cursor[f] \in SUBSET PRs
      BY DEF TypeOK
    <3>1. CASE LoadCursor(s, f)
      <4>1. PICK new : Advance(s, f, new) /\ new.stage # "checked"
        <5>1. PICK since : Advance(s, f, [flight[s][f] EXCEPT
                !.stage = "find",
                !.seen = IF version[f] = "needs_remine" THEN {} ELSE since])
          BY <3>1 DEF LoadCursor
        <5>2. [flight[s][f] EXCEPT
                !.stage = "find",
                !.seen = IF version[f] = "needs_remine" THEN {} ELSE since].stage = "find"
          BY <3>0 DEF Flight
        <5> QED BY <5>1, <5>2
      <4> QED BY <3>1, <4>1, QuietAdvance DEF LoadCursor
    <3>2. CASE FindPRs(s, f)
      <4>1. PICK new : Advance(s, f, new) /\ new.stage # "checked"
        <5> DEFINE since == flight[s][f].seen
                   after(observed) ==
                     [flight[s][f] EXCEPT
                       !.seen = since \cup observed,
                       !.prs = observed \ since,
                       !.stage = IF observed \subseteq since THEN "store" ELSE "mine"]
        <5>1. PICK observed : Advance(s, f, after(observed))
          BY <3>2 DEF FindPRs
        <5>2. after(observed).stage \in {"store", "mine"}
          BY <3>0 DEF Flight
        <5> QED BY <5>1, <5>2
      <4> QED BY <3>2, <4>1, QuietAdvance DEF FindPRs
    <3>3. CASE FetchComments(s, f)
      <4>1. PICK new : Advance(s, f, new) /\ new.stage # "checked"
        <5>1. PICK p : Advance(s, f, [flight[s][f] EXCEPT
                !.prs = @ \ {p}, !.comments = CommentsOf[f][p]])
          BY <3>3 DEF FetchComments
        <5>2. [flight[s][f] EXCEPT
                !.prs = @ \ {p}, !.comments = CommentsOf[f][p]].stage = "mine"
          BY <3>0, <3>3 DEF Flight, FetchComments
        <5> QED BY <5>1, <5>2
      <4> QED BY <3>3, <4>1, QuietAdvance DEF FetchComments
    <3>4. CASE CheckBudget(s, f)
      BY <3>4, CheckingStep
    <3>5. CASE BudgetExceeded(s, f)
      BY <3>5, QuietFinish DEF BudgetExceeded
    <3>6. CASE ClassifyComment(s, f)
      <4>1. PICK c \in flight[s][f].comments :
              \/ \E b \in Bodies :
                   Advance(s, f, [flight[s][f] EXCEPT
                     !.stage = "mine", !.comments = @ \ {c},
                     !.facts = @ \cup {<<c, b>>}])
              \/ Advance(s, f, [flight[s][f] EXCEPT
                     !.stage = "mine", !.comments = @ \ {c}])
        BY <3>6 DEF ClassifyComment
      <4>2. PICK new : Advance(s, f, new) /\ new.stage # "checked"
        <5>1. CASE Advance(s, f, [flight[s][f] EXCEPT
                     !.stage = "mine", !.comments = @ \ {c}])
          <6>1. [flight[s][f] EXCEPT
                  !.stage = "mine", !.comments = @ \ {c}].stage = "mine"
            BY <3>0 DEF Flight
          <6> QED BY <5>1, <6>1
        <5>2. ASSUME NEW b \in Bodies,
                     Advance(s, f, [flight[s][f] EXCEPT
                       !.stage = "mine", !.comments = @ \ {c},
                       !.facts = @ \cup {<<c, b>>}])
              PROVE  \E new : Advance(s, f, new) /\ new.stage # "checked"
          <6>1. [flight[s][f] EXCEPT
                       !.stage = "mine", !.comments = @ \ {c},
                       !.facts = @ \cup {<<c, b>>}].stage = "mine"
            BY <3>0 DEF Flight
          <6> QED BY <5>2, <6>1
        <5> QED BY <4>1, <5>1, <5>2
      <4>3. \A t \in Services :
              Passed(t)' \subseteq Passed(t) \ (IF t = s THEN {f} ELSE {})
        BY <4>2, AdvancePassed
      <4>4. /\ flight[s][f].stage = "checked"
            /\ callCount' = [callCount EXCEPT ![s] = @ + 1]
        BY <3>6 DEF ClassifyComment
      <4> QED BY <4>3, <4>4, PayingStep
    <3>7. CASE ExtractDone(s, f)
      <4>1. PICK new : Advance(s, f, new) /\ new.stage # "checked"
        BY <3>0, <3>7 DEF ExtractDone, Flight, Stages
      <4> QED BY <3>7, <4>1, QuietAdvance DEF ExtractDone
    <3>8. CASE UpsertFact(s, f)
      <4>1. PICK new : Advance(s, f, new) /\ new.stage # "checked"
        <5>1. PICK c, b : Advance(s, f, [flight[s][f] EXCEPT
                !.facts = @ \ {<<c, b>>}, !.wrote = TRUE])
          BY <3>8 DEF UpsertFact
        <5>2. [flight[s][f] EXCEPT
                !.facts = @ \ {<<c, b>>}, !.wrote = TRUE].stage = "store"
          BY <3>0, <3>8 DEF Flight, UpsertFact
        <5> QED BY <5>1, <5>2
      <4> QED BY <3>8, <4>1, QuietAdvance DEF UpsertFact
    <3>9. CASE BumpGeneration(s, f)
      <4>1. PICK new : Advance(s, f, new) /\ new.stage # "checked"
        BY <3>0, <3>9 DEF BumpGeneration, Flight, Stages
      <4> QED BY <3>9, <4>1, QuietAdvance DEF BumpGeneration
    <3>10. CASE SaveCursor(s, f)
      BY <3>10, QuietFinish DEF SaveCursor
    <3> QED
      BY <2>4, <3>1, <3>2, <3>3, <3>4, <3>5, <3>6, <3>7, <3>8, <3>9, <3>10 DEF Progress
  <2>5. ASSUME NEW s \in Services, NEW f \in Files, Failure(s, f) PROVE BudgetOvershoot'
    <3>0. flight[s][f] \in Flight
      BY DEF TypeOK
    <3>1. CASE SymbolFails(s, f) \/ FindFails(s, f)
      BY <3>1, QuietFinish DEF SymbolFails, FindFails, Abort
    <3>2. CASE Regress(s, f)
      BY <3>2, QuietFinish DEF Regress
    <3>3. CASE SkipPR(s, f)
      <4>1. PICK new : Advance(s, f, new) /\ new.stage # "checked"
        BY <3>0, <3>3 DEF SkipPR, Flight, Stages
      <4> QED BY <3>3, <4>1, QuietAdvance DEF SkipPR
    <3>4. CASE ClassifyFails(s, f)
      BY <3>4, FinishPassed, PayingStep DEF ClassifyFails
    <3>5. CASE UpsertFails(s, f)
      <4>1. PICK new : Advance(s, f, new) /\ new.stage # "checked"
        BY <3>0, <3>5 DEF UpsertFails, Flight, Stages
      <4> QED BY <3>5, <4>1, QuietAdvance DEF UpsertFails
    <3>6. CASE SaveFails(s, f)
      BY <3>6, QuietFinish DEF SaveFails
    <3> QED BY <2>5, <3>1, <3>2, <3>3, <3>4, <3>5, <3>6 DEF Failure
  <2>6. CASE ForceRemine
    BY <2>6, QuietStep DEF ForceRemine, Passed
  <2>7. CASE Crash
    <3> SUFFICES ASSUME DailyBudget > 0, NEW t \in Services PROVE Overshoot(t)'
      BY DEF BudgetOvershoot, Overshoot
    <3>1. Overshoot(t)
      BY DEF BudgetOvershoot, Overshoot
    <3>2. Passed(t)' \subseteq Passed(t)
      BY <2>7 DEF Crash, Passed, Idle
    <3>3. callCount'[t] <= callCount[t]
      BY <2>7 DEF Crash, TypeOK
    <3> QED BY <3>1, <3>2, <3>3, Shrinks
  <2>8. CASE UNCHANGED vars
    BY <2>8, QuietStep DEF vars, Passed
  <2> QED
    BY <2>1, <2>2, <2>3, <2>4, <2>5, <2>6, <2>7, <2>8 DEF Next, CallerStep
<1> QED BY <1>1, <1>2, TypeCorrect, PTL DEF Spec
-----------------------------------------------------------------------------
(* Corroboration *)

\* CorroborationCounts is inductive once evidence is known to stay finite.
CorroborationInv ==
  \A f \in Files, b \in Bodies :
    /\ IsFiniteSet(evidence[f][b])
    /\ corroboration[f][b] = Cardinality(evidence[f][b])

\* The upsert transaction adds a row and one to the counter, or neither.
LEMMA CorroborateCounts ==
  ASSUME TypeOK, CorroborationInv, NEW f \in Files, NEW b \in Bodies, NEW c,
         Corroborate(f, b, c)
  PROVE  CorroborationInv'
<1> SUFFICES ASSUME NEW g \in Files, NEW d \in Bodies
             PROVE  /\ IsFiniteSet(evidence'[g][d])
                    /\ corroboration'[g][d] = Cardinality(evidence'[g][d])
  BY DEF CorroborationInv
<1>1. /\ IsFiniteSet(evidence[g][d])
      /\ corroboration[g][d] = Cardinality(evidence[g][d])
  BY DEF CorroborationInv
<1>2. CASE c \in evidence[f][b]
  BY <1>1, <1>2 DEF Corroborate
<1>3. CASE c \notin evidence[f][b]
  <2>1. /\ evidence' = [evidence EXCEPT ![f][b] = evidence[f][b] \cup {c}]
        /\ corroboration' = [corroboration EXCEPT ![f][b] = corroboration[f][b] + 1]
    BY <1>3 DEF Corroborate
  <2>2. CASE g = f /\ d = b
    <3>1. /\ evidence'[g][d] = evidence[g][d] \cup {c}
          /\ corroboration'[g][d] = corroboration[g][d] + 1
      BY <2>1, <2>2 DEF TypeOK
    <3>2. /\ IsFiniteSet(evidence[g][d] \cup {c})
          /\ Cardinality(evidence[g][d] \cup {c}) = Cardinality(evidence[g][d]) + 1
      BY <1>1, <1>3, <2>2, FS_AddElement
    <3> QED BY <1>1, <3>1, <3>2
  <2>3. CASE g # f \/ d # b
    <3>1. /\ evidence'[g][d] = evidence[g][d]
          /\ corroboration'[g][d] = corroboration[g][d]
      BY <2>1, <2>3 DEF TypeOK
    <3> QED BY <1>1, <3>1
  <2> QED BY <2>2, <2>3
<1> QED BY <1>2, <1>3

\* A fact's corroboration counts its distinct comments, whatever number of
\* services mine the same files into one database: CorroborationCounts.
THEOREM CorroborationExact == Spec => []CorroborationCounts
<1>1. Init => CorroborationInv
  <2> SUFFICES ASSUME Init, NEW f \in Files, NEW b \in Bodies
               PROVE  /\ IsFiniteSet(evidence[f][b])
                      /\ corroboration[f][b] = Cardinality(evidence[f][b])
    BY DEF CorroborationInv
  <2>1. evidence[f][b] = {} /\ corroboration[f][b] = 0
    BY DEF Init
  <2> QED BY <2>1, FS_EmptySet
<1>2. TypeOK /\ CorroborationInv /\ [Next]_vars => CorroborationInv'
  <2> SUFFICES ASSUME TypeOK, CorroborationInv, [Next]_vars PROVE CorroborationInv'
    OBVIOUS
  <2>1. CASE UNCHANGED <<evidence, corroboration>>
    BY <2>1 DEF CorroborationInv
  <2>2. ASSUME NEW s \in Services, NEW f \in Files, UpsertFact(s, f)
        PROVE  CorroborationInv'
    BY <2>2, CorroborateCounts DEF UpsertFact
  <2>3. ASSUME NEW c \in Callers, CallerStep(c)
        PROVE  UNCHANGED <<evidence, corroboration>>
    BY <2>3 DEF CallerStep, Call, Enter, GiveUp, Return, stored
  <2>4. ASSUME NEW s \in Services, NEW f \in Files, Progress(s, f), ~UpsertFact(s, f)
        PROVE  UNCHANGED <<evidence, corroboration>>
    BY <2>4 DEF Progress, LoadCursor, FindPRs, FetchComments, CheckBudget,
       BudgetExceeded, ClassifyComment, ExtractDone, BumpGeneration, SaveCursor,
       stored
  <2>5. ASSUME NEW s \in Services, NEW f \in Files, Failure(s, f)
        PROVE  UNCHANGED <<evidence, corroboration>>
    BY <2>5 DEF Failure, SymbolFails, FindFails, Abort, Regress, SkipPR,
       ClassifyFails, UpsertFails, SaveFails, stored
  <2>6. ASSUME ForceRemine \/ Crash \/ UNCHANGED vars
        PROVE  UNCHANGED <<evidence, corroboration>>
    BY <2>6 DEF ForceRemine, Crash, vars, stored
  <2> QED BY <2>1, <2>2, <2>3, <2>4, <2>5, <2>6 DEF Next
<1>3. CorroborationInv => CorroborationCounts
  BY DEF CorroborationInv, CorroborationCounts
<1> QED BY <1>1, <1>2, <1>3, TypeCorrect, PTL DEF Spec
-----------------------------------------------------------------------------
(* The cursor *)

\* What a flight owes: each comment of a PR it will put in the cursor, and is
\* not still to fetch, met a fate, or waits among its comments or its facts.
Owes(fates, f, r) ==
  \A p \in r.seen \ r.prs : \A c \in CommentsOf[f][p] :
    fates[c] # {} \/ c \in r.comments \/ \E b \in Bodies : <<c, b>> \in r.facts

\* What is empty at which stage of a flight.
Shape(r) ==
  /\ r.stage \notin {"mine", "checked"} => r.prs = {} /\ r.comments = {}
  /\ r.stage = "save" => r.facts = {}

\* CursorAccounts, strengthened to be inductive: a flight that gets to save its
\* union owes nothing.
AccountsInv ==
  /\ CursorAccounts
  /\ \A s \in Services, f \in Files :
       Owes(fate, f, flight[s][f]) /\ Shape(flight[s][f])

FateKept == \A c \in Comments : fate[c] # {} => fate'[c] # {}

\* Comments that met a fate keep it, so cursors that did not grow stay honest.
LEMMA KeptCursor ==
  ASSUME TypeOK, CursorAccounts, FateKept, NEW f \in Files,
         cursor'[f] \subseteq cursor[f]
  PROVE  \A p \in cursor'[f] : \A c \in CommentsOf[f][p] : fate'[c] # {}
<1> SUFFICES ASSUME NEW p \in cursor'[f], NEW c \in CommentsOf[f][p]
             PROVE  fate'[c] # {}
  OBVIOUS
<1>1. p \in cursor[f] /\ p \in PRs
  BY DEF TypeOK
<1>2. c \in Comments
  BY <1>1, ConstantsAssumption DEF ConstantsAssumption
<1> QED BY <1>1, <1>2 DEF CursorAccounts, FateKept

\* A flight that does not move goes on owing no more than before.
LEMMA KeptFlight ==
  ASSUME TypeOK, FateKept, NEW f \in Files, NEW r \in Flight, Owes(fate, f, r)
  PROVE  Owes(fate', f, r)
<1> SUFFICES ASSUME NEW p \in r.seen \ r.prs, NEW c \in CommentsOf[f][p]
             PROVE  \/ fate'[c] # {}
                    \/ c \in r.comments
                    \/ \E b \in Bodies : <<c, b>> \in r.facts
  BY DEF Owes
<1>1. c \in Comments
  BY ConstantsAssumption DEF ConstantsAssumption, Flight
<1> QED BY <1>1 DEF Owes, FateKept

LEMMA IdleOwesNothing ==
  ASSUME NEW fates, NEW f, NEW r \in {Idle, [Idle EXCEPT !.stage = "load"]}
  PROVE  Owes(fates, f, r) /\ Shape(r)
BY DEF Idle, Owes, Shape

\* A step inside a flight keeps the invariant if its new record owes no more
\* than it holds.
LEMMA AdvanceAccounts ==
  ASSUME TypeOK, AccountsInv, FateKept, UNCHANGED cursor,
         NEW s \in Services, NEW f \in Files, NEW new, Advance(s, f, new),
         Owes(fate', f, new), Shape(new)
  PROVE  AccountsInv'
<1>1. CursorAccounts'
  BY KeptCursor DEF CursorAccounts, AccountsInv
<1>2. ASSUME NEW t \in Services, NEW g \in Files
      PROVE  Owes(fate', g, flight'[t][g]) /\ Shape(flight'[t][g])
  <2>1. CASE t = s /\ g = f
    BY <2>1 DEF Advance, TypeOK
  <2>2. CASE ~(t = s /\ g = f)
    <3>1. flight'[t][g] = flight[t][g] /\ flight[t][g] \in Flight
      BY <2>2 DEF Advance, TypeOK
    <3> QED BY <3>1, KeptFlight DEF AccountsInv
  <2> QED BY <2>1, <2>2
<1> QED BY <1>1, <1>2 DEF AccountsInv

\* The end of a flight keeps the invariant if what it leaves in the cursor is
\* accounted for.
LEMMA FinishAccounts ==
  ASSUME TypeOK, AccountsInv, FateKept,
         NEW s \in Services, NEW f \in Files, NEW outcome, Finish(s, f, outcome),
         \A g \in Files : g # f => cursor'[g] = cursor[g],
         \A p \in cursor'[f] : \A c \in CommentsOf[f][p] : fate'[c] # {}
  PROVE  AccountsInv'
<1>1. CursorAccounts'
  BY KeptCursor DEF CursorAccounts, AccountsInv
<1>2. ASSUME NEW t \in Services, NEW g \in Files
      PROVE  Owes(fate', g, flight'[t][g]) /\ Shape(flight'[t][g])
  <2>1. CASE t = s /\ g = f
    BY <2>1, IdleOwesNothing DEF Finish, TypeOK
  <2>2. CASE ~(t = s /\ g = f)
    <3>1. flight'[t][g] = flight[t][g] /\ flight[t][g] \in Flight
      BY <2>2 DEF Finish, TypeOK
    <3> QED BY <3>1, KeptFlight DEF AccountsInv
  <2> QED BY <2>1, <2>2
<1> QED BY <1>1, <1>2 DEF AccountsInv

\* A flight that ends without saving keeps the invariant.
LEMMA DropAccounts ==
  ASSUME TypeOK, AccountsInv, FateKept, UNCHANGED cursor,
         NEW s \in Services, NEW f \in Files, NEW outcome, Finish(s, f, outcome)
  PROVE  AccountsInv'
<1>1. \A p \in cursor'[f] : \A c \in CommentsOf[f][p] : fate'[c] # {}
  BY KeptCursor DEF AccountsInv
<1> QED BY <1>1, FinishAccounts

\* LoadCursor and FindPRs: what is taken over from the cursor is accounted for.
LEMMA WindowAccounts ==
  ASSUME TypeOK, AccountsInv, NEW s \in Services, NEW f \in Files,
         LoadCursor(s, f) \/ FindPRs(s, f)
  PROVE  AccountsInv'
<1> DEFINE r == flight[s][f]
<1>1. r \in Flight /\ Owes(fate, f, r) /\ Shape(r)
  BY DEF TypeOK, AccountsInv
<1>2. FateKept /\ UNCHANGED <<cursor, fate>>
  BY DEF LoadCursor, FindPRs, FateKept, stored, history
<1>3. CASE LoadCursor(s, f)
  <2>1. PICK since \in {cursor[f], {}} :
          Advance(s, f, [r EXCEPT
            !.stage = "find",
            !.seen = IF version[f] = "needs_remine" THEN {} ELSE since])
    BY <1>3 DEF LoadCursor
  <2> DEFINE new == [r EXCEPT
               !.stage = "find",
               !.seen = IF version[f] = "needs_remine" THEN {} ELSE since]
  <2>2. /\ new.stage = "find" /\ new.prs = r.prs /\ new.comments = r.comments
        /\ new.seen \subseteq cursor[f]
    BY <1>1 DEF Flight
  <2>3. Shape(new)
    BY <1>1, <1>3, <2>2 DEF Shape, LoadCursor
  <2>4. Owes(fate', f, new)
    BY <1>2, <2>2 DEF Owes, AccountsInv, CursorAccounts
  <2>5. Advance(s, f, new)
    BY <2>1
  <2> HIDE DEF new
  <2> QED BY <1>2, <2>3, <2>4, <2>5, AdvanceAccounts
<1>4. CASE FindPRs(s, f)
  <2> DEFINE after(observed) == [r EXCEPT
               !.seen = r.seen \cup observed,
               !.prs = observed \ r.seen,
               !.stage = IF observed \subseteq r.seen THEN "store" ELSE "mine"]
  <2>1. PICK observed : Advance(s, f, after(observed))
    BY <1>4 DEF FindPRs
  <2> DEFINE new == after(observed)
  <2>2. /\ new.seen = r.seen \cup observed
        /\ new.prs = observed \ r.seen
        /\ new.comments = r.comments
        /\ new.facts = r.facts
        /\ new.stage = IF observed \subseteq r.seen THEN "store" ELSE "mine"
    BY <1>1 DEF Flight
  <2>3. r.prs = {} /\ r.comments = {}
    BY <1>1, <1>4 DEF Shape, FindPRs
  <2>4. Advance(s, f, new)
    BY <2>1
  <2> HIDE DEF new
  <2>5. Shape(new)
    BY <2>2, <2>3 DEF Shape
  <2>6. Owes(fate', f, new)
    BY <1>1, <1>2, <2>2, <2>3 DEF Owes
  <2> QED BY <1>2, <2>4, <2>5, <2>6, AdvanceAccounts
<1> QED BY <1>3, <1>4

\* FetchComments and SkipPR: the PR's comments are to classify, or met the
\* fate of not being fetched.
LEMMA FetchAccounts ==
  ASSUME TypeOK, AccountsInv, NEW s \in Services, NEW f \in Files,
         FetchComments(s, f) \/ SkipPR(s, f)
  PROVE  AccountsInv'
<1> DEFINE r == flight[s][f]
<1>1. r \in Flight /\ Owes(fate, f, r) /\ Shape(r)
  BY DEF TypeOK, AccountsInv
<1>2. r.stage = "mine" /\ r.comments = {} /\ UNCHANGED cursor
  BY DEF FetchComments, SkipPR, stored
<1>3. CASE FetchComments(s, f)
  <2>1. PICK p : Advance(s, f, [r EXCEPT !.prs = @ \ {p}, !.comments = CommentsOf[f][p]])
    BY <1>3 DEF FetchComments
  <2> DEFINE new == [r EXCEPT !.prs = @ \ {p}, !.comments = CommentsOf[f][p]]
  <2>2. /\ new.stage = r.stage /\ new.seen = r.seen /\ new.facts = r.facts
        /\ new.prs = r.prs \ {p} /\ new.comments = CommentsOf[f][p]
    BY <1>1 DEF Flight
  <2>3. Advance(s, f, new) /\ UNCHANGED fate
    BY <1>3, <2>1 DEF FetchComments, history
  <2> HIDE DEF new
  <2>4. Shape(new)
    BY <1>2, <2>2 DEF Shape
  <2>5. Owes(fate', f, new)
    BY <1>1, <1>2, <2>2, <2>3 DEF Owes
  <2> QED BY <1>2, <2>3, <2>4, <2>5, AdvanceAccounts DEF FateKept
<1>4. CASE SkipPR(s, f)
  <2>1. PICK p : /\ Advance(s, f, [r EXCEPT !.prs = @ \ {p}])
                 /\ fate' = [c \in Comments |->
                      IF c \in CommentsOf[f][p] THEN fate[c] \cup {"unfetched"}
                      ELSE fate[c]]
    BY <1>4 DEF SkipPR
  <2> DEFINE new == [r EXCEPT !.prs = @ \ {p}]
  <2>2. /\ new.stage = r.stage /\ new.seen = r.seen /\ new.facts = r.facts
        /\ new.prs = r.prs \ {p} /\ new.comments = r.comments
    BY <1>1 DEF Flight
  <2>3. Advance(s, f, new)
    BY <2>1
  <2> HIDE DEF new
  <2>4. Shape(new)
    BY <1>2, <2>2 DEF Shape
  <2>5. FateKept
    BY <2>1 DEF FateKept
  <2>6. Owes(fate', f, r)
    BY <1>1, <2>5, KeptFlight
  <2>7. \A c \in CommentsOf[f][p] : c \in Comments => fate'[c] # {}
    BY <2>1
  <2>8. ASSUME NEW q \in new.seen \ new.prs, NEW c \in CommentsOf[f][q]
        PROVE  \/ fate'[c] # {}
               \/ c \in new.comments
               \/ \E b \in Bodies : <<c, b>> \in new.facts
    <3>1. r.seen \in SUBSET PRs
      BY <1>1 DEF Flight
    <3>2. q \in PRs
      BY <2>2, <3>1
    <3>3. c \in Comments
      BY <3>2, ConstantsAssumption DEF ConstantsAssumption
    <3> QED BY <2>2, <2>6, <2>7, <3>3 DEF Owes
  <2> QED BY <1>2, <2>3, <2>4, <2>5, <2>8, AdvanceAccounts DEF Owes
<1> QED BY <1>3, <1>4

\* ClassifyComment and the upserts: a comment that stops waiting is a fact to
\* store, or has met its fate.
LEMMA WorkAccounts ==
  ASSUME TypeOK, AccountsInv, NEW s \in Services, NEW f \in Files,
         ClassifyComment(s, f) \/ UpsertFact(s, f) \/ UpsertFails(s, f)
  PROVE  AccountsInv'
<1> DEFINE r == flight[s][f]
<1>1. r \in Flight /\ Owes(fate, f, r) /\ Shape(r)
  BY DEF TypeOK, AccountsInv
<1>2. UNCHANGED cursor
  BY DEF ClassifyComment, UpsertFact, UpsertFails, stored
<1>3. CASE ClassifyComment(s, f)
  <2>1. PICK c \in r.comments :
          \/ /\ \E b \in Bodies :
                  Advance(s, f, [r EXCEPT !.stage = "mine", !.comments = @ \ {c},
                                          !.facts = @ \cup {<<c, b>>}])
             /\ UNCHANGED fate
          \/ /\ Advance(s, f, [r EXCEPT !.stage = "mine", !.comments = @ \ {c}])
             /\ fate' = [fate EXCEPT ![c] = @ \cup {"null"}]
    BY <1>3 DEF ClassifyComment
  <2>2. c \in Comments
    BY <1>1 DEF Flight
  <2>3. FateKept
    BY <2>1, <2>2 DEF FateKept, TypeOK
  <2>4. Owes(fate', f, r)
    BY <1>1, <2>3, KeptFlight
  <2>5. ASSUME NEW b \in Bodies,
               Advance(s, f, [r EXCEPT !.stage = "mine", !.comments = @ \ {c},
                                       !.facts = @ \cup {<<c, b>>}])
        PROVE  AccountsInv'
    <3> DEFINE new == [r EXCEPT !.stage = "mine", !.comments = @ \ {c},
                                !.facts = @ \cup {<<c, b>>}]
    <3>1. /\ new.stage = "mine" /\ new.seen = r.seen /\ new.prs = r.prs
          /\ new.comments = r.comments \ {c} /\ new.facts = r.facts \cup {<<c, b>>}
      BY <1>1 DEF Flight
    <3>2. Advance(s, f, new)
      BY <2>5
    <3> HIDE DEF new
    <3>3. Shape(new)
      BY <3>1 DEF Shape
    <3>4. Owes(fate', f, new)
      BY <2>4, <3>1 DEF Owes
    <3> QED BY <1>2, <2>3, <3>2, <3>3, <3>4, AdvanceAccounts
  <2>6. ASSUME Advance(s, f, [r EXCEPT !.stage = "mine", !.comments = @ \ {c}]),
               fate' = [fate EXCEPT ![c] = @ \cup {"null"}]
        PROVE  AccountsInv'
    <3> DEFINE new == [r EXCEPT !.stage = "mine", !.comments = @ \ {c}]
    <3>1. /\ new.stage = "mine" /\ new.seen = r.seen /\ new.prs = r.prs
          /\ new.comments = r.comments \ {c} /\ new.facts = r.facts
      BY <1>1 DEF Flight
    <3>2. Advance(s, f, new)
      BY <2>6
    <3>3. fate'[c] # {}
      BY <2>2, <2>6 DEF TypeOK
    <3> HIDE DEF new
    <3>4. Shape(new)
      BY <3>1 DEF Shape
    <3>5. Owes(fate', f, new)
      BY <2>4, <3>1, <3>3 DEF Owes
    <3> QED BY <1>2, <2>3, <3>2, <3>4, <3>5, AdvanceAccounts
  <2> QED BY <2>1, <2>5, <2>6
<1>4. CASE UpsertFact(s, f) \/ UpsertFails(s, f)
  <2>1. PICK c \in Comments, b \in Bodies, outcome \in {"stored", "rejected"} :
          /\ fate' = [fate EXCEPT ![c] = @ \cup {outcome}]
          /\ \/ Advance(s, f, [r EXCEPT !.facts = @ \ {<<c, b>>}, !.wrote = TRUE])
             \/ Advance(s, f, [r EXCEPT !.facts = @ \ {<<c, b>>}])
    BY <1>4 DEF UpsertFact, UpsertFails
  <2>2. FateKept
    BY <2>1 DEF FateKept, TypeOK
  <2>3. Owes(fate', f, r)
    BY <1>1, <2>2, KeptFlight
  <2>4. fate'[c] # {}
    BY <2>1 DEF TypeOK
  <2>5. r.stage = "store"
    BY <1>4 DEF UpsertFact, UpsertFails
  <2>6. ASSUME NEW new, Advance(s, f, new),
               new.stage = r.stage, new.seen = r.seen, new.prs = r.prs,
               new.comments = r.comments, new.facts = r.facts \ {<<c, b>>}
        PROVE  AccountsInv'
    <3>1. Shape(new)
      BY <1>1, <2>5, <2>6 DEF Shape
    <3>2. Owes(fate', f, new)
      BY <2>3, <2>4, <2>6 DEF Owes
    <3> QED BY <1>2, <2>2, <2>6, <3>1, <3>2, AdvanceAccounts
  <2>7. CASE Advance(s, f, [r EXCEPT !.facts = @ \ {<<c, b>>}, !.wrote = TRUE])
    <3> DEFINE new == [r EXCEPT !.facts = @ \ {<<c, b>>}, !.wrote = TRUE]
    <3>1. /\ new.stage = r.stage /\ new.seen = r.seen /\ new.prs = r.prs
          /\ new.comments = r.comments /\ new.facts = r.facts \ {<<c, b>>}
      BY <1>1 DEF Flight
    <3> QED BY <2>6, <2>7, <3>1
  <2>8. CASE Advance(s, f, [r EXCEPT !.facts = @ \ {<<c, b>>}])
    <3> DEFINE new == [r EXCEPT !.facts = @ \ {<<c, b>>}]
    <3>1. /\ new.stage = r.stage /\ new.seen = r.seen /\ new.prs = r.prs
          /\ new.comments = r.comments /\ new.facts = r.facts \ {<<c, b>>}
      BY <1>1 DEF Flight
    <3> QED BY <2>6, <2>8, <3>1
  <2> QED BY <2>1, <2>7, <2>8
<1> QED BY <1>3, <1>4

\* CheckBudget, ExtractDone and BumpGeneration: only the stage moves, and it
\* moves on when what went before is empty.
LEMMA StageAccounts ==
  ASSUME TypeOK, AccountsInv, NEW s \in Services, NEW f \in Files,
         CheckBudget(s, f) \/ ExtractDone(s, f) \/ BumpGeneration(s, f)
  PROVE  AccountsInv'
<1> DEFINE r == flight[s][f]
<1>1. r \in Flight /\ Owes(fate, f, r) /\ Shape(r)
  BY DEF TypeOK, AccountsInv
<1>2. UNCHANGED <<cursor, fate>>
  BY DEF CheckBudget, ExtractDone, BumpGeneration, stored, history
<1>3. ASSUME NEW stage, Advance(s, f, [r EXCEPT !.stage = stage]),
             stage \notin {"mine", "checked"} => r.prs = {} /\ r.comments = {},
             stage = "save" => r.facts = {}
      PROVE  AccountsInv'
  <2> DEFINE new == [r EXCEPT !.stage = stage]
  <2>1. /\ new.stage = stage /\ new.seen = r.seen /\ new.prs = r.prs
        /\ new.comments = r.comments /\ new.facts = r.facts
    BY <1>1 DEF Flight
  <2>2. Advance(s, f, new)
    BY <1>3
  <2> HIDE DEF new
  <2>3. Shape(new)
    BY <1>3, <2>1 DEF Shape
  <2>4. Owes(fate', f, new)
    BY <1>1, <1>2, <2>1 DEF Owes
  <2> QED BY <1>2, <2>2, <2>3, <2>4, AdvanceAccounts DEF FateKept
<1>4. CASE CheckBudget(s, f)
  BY <1>3, <1>4 DEF CheckBudget
<1>5. CASE ExtractDone(s, f)
  BY <1>3, <1>5 DEF ExtractDone
<1>6. CASE BumpGeneration(s, f)
  <2>1. r.prs = {} /\ r.comments = {} /\ r.facts = {}
    BY <1>1, <1>6 DEF Shape, BumpGeneration
  <2> QED BY <1>3, <1>6, <2>1 DEF BumpGeneration
<1> QED BY <1>4, <1>5, <1>6

\* The flights that end: only SaveCursor writes a cursor, and then nothing is
\* owed.
LEMMA EndAccounts ==
  ASSUME TypeOK, AccountsInv, NEW s \in Services, NEW f \in Files,
         \/ SaveCursor(s, f) \/ SaveFails(s, f) \/ BudgetExceeded(s, f)
         \/ SymbolFails(s, f) \/ FindFails(s, f) \/ Regress(s, f)
         \/ ClassifyFails(s, f)
  PROVE  AccountsInv'
<1>1. UNCHANGED fate /\ FateKept
  BY DEF SaveCursor, SaveFails, BudgetExceeded, SymbolFails, FindFails, Abort,
         Regress, ClassifyFails, history, FateKept
<1>2. CASE SaveCursor(s, f)
  <2> DEFINE r == flight[s][f]
  <2>1. r \in Flight /\ Owes(fate, f, r) /\ Shape(r)
    BY DEF TypeOK, AccountsInv
  <2>2. r.prs = {} /\ r.comments = {} /\ r.facts = {}
    BY <1>2, <2>1 DEF Shape, SaveCursor
  <2>3. \A p \in r.seen : \A c \in CommentsOf[f][p] : fate[c] # {}
    BY <2>1, <2>2 DEF Owes
  <2>4. /\ cursor'[f] \in {cursor[f], r.seen}
        /\ \A g \in Files : g # f => cursor'[g] = cursor[g]
    BY <1>2 DEF SaveCursor, TypeOK
  <2>5. \A p \in cursor'[f] : \A c \in CommentsOf[f][p] : fate'[c] # {}
    BY <1>1, <2>3, <2>4 DEF AccountsInv, CursorAccounts
  <2>6. Finish(s, f, "mined")
    BY <1>2 DEF SaveCursor
  <2> QED BY <1>1, <2>4, <2>5, <2>6, FinishAccounts
<1>3. CASE Regress(s, f)
  <2>1. /\ cursor'[f] = {}
        /\ \A g \in Files : g # f => cursor'[g] = cursor[g]
    BY <1>3 DEF Regress, TypeOK
  <2>2. Finish(s, f, "failed")
    BY <1>3 DEF Regress
  <2> QED BY <1>1, <2>1, <2>2, FinishAccounts
<1>4. CASE \/ SaveFails(s, f) \/ BudgetExceeded(s, f) \/ SymbolFails(s, f)
           \/ FindFails(s, f) \/ ClassifyFails(s, f)
  <2>1. UNCHANGED cursor /\ \E outcome : Finish(s, f, outcome)
    BY <1>4 DEF SaveFails, BudgetExceeded, SymbolFails, FindFails, Abort,
       ClassifyFails, stored
  <2> QED BY <1>1, <2>1, DropAccounts
<1> QED BY <1>2, <1>3, <1>4

\* Steps outside the flights: callers, the operator's wipe, a crash.
LEMMA OuterAccounts ==
  ASSUME TypeOK, AccountsInv,
         \/ \E c \in Callers : CallerStep(c)
         \/ ForceRemine \/ Crash \/ UNCHANGED vars
  PROVE  AccountsInv'
<1>1. UNCHANGED fate /\ FateKept
  BY DEF CallerStep, Call, Enter, GiveUp, Return, ForceRemine, Crash, vars,
         history, FateKept
<1>2. \A f \in Files : cursor'[f] \subseteq cursor[f]
  BY DEF CallerStep, Call, Enter, GiveUp, Return, ForceRemine, Crash, vars, stored
<1>3. ASSUME NEW s \in Services, NEW f \in Files
      PROVE  \/ flight'[s][f] = flight[s][f]
             \/ flight'[s][f] \in {Idle, [Idle EXCEPT !.stage = "load"]}
  <2>1. CASE Crash
    BY <2>1 DEF Crash
  <2>2. ASSUME NEW c \in Callers, NEW g \in Files, Enter(c, g)
        PROVE  \/ flight'[s][f] = flight[s][f]
               \/ flight'[s][f] \in {Idle, [Idle EXCEPT !.stage = "load"]}
    <3>1. \/ flight' = flight
          \/ flight' = [flight EXCEPT ![ServiceOf[c]][g] = [Idle EXCEPT !.stage = "load"]]
      BY <2>2 DEF Enter
    <3>2. flight \in [Services -> [Files -> Flight]]
      BY DEF TypeOK
    <3>3. CASE ServiceOf[c] = s /\ g = f
      BY <3>1, <3>2, <3>3
    <3>4. CASE ~(ServiceOf[c] = s /\ g = f)
      BY <3>1, <3>2, <3>4
    <3> QED BY <3>3, <3>4
  <2>3. CASE flight' = flight
    BY <2>3
  <2> QED
    BY <2>1, <2>2, <2>3 DEF CallerStep, Call, GiveUp, Return, ForceRemine, vars
<1>4. CursorAccounts'
  BY <1>1, <1>2, KeptCursor DEF AccountsInv, CursorAccounts
<1>5. ASSUME NEW s \in Services, NEW f \in Files
      PROVE  Owes(fate', f, flight'[s][f]) /\ Shape(flight'[s][f])
  BY <1>1, <1>3, IdleOwesNothing DEF AccountsInv
<1> QED BY <1>4, <1>5 DEF AccountsInv

LEMMA AccountsStep ==
  ASSUME TypeOK, AccountsInv, [Next]_vars
  PROVE  AccountsInv'
<1>1. ASSUME NEW s \in Services, NEW f \in Files, Progress(s, f)
      PROVE  AccountsInv'
  BY <1>1, WindowAccounts, FetchAccounts, WorkAccounts, StageAccounts, EndAccounts
  DEF Progress
<1>2. ASSUME NEW s \in Services, NEW f \in Files, Failure(s, f)
      PROVE  AccountsInv'
  BY <1>2, FetchAccounts, WorkAccounts, EndAccounts DEF Failure
<1> QED BY <1>1, <1>2, OuterAccounts DEF Next

LEMMA AccountsInit == Init => AccountsInv
<1> SUFFICES ASSUME Init PROVE AccountsInv
  OBVIOUS
<1>1. CursorAccounts
  BY DEF Init, CursorAccounts
<1>2. ASSUME NEW s \in Services, NEW f \in Files
      PROVE  Owes(fate, f, flight[s][f]) /\ Shape(flight[s][f])
  <2>1. flight[s][f] = Idle
    BY DEF Init
  <2> QED BY <2>1, IdleOwesNothing
<1> QED BY <1>1, <1>2 DEF AccountsInv

LEMMA AccountsInvariant == Spec => [](TypeOK /\ AccountsInv)
BY AccountsInit, AccountsStep, TypeCorrect, PTL DEF Spec

\* The stored cursor never claims a PR whose comments were not dealt with,
\* through crashes, failures, regressions and racing services: CursorAccounts.
THEOREM CursorHonest == Spec => []CursorAccounts
<1>1. AccountsInv => CursorAccounts
  BY DEF AccountsInv
<1> QED BY <1>1, AccountsInvariant, PTL
-----------------------------------------------------------------------------
(* The ledger *)

\* A comment that met a fate keeps it: PRs stay accounted for.
LEMMA AccountedGrows ==
  ASSUME FateKept, NEW f \in Files
  PROVE  Accounted(f) \subseteq Accounted(f)'
<1> SUFFICES ASSUME NEW p \in Accounted(f), NEW c \in CommentsOf[f][p]
             PROVE  fate'[c] # {}
  BY DEF Accounted
<1>1. p \in PRs /\ fate[c] # {}
  BY DEF Accounted
<1>2. c \in Comments
  BY <1>1, ConstantsAssumption DEF ConstantsAssumption
<1> QED BY <1>1, <1>2 DEF FateKept

\* A step that leaves the cursor alone and corroborates at most one fact by
\* one new comment is recorded.
LEMMA RecordStep ==
  ASSUME FateKept, UNCHANGED cursor,
         \/ UNCHANGED <<evidence, corroboration>>
         \/ \E f \in Files, b \in Bodies, c \in Comments : Corroborate(f, b, c)
  PROVE  Ledger!Record
<1>1. [f \in Files |-> Accounted(f)]' \in [Files -> SUBSET PRs]
  BY DEF Accounted
<1>2. \A f \in Files : [g \in Files |-> Accounted(g)][f] \subseteq [g \in Files |-> Accounted(g)]'[f]
  BY AccountedGrows
<1>3. \/ UNCHANGED <<evidence, corroboration>>
      \/ \E f \in Files, b \in Bodies, c \in Comments :
           /\ c \notin evidence[f][b]
           /\ evidence' = [evidence EXCEPT ![f][b] = @ \cup {c}]
           /\ corroboration' = [corroboration EXCEPT ![f][b] = @ + 1]
  BY DEF Corroborate
<1> QED BY <1>1, <1>2, <1>3 DEF Ledger!Record

\* Saving a union whose PRs are accounted for lets the next run skip them.
LEMMA SaveStep ==
  ASSUME TypeOK, AccountsInv, NEW s \in Services, NEW f \in Files, SaveCursor(s, f)
  PROVE  [Ledger!Next]_(Ledger!vars)
<1> DEFINE r == flight[s][f]
<1>1. r \in Flight /\ Owes(fate, f, r) /\ Shape(r)
  BY DEF TypeOK, AccountsInv
<1>2. r.prs = {} /\ r.comments = {} /\ r.facts = {}
  BY <1>1 DEF Shape, SaveCursor
<1>3. r.seen \subseteq Accounted(f)
  BY <1>1, <1>2 DEF Owes, Accounted, Flight
<1>4. UNCHANGED <<fate, evidence, corroboration>>
  BY DEF SaveCursor, history
<1>5. [g \in Files |-> Accounted(g)]' = [g \in Files |-> Accounted(g)]
  BY <1>4 DEF Accounted
<1>6. cursor' = cursor \/ cursor' = [cursor EXCEPT ![f] = r.seen]
  BY DEF SaveCursor
<1>7. CASE cursor' = cursor
  BY <1>4, <1>5, <1>7 DEF Ledger!vars
<1>8. CASE cursor' = [cursor EXCEPT ![f] = r.seen]
  BY <1>3, <1>4, <1>5, <1>8 DEF Ledger!Skip, Ledger!Next
<1> QED BY <1>6, <1>7, <1>8

\* A regression empties one cursor, a forced re-mine all of them.
LEMMA ForgetStep ==
  ASSUME TypeOK, ForceRemine \/ \E s \in Services, f \in Files : Regress(s, f)
  PROVE  Ledger!Forget
<1>1. UNCHANGED <<fate, evidence, corroboration>>
  BY DEF ForceRemine, Regress, history
<1>2. [g \in Files |-> Accounted(g)]' = [g \in Files |-> Accounted(g)]
  BY <1>1 DEF Accounted
<1>3. \E F \in SUBSET Files :
        cursor' = [g \in Files |-> IF g \in F THEN {} ELSE cursor[g]]
  <2>1. CASE ForceRemine
    BY <2>1 DEF ForceRemine
  <2>2. ASSUME NEW s \in Services, NEW f \in Files, Regress(s, f)
        PROVE  cursor' = [g \in Files |-> IF g \in {f} THEN {} ELSE cursor[g]]
    BY <2>2 DEF Regress, TypeOK
  <2> QED BY <2>1, <2>2
<1> QED BY <1>1, <1>2, <1>3 DEF Ledger!Forget

\* The service implements the ledger: ImplementsLedger holds for every number
\* of services, callers, files and PRs and whatever fails.
THEOREM LedgerImplemented == Spec => ImplementsLedger
<1>1. Init => Ledger!Init
  BY DEF Init, Ledger!Init, Accounted
<1>2. TypeOK /\ AccountsInv /\ [Next]_vars => [Ledger!Next]_(Ledger!vars)
  <2> SUFFICES ASSUME TypeOK, AccountsInv, [Next]_vars
               PROVE  [Ledger!Next]_(Ledger!vars)
    OBVIOUS
  <2>1. ASSUME NEW s \in Services, NEW f \in Files, UpsertFact(s, f)
        PROVE  Ledger!Next
    <3>1. PICK c \in Comments, b \in Bodies :
            /\ Corroborate(f, b, c)
            /\ fate' = [fate EXCEPT ![c] = @ \cup {"stored"}]
      BY <2>1 DEF UpsertFact
    <3>2. FateKept /\ UNCHANGED cursor
      BY <2>1, <3>1 DEF UpsertFact, FateKept, TypeOK
    <3> QED BY <3>1, <3>2, RecordStep DEF Ledger!Next
  <2>2. ASSUME UNCHANGED <<cursor, evidence, corroboration>>, FateKept
        PROVE  Ledger!Next
    BY <2>2, RecordStep DEF Ledger!Next
  <2>3. ASSUME NEW c \in Callers, CallerStep(c)
        PROVE  UNCHANGED <<cursor, evidence, corroboration>> /\ FateKept
    BY <2>3 DEF CallerStep, Call, Enter, GiveUp, Return, stored, history, FateKept
  <2>4. ASSUME NEW s \in Services, NEW f \in Files,
               \/ LoadCursor(s, f) \/ FindPRs(s, f) \/ FetchComments(s, f)
               \/ CheckBudget(s, f) \/ BudgetExceeded(s, f) \/ ExtractDone(s, f)
               \/ BumpGeneration(s, f) \/ SymbolFails(s, f) \/ FindFails(s, f)
               \/ ClassifyFails(s, f) \/ SaveFails(s, f)
        PROVE  UNCHANGED <<cursor, evidence, corroboration>> /\ FateKept
    BY <2>4 DEF LoadCursor, FindPRs, FetchComments, CheckBudget, BudgetExceeded,
       ExtractDone, BumpGeneration, SymbolFails, FindFails, Abort, ClassifyFails,
       SaveFails, stored, history, FateKept
  <2>5. ASSUME NEW s \in Services, NEW f \in Files,
               ClassifyComment(s, f) \/ SkipPR(s, f) \/ UpsertFails(s, f)
        PROVE  UNCHANGED <<cursor, evidence, corroboration>> /\ FateKept
    <3>1. UNCHANGED <<cursor, evidence, corroboration>>
      BY <2>5 DEF ClassifyComment, SkipPR, UpsertFails, stored
    <3>2. CASE SkipPR(s, f)
      BY <3>1, <3>2 DEF SkipPR, FateKept
    <3>3. CASE ClassifyComment(s, f) \/ UpsertFails(s, f)
      <4>1. \/ UNCHANGED fate
            \/ \E c \in Comments : fate' = [fate EXCEPT ![c] = @ \cup {"rejected"}]
            \/ \E c : fate' = [fate EXCEPT ![c] = @ \cup {"null"}]
        BY <3>3 DEF ClassifyComment, UpsertFails
      <4> QED BY <3>1, <4>1 DEF FateKept, TypeOK
    <3> QED BY <2>5, <3>2, <3>3
  <2>6. CASE Crash \/ UNCHANGED vars
    BY <2>6, <2>2 DEF Crash, vars, stored, history, FateKept
  <2> QED
    BY <2>1, <2>2, <2>3, <2>4, <2>5, <2>6, SaveStep, ForgetStep
    DEF Next, Progress, Failure, Ledger!Next
<1> QED
  BY <1>1, <1>2, AccountsInvariant, PTL DEF Spec, ImplementsLedger, Ledger!Spec
-----------------------------------------------------------------------------
(* The growth of cursors *)

\* One service, whose reads of a cursor succeed, and no forced re-mine.  With
\* two services, the one that loaded a cursor before the other saved it saves
\* a smaller one.
OneWriter ==
  /\ \A s, t \in Services : s = t
  /\ Faults \cap {"read", "remine"} = {}

\* A flight that has loaded the cursor holds it still; a file that is flagged
\* for a re-mine has none.
Holding ==
  /\ \A f \in Files : version[f] = "needs_remine" => cursor[f] = {}
  /\ \A s \in Services, f \in Files :
       flight[s][f].stage \notin {"idle", "load"} => cursor[f] \subseteq flight[s][f].seen

\* Cells of a flight table.
LEMMA AdvanceCells ==
  ASSUME TypeOK, NEW s \in Services, NEW f \in Files, NEW new, Advance(s, f, new)
  PROVE  /\ flight'[s][f] = new /\ UNCHANGED caller
         /\ \A t \in Services, g \in Files :
              ~(t = s /\ g = f) => flight'[t][g] = flight[t][g]
BY DEF Advance, TypeOK

LEMMA AdvanceHolds ==
  ASSUME TypeOK, Holding, NEW s \in Services, NEW f \in Files, NEW new,
         Advance(s, f, new), UNCHANGED <<cursor, version>>, cursor[f] \subseteq new.seen
  PROVE  Holding'
BY AdvanceCells DEF Holding

LEMMA FinishHolds ==
  ASSUME TypeOK, Holding, OneWriter, NEW s \in Services, NEW f \in Files, NEW outcome,
         Finish(s, f, outcome), version'[f] = "needs_remine" => cursor'[f] = {},
         \A g \in Files : g # f => cursor'[g] = cursor[g] /\ version'[g] = version[g]
  PROVE  Holding'
<1>1. \A t \in Services, g \in Files :
        flight'[t][g] = IF g = f THEN Idle ELSE flight[t][g]
  BY DEF Finish, TypeOK, OneWriter
<1>2. \A g \in Files : version'[g] = "needs_remine" => cursor'[g] = {}
  BY DEF Holding
<1> QED BY <1>1, <1>2 DEF Holding, Idle

LEMMA FlightHolds ==
  ASSUME TypeOK, Holding, OneWriter, NEW s \in Services, NEW f \in Files,
         Progress(s, f) \/ Failure(s, f)
  PROVE  Holding'
<1> DEFINE r == flight[s][f]
<1>1. r \in Flight /\ ~Fault("read")
  BY DEF TypeOK, OneWriter, Fault
<1>2. ASSUME NEW new, Advance(s, f, new), UNCHANGED stored, r.seen \subseteq new.seen,
             r.stage \notin {"idle", "load"}
      PROVE  Holding'
  BY <1>2, AdvanceHolds DEF Holding, stored
<1>3. CASE LoadCursor(s, f)
  <2>1. Advance(s, f, [r EXCEPT !.stage = "find",
               !.seen = IF version[f] = "needs_remine" THEN {} ELSE cursor[f]])
    BY <1>1, <1>3 DEF LoadCursor
  <2> DEFINE new == [r EXCEPT !.stage = "find",
               !.seen = IF version[f] = "needs_remine" THEN {} ELSE cursor[f]]
  <2>2. new.seen = IF version[f] = "needs_remine" THEN {} ELSE cursor[f]
    BY <1>1 DEF Flight
  <2>3. Advance(s, f, new)
    BY <2>1
  <2> HIDE DEF new
  <2>4. cursor[f] \subseteq new.seen
    BY <2>2 DEF Holding
  <2>5. UNCHANGED <<cursor, version>>
    BY <1>3 DEF LoadCursor, stored
  <2> QED BY <2>3, <2>4, <2>5, AdvanceHolds
<1>4. CASE FindPRs(s, f)
  <2>1. PICK observed : Advance(s, f, [r EXCEPT
              !.seen = r.seen \cup observed,
              !.prs = observed \ r.seen,
              !.stage = IF observed \subseteq r.seen THEN "store" ELSE "mine"])
    BY <1>4 DEF FindPRs
  <2> DEFINE new == [r EXCEPT
              !.seen = r.seen \cup observed,
              !.prs = observed \ r.seen,
              !.stage = IF observed \subseteq r.seen THEN "store" ELSE "mine"]
  <2>2. r.seen \subseteq new.seen
    BY <1>1 DEF Flight
  <2>3. Advance(s, f, new)
    BY <2>1
  <2> HIDE DEF new
  <2> QED BY <1>2, <1>4, <2>2, <2>3 DEF FindPRs
<1>5. CASE ClassifyComment(s, f)
  <2>1. PICK c :
          \/ \E b \in Bodies :
               Advance(s, f, [r EXCEPT !.stage = "mine", !.comments = @ \ {c},
                                       !.facts = @ \cup {<<c, b>>}])
          \/ Advance(s, f, [r EXCEPT !.stage = "mine", !.comments = @ \ {c}])
    BY <1>5 DEF ClassifyComment
  <2>2. ASSUME Advance(s, f, [r EXCEPT !.stage = "mine", !.comments = @ \ {c}])
        PROVE  \E new : Advance(s, f, new) /\ new.seen = r.seen
    <3> DEFINE new == [r EXCEPT !.stage = "mine", !.comments = @ \ {c}]
    <3>1. new.seen = r.seen /\ Advance(s, f, new)
      BY <1>1, <2>2 DEF Flight
    <3> HIDE DEF new
    <3> QED BY <3>1
  <2>3. ASSUME NEW b \in Bodies,
               Advance(s, f, [r EXCEPT !.stage = "mine", !.comments = @ \ {c},
                                       !.facts = @ \cup {<<c, b>>}])
        PROVE  \E new : Advance(s, f, new) /\ new.seen = r.seen
    <3> DEFINE new == [r EXCEPT !.stage = "mine", !.comments = @ \ {c},
                                !.facts = @ \cup {<<c, b>>}]
    <3>1. new.seen = r.seen /\ Advance(s, f, new)
      BY <1>1, <2>3 DEF Flight
    <3> HIDE DEF new
    <3> QED BY <3>1
  <2>4. PICK new : Advance(s, f, new) /\ new.seen = r.seen
    BY <2>1, <2>2, <2>3
  <2> QED BY <1>2, <1>5, <2>4 DEF ClassifyComment
<1>6. ASSUME FetchComments(s, f) \/ SkipPR(s, f) \/ CheckBudget(s, f) \/ ExtractDone(s, f)
             \/ BumpGeneration(s, f)
      PROVE  Holding'
  <2>1. PICK new : Advance(s, f, new) /\ new.seen = r.seen
    <3>1. CASE FetchComments(s, f)
      <4>1. PICK p : Advance(s, f, [r EXCEPT
              !.prs = @ \ {p}, !.comments = CommentsOf[f][p]])
        BY <3>1 DEF FetchComments
      <4> DEFINE new == [r EXCEPT !.prs = @ \ {p}, !.comments = CommentsOf[f][p]]
      <4>2. new.seen = r.seen /\ Advance(s, f, new)
        BY <1>1, <4>1 DEF Flight
      <4> HIDE DEF new
      <4> QED BY <4>2
    <3>2. CASE SkipPR(s, f)
      <4>1. PICK p : Advance(s, f, [r EXCEPT !.prs = @ \ {p}])
        BY <3>2 DEF SkipPR
      <4> DEFINE new == [r EXCEPT !.prs = @ \ {p}]
      <4>2. new.seen = r.seen /\ Advance(s, f, new)
        BY <1>1, <4>1 DEF Flight
      <4> HIDE DEF new
      <4> QED BY <4>2
    <3>3. CASE CheckBudget(s, f) \/ ExtractDone(s, f) \/ BumpGeneration(s, f)
      <4>1. PICK stage : Advance(s, f, [r EXCEPT !.stage = stage])
        BY <3>3 DEF CheckBudget, ExtractDone, BumpGeneration
      <4> DEFINE new == [r EXCEPT !.stage = stage]
      <4>2. new.seen = r.seen /\ Advance(s, f, new)
        BY <1>1, <4>1 DEF Flight
      <4> HIDE DEF new
      <4> QED BY <4>2
    <3> QED BY <1>6, <3>1, <3>2, <3>3
  <2>2. UNCHANGED stored /\ r.stage \notin {"idle", "load"}
    BY <1>6 DEF FetchComments, SkipPR, CheckBudget, ExtractDone, BumpGeneration
  <2> QED BY <1>2, <2>1, <2>2
<1>7. ASSUME UpsertFact(s, f) \/ UpsertFails(s, f) PROVE Holding'
  <2>1. PICK new : Advance(s, f, new) /\ new.seen = r.seen
    <3>1. CASE UpsertFact(s, f)
      <4>1. PICK c, b : Advance(s, f, [r EXCEPT !.facts = @ \ {<<c, b>>}, !.wrote = TRUE])
        BY <3>1 DEF UpsertFact
      <4> DEFINE new == [r EXCEPT !.facts = @ \ {<<c, b>>}, !.wrote = TRUE]
      <4>2. new.seen = r.seen /\ Advance(s, f, new)
        BY <1>1, <4>1 DEF Flight
      <4> HIDE DEF new
      <4> QED BY <4>2
    <3>2. CASE UpsertFails(s, f)
      <4>1. PICK c, b : Advance(s, f, [r EXCEPT !.facts = @ \ {<<c, b>>}])
        BY <3>2 DEF UpsertFails
      <4> DEFINE new == [r EXCEPT !.facts = @ \ {<<c, b>>}]
      <4>2. new.seen = r.seen /\ Advance(s, f, new)
        BY <1>1, <4>1 DEF Flight
      <4> HIDE DEF new
      <4> QED BY <4>2
    <3> QED BY <1>7, <3>1, <3>2
  <2>2. /\ UNCHANGED <<cursor, version>> /\ r.stage \notin {"idle", "load"}
    BY <1>7 DEF UpsertFact, UpsertFails, stored
  <2>3. cursor[f] \subseteq new.seen
    BY <2>1, <2>2 DEF Holding
  <2> QED BY <2>1, <2>2, <2>3, AdvanceHolds
<1>8. ASSUME \/ SymbolFails(s, f) \/ FindFails(s, f) \/ BudgetExceeded(s, f)
             \/ ClassifyFails(s, f) \/ SaveFails(s, f) \/ SaveCursor(s, f) \/ Regress(s, f)
      PROVE  Holding'
  <2>1. PICK outcome : Finish(s, f, outcome)
    BY <1>8 DEF SymbolFails, FindFails, Abort, BudgetExceeded, ClassifyFails, SaveFails,
       SaveCursor, Regress
  <2>2. \/ UNCHANGED <<cursor, version>>
        \/ /\ version' = [version EXCEPT ![f] = "current"]
           /\ cursor' = [cursor EXCEPT ![f] = r.seen]
        \/ /\ version' = [version EXCEPT ![f] = "needs_remine"]
           /\ cursor' = [cursor EXCEPT ![f] = {}]
    BY <1>8 DEF SymbolFails, FindFails, Abort, BudgetExceeded, ClassifyFails, SaveFails,
       SaveCursor, Regress, stored
  <2>3. /\ version'[f] = "needs_remine" => cursor'[f] = {}
        /\ \A g \in Files : g # f => cursor'[g] = cursor[g] /\ version'[g] = version[g]
    BY <2>2 DEF Holding, TypeOK
  <2> HIDE DEF r
  <2> QED BY <2>1, <2>3, FinishHolds
<1> QED BY <1>3, <1>4, <1>5, <1>6, <1>7, <1>8 DEF Progress, Failure

LEMMA OuterHolds ==
  ASSUME TypeOK, Holding, OneWriter,
         (\E c \in Callers : CallerStep(c)) \/ ForceRemine \/ Crash \/ UNCHANGED vars
  PROVE  Holding'
<1>1. UNCHANGED <<cursor, version>>
  BY DEF CallerStep, Call, Enter, GiveUp, Return, ForceRemine, Crash, vars, stored,
     OneWriter, Fault
<1>2. ASSUME NEW s \in Services, NEW g \in Files
      PROVE  flight'[s][g] = flight[s][g] \/ flight'[s][g].stage \in {"idle", "load"}
  <2>1. CASE UNCHANGED flight
    BY <2>1
  <2>2. CASE Crash
    BY <2>2 DEF Crash, Idle
  <2>3. ASSUME NEW c \in Callers, NEW f \in Files, Enter(c, f), ~UNCHANGED flight
        PROVE  flight'[s][g] = flight[s][g] \/ flight'[s][g].stage \in {"idle", "load"}
    <3>1. flight' = [flight EXCEPT ![ServiceOf[c]][f] = [Idle EXCEPT !.stage = "load"]]
      BY <2>3 DEF Enter
    <3>2. [Idle EXCEPT !.stage = "load"].stage = "load"
      BY DEF Idle
    <3> DEFINE new == [Idle EXCEPT !.stage = "load"]
    <3> HIDE DEF new
    <3>3. flight' = [flight EXCEPT ![ServiceOf[c]][f] = new] /\ new.stage = "load"
      BY <3>1, <3>2 DEF new
    <3> QED BY <3>3 DEF TypeOK
  <2> QED BY <2>1, <2>2, <2>3 DEF CallerStep, Call, GiveUp, Return, ForceRemine, vars, OneWriter, Fault
<1> QED BY <1>1, <1>2 DEF Holding

\* A cursor only grows, unless a regression flags its file for a re-mine: what
\* one service saves last is no less than what it loaded first
\* (service.go:537-545, pr_id_set.go:94-130).
THEOREM CursorsGrow == ASSUME OneWriter PROVE Spec => CursorGrows
<1>1. Init => Holding
  BY DEF Init, Holding, Idle
<1>2. TypeOK /\ Holding /\ [Next]_vars => Holding'
  BY FlightHolds, OuterHolds DEF Next
<1>3. TypeOK /\ Holding /\ [Next]_vars =>
        [\A f \in Files :
           cursor[f] \subseteq cursor'[f] \/ version'[f] = "needs_remine"]_vars
  <2> SUFFICES ASSUME TypeOK, Holding, Next, NEW g \in Files
               PROVE  cursor[g] \subseteq cursor'[g] \/ version'[g] = "needs_remine"
    OBVIOUS
  <2>1. CASE UNCHANGED cursor
    BY <2>1
  <2>2. ASSUME NEW s \in Services, NEW f \in Files, SaveCursor(s, f), ~UNCHANGED cursor
        PROVE  cursor[g] \subseteq cursor'[g]
    <3>1. /\ flight[s][f].stage = "save"
          /\ cursor' = [cursor EXCEPT ![f] = flight[s][f].seen]
      BY <2>2 DEF SaveCursor
    <3> QED BY <3>1 DEF Holding, TypeOK
  <2>3. ASSUME NEW s \in Services, NEW f \in Files, Regress(s, f)
        PROVE  cursor[g] \subseteq cursor'[g] \/ version'[g] = "needs_remine"
    BY <2>3 DEF Regress, TypeOK
  <2>4. ASSUME ~UNCHANGED cursor
        PROVE  \E s \in Services, f \in Files : SaveCursor(s, f) \/ Regress(s, f)
    <3>1. ~ForceRemine /\ ~Crash /\ \A c \in Callers : ~CallerStep(c)
      BY <2>4 DEF OneWriter, Fault, ForceRemine, Crash, CallerStep, Call, Enter, GiveUp,
         Return, stored
    <3>2. PICK s \in Services, f \in Files : Progress(s, f) \/ Failure(s, f)
      BY <3>1 DEF Next
    <3>3. SaveCursor(s, f) \/ Regress(s, f)
      BY <2>4, <3>2 DEF Progress, Failure, LoadCursor, FindPRs, FetchComments, CheckBudget,
         BudgetExceeded, ClassifyComment, ExtractDone, UpsertFact, BumpGeneration,
         SymbolFails, FindFails, Abort, SkipPR, ClassifyFails, UpsertFails, SaveFails, stored
    <3> QED BY <3>3
  <2> QED BY <2>1, <2>2, <2>3, <2>4
<1> QED BY <1>1, <1>2, <1>3, TypeCorrect, PTL DEF Spec, CursorGrows
-----------------------------------------------------------------------------
(* What is sent to the LLM *)

\* One service that lives on, no failure that drops comments it paid for or
\* loses the cursor, and comments of one PR and one file each.
Undisturbed ==
  /\ ~PerCall
  /\ \A s, t \in Services : s = t
  /\ Faults \cap {"read", "regress", "llm", "write", "crash", "remine"} = {}
  /\ \A f, g \in Files, p, q \in PRs :
       f # g \/ p # q => CommentsOf[f][p] \cap CommentsOf[g][q] = {}

\* The PRs a flight may still ask for, or one that starts now.
Ahead(known, r) ==
  IF r.stage \in {"idle", "load"} THEN PRs \ known ELSE (PRs \ r.seen) \cup r.prs

\* A flight starts from the cursor, and has the comments of one PR in hand.
Form(f, known, r) ==
  /\ Shape(r)
  /\ r.stage = "find" => r.seen = known
  /\ r.prs \subseteq r.seen
  /\ r.comments # {} => \E p \in r.seen \ r.prs : r.comments \subseteq CommentsOf[f][p]

\* Nothing that is ahead or in hand was paid for.
Unsent(f, known, r, paid) ==
  /\ \A p \in Ahead(known, r) : \A c \in CommentsOf[f][p] : paid[c] = 0
  /\ \A c \in r.comments : paid[c] = 0

\* ChargedOnce, strengthened to be inductive.  A flight that stops at the budget
\* drops what it paid for, but then no check lets another comment through.
OnceInv ==
  /\ ChargedOnce
  /\ \A f \in Files : version[f] # "needs_remine"
  /\ \A s \in Services, f \in Files :
       /\ Form(f, cursor[f], flight[s][f])
       /\ flight[s][f].stage = "checked" \/ ~BudgetSpent(s) =>
            Unsent(f, cursor[f], flight[s][f], charges)

\* A step inside a flight that pays nothing.
LEMMA AdvanceOnce ==
  ASSUME TypeOK, OnceInv, NEW s \in Services, NEW f \in Files, NEW new,
         Advance(s, f, new), UNCHANGED <<cursor, version, charges, callCount>>,
         Form(f, cursor[f], new),
         new.stage = "checked" \/ ~BudgetSpent(s) => Unsent(f, cursor[f], new, charges)
  PROVE  OnceInv'
<1>1. /\ flight'[s][f] = new
      /\ \A t \in Services, g \in Files :
           ~(t = s /\ g = f) => flight'[t][g] = flight[t][g]
  BY AdvanceCells
<1>2. ASSUME NEW t \in Services, NEW g \in Files
      PROVE  /\ Form(g, cursor[g], flight'[t][g])
             /\ flight'[t][g].stage = "checked" \/ ~BudgetSpent(t) =>
                  Unsent(g, cursor[g], flight'[t][g], charges)
  <2>1. CASE t = s /\ g = f
    BY <1>1, <2>1
  <2>2. CASE ~(t = s /\ g = f)
    <3>1. flight'[t][g] = flight[t][g]
      BY <1>1, <2>2
    <3> QED BY <3>1 DEF OnceInv
  <2> QED BY <2>1, <2>2
<1>3. \A t : BudgetSpent(t)' <=> BudgetSpent(t)
  BY DEF BudgetSpent
<1>4. ChargedOnce' /\ \A g \in Files : version'[g] # "needs_remine"
  BY DEF OnceInv, ChargedOnce
<1>5. UNCHANGED <<cursor, charges>>
  OBVIOUS
<1> QED BY <1>2, <1>3, <1>4, <1>5 DEF OnceInv

\* The end of a flight, the cursor of its file saved or not.
LEMMA FinishOnce ==
  ASSUME TypeOK, OnceInv, Undisturbed, NEW s \in Services, NEW f \in Files, NEW outcome,
         Finish(s, f, outcome), UNCHANGED <<charges, callCount>>,
         \A g \in Files : version'[g] # "needs_remine",
         \A g \in Files : g # f => cursor'[g] = cursor[g],
         ~BudgetSpent(s) =>
           \A p \in PRs \ cursor'[f] : \A c \in CommentsOf[f][p] : charges[c] = 0
  PROVE  OnceInv'
<1>1. /\ flight'[s][f] = Idle
      /\ \A t \in Services, g \in Files :
           ~(t = s /\ g = f) => flight'[t][g] = flight[t][g]
  BY DEF Finish, TypeOK
<1>2. ASSUME NEW t \in Services, NEW g \in Files
      PROVE  /\ Form(g, cursor'[g], flight'[t][g])
             /\ flight'[t][g].stage = "checked" \/ ~BudgetSpent(t) =>
                  Unsent(g, cursor'[g], flight'[t][g], charges)
  <2>1. t = s
    BY DEF Undisturbed
  <2>2. CASE g = f
    BY <1>1, <2>1, <2>2 DEF Idle, Form, Shape, Unsent, Ahead
  <2>3. CASE g # f
    <3>1. flight'[t][g] = flight[t][g] /\ cursor'[g] = cursor[g]
      BY <1>1, <2>3
    <3> QED BY <3>1 DEF OnceInv
  <2> QED BY <2>2, <2>3
<1>3. \A t : BudgetSpent(t)' <=> BudgetSpent(t)
  BY DEF BudgetSpent
<1>4. ChargedOnce'
  BY DEF OnceInv, ChargedOnce
<1>5. UNCHANGED charges
  OBVIOUS
<1> QED BY <1>2, <1>3, <1>4, <1>5 DEF OnceInv

\* A comment the check has let through is sent: it is of no other PR or file.
LEMMA PayOnce ==
  ASSUME TypeOK, OnceInv, Undisturbed, NEW s \in Services, NEW f \in Files,
         ClassifyComment(s, f)
  PROVE  OnceInv'
<1> DEFINE r == flight[s][f]
<1>1. /\ r \in Flight /\ r.stage = "checked" /\ Form(f, cursor[f], r)
      /\ Unsent(f, cursor[f], r, charges)
  BY ZenonT(40) DEF TypeOK, OnceInv, ClassifyComment
<1>2. PICK c \in r.comments :
        /\ charges' = [charges EXCEPT ![c] = @ + 1]
        /\ \/ \E b \in Bodies :
                Advance(s, f, [r EXCEPT !.stage = "mine", !.comments = @ \ {c},
                                        !.facts = @ \cup {<<c, b>>}])
           \/ Advance(s, f, [r EXCEPT !.stage = "mine", !.comments = @ \ {c}])
  BY DEF ClassifyComment
<1>3. PICK new : /\ Advance(s, f, new) /\ new.stage = "mine"
                 /\ new.comments = r.comments \ {c}
                 /\ new.seen = r.seen /\ new.prs = r.prs
  <2>1. CASE Advance(s, f, [r EXCEPT !.stage = "mine", !.comments = @ \ {c}])
    <3> DEFINE n == [r EXCEPT !.stage = "mine", !.comments = @ \ {c}]
    <3>1. /\ n.stage = "mine" /\ n.comments = r.comments \ {c}
          /\ n.seen = r.seen /\ n.prs = r.prs
      BY <1>1 DEF Flight
    <3>2. Advance(s, f, n)
      BY <2>1
    <3> HIDE DEF n
    <3> QED BY <3>1, <3>2
  <2>2. ASSUME NEW b \in Bodies,
               Advance(s, f, [r EXCEPT !.stage = "mine", !.comments = @ \ {c},
                                       !.facts = @ \cup {<<c, b>>}])
        PROVE  \E new : /\ Advance(s, f, new) /\ new.stage = "mine"
                        /\ new.comments = r.comments \ {c}
                        /\ new.seen = r.seen /\ new.prs = r.prs
    <3> DEFINE n == [r EXCEPT !.stage = "mine", !.comments = @ \ {c},
                              !.facts = @ \cup {<<c, b>>}]
    <3>1. /\ n.stage = "mine" /\ n.comments = r.comments \ {c}
          /\ n.seen = r.seen /\ n.prs = r.prs
      BY <1>1 DEF Flight
    <3>2. Advance(s, f, n)
      BY <2>2
    <3> HIDE DEF n
    <3> QED BY <3>1, <3>2
  <2> QED BY <1>2, <2>1, <2>2
<1>4. /\ flight'[s][f] = new
      /\ \A t \in Services, g \in Files :
           ~(t = s /\ g = f) => flight'[t][g] = flight[t][g]
  BY <1>3, AdvanceCells
<1>5. UNCHANGED <<cursor, version>> /\ callCount' = [callCount EXCEPT ![s] = @ + 1]
  BY DEF ClassifyComment, stored
<1>6. PICK q \in PRs : /\ q \in r.seen \ r.prs /\ r.comments \subseteq CommentsOf[f][q]
  BY <1>1, <1>2 DEF Form, Flight
<1>7. c \in Comments /\ charges[c] = 0 /\ c \in CommentsOf[f][q]
  BY <1>1, <1>2, <1>6 DEF Flight, Unsent
<1>8. \A d \in Comments : charges'[d] = IF d = c THEN 1 ELSE charges[d]
  <2>1. charges \in [Comments -> Nat]
    BY DEF TypeOK
  <2>2. charges' = [charges EXCEPT ![c] = charges[c] + 1]
    BY <1>2
  <2>3. charges[c] + 1 = 1
    BY <1>7
  <2> QED BY <1>7, <2>1, <2>2, <2>3
<1>9. ChargedOnce'
  BY <1>8 DEF OnceInv, ChargedOnce
<1>10. Form(f, cursor[f], new)
  BY <1>1, <1>3 DEF Form, Shape
<1>11. Unsent(f, cursor[f], new, charges')
  <2>1. ASSUME NEW p \in Ahead(cursor[f], new), NEW d \in CommentsOf[f][p]
        PROVE  charges'[d] = 0
    <3>1. p \in Ahead(cursor[f], r) /\ p \in PRs /\ p # q
      BY <1>1, <1>3, <1>6 DEF Ahead, Flight
    <3>2. d # c /\ d \in Comments
      BY <1>7, <3>1, ConstantsAssumption DEF Undisturbed, ConstantsAssumption
    <3> QED BY <1>1, <1>8, <3>1, <3>2 DEF Unsent
  <2>2. ASSUME NEW d \in new.comments PROVE charges'[d] = 0
    <3>1. d # c /\ d \in r.comments /\ d \in Comments
      BY <1>1, <1>3 DEF Flight
    <3> QED BY <1>1, <1>8, <3>1 DEF Unsent
  <2> QED BY <2>1, <2>2 DEF Unsent
<1>12. ASSUME NEW g \in Files, g # f, Unsent(g, cursor[g], flight[s][g], charges)
       PROVE  Unsent(g, cursor[g], flight[s][g], charges')
  <2>1. flight[s][g] \in Flight /\ Form(g, cursor[g], flight[s][g])
    BY DEF TypeOK, OnceInv
  <2>2. ASSUME NEW p \in Ahead(cursor[g], flight[s][g]), NEW d \in CommentsOf[g][p]
        PROVE  charges'[d] = 0
    <3>1. p \in PRs
      BY <2>1 DEF Ahead, Flight
    <3>2. d # c /\ d \in Comments
      BY <1>7, <1>12, <3>1, ConstantsAssumption DEF Undisturbed, ConstantsAssumption
    <3> QED BY <1>8, <1>12, <3>2 DEF Unsent
  <2>3. ASSUME NEW d \in flight[s][g].comments PROVE charges'[d] = 0
    <3>1. PICK p \in PRs : d \in CommentsOf[g][p]
      BY <2>1 DEF Form, Flight
    <3>2. d # c /\ d \in Comments
      BY <1>7, <1>12, <3>1, ConstantsAssumption DEF Undisturbed, ConstantsAssumption
    <3> QED BY <1>8, <1>12, <3>2 DEF Unsent
  <2> QED BY <2>2, <2>3 DEF Unsent
<1>13. BudgetSpent(s) => BudgetSpent(s)'
  <2>1. callCount[s] \in Nat /\ callCount'[s] = callCount[s] + 1 /\ DailyBudget \in Nat
    BY <1>5, ConstantsAssumption DEF TypeOK, ConstantsAssumption
  <2> QED BY <2>1 DEF BudgetSpent
<1> HIDE DEF r
<1>14. ASSUME NEW t \in Services, NEW g \in Files
       PROVE  /\ Form(g, cursor[g], flight'[t][g])
              /\ flight'[t][g].stage = "checked" \/ ~BudgetSpent(t)' =>
                   Unsent(g, cursor[g], flight'[t][g], charges')
  <2>1. t = s
    BY DEF Undisturbed
  <2>2. CASE g = f
    BY <1>4, <1>10, <1>11, <2>1, <2>2
  <2>3. CASE g # f
    <3>1. flight'[s][g] = flight[s][g]
      BY <1>4, <2>3
    <3>2. flight[s][g].stage = "checked" \/ ~BudgetSpent(s) =>
            Unsent(g, cursor[g], flight[s][g], charges)
      BY DEF OnceInv
    <3>3. Form(g, cursor[g], flight[s][g])
      BY DEF OnceInv
    <3> QED BY <1>12, <1>13, <2>1, <2>3, <3>1, <3>2, <3>3
  <2> QED BY <2>2, <2>3
<1>15. \A g \in Files : version'[g] # "needs_remine"
  BY <1>5 DEF OnceInv
<1> QED BY <1>5, <1>9, <1>14, <1>15 DEF OnceInv

LEMMA FlightOnce ==
  ASSUME TypeOK, OnceInv, Undisturbed, NEW s \in Services, NEW f \in Files,
         Progress(s, f) \/ Failure(s, f)
  PROVE  OnceInv'
<1> DEFINE r == flight[s][f]
<1>1. /\ r \in Flight /\ Form(f, cursor[f], r)
      /\ r.stage = "checked" \/ ~BudgetSpent(s) => Unsent(f, cursor[f], r, charges)
  BY DEF TypeOK, OnceInv
<1>2. ~Fault("read") /\ ~Fault("regress") /\ ~Fault("llm") /\ ~Fault("write")
  BY DEF Undisturbed, Fault
<1>3. cursor[f] \subseteq PRs
  BY DEF TypeOK
<1>4. CASE LoadCursor(s, f)
  <2>1. Advance(s, f, [r EXCEPT !.stage = "find",
               !.seen = IF version[f] = "needs_remine" THEN {} ELSE cursor[f]])
    BY <1>2, <1>4 DEF LoadCursor
  <2>2. version[f] # "needs_remine"
    BY DEF OnceInv
  <2> DEFINE new == [r EXCEPT !.stage = "find", !.seen = cursor[f]]
  <2>3. Advance(s, f, new)
    BY <2>1, <2>2
  <2>4. /\ new.stage = "find" /\ new.seen = cursor[f]
        /\ new.prs = r.prs /\ new.comments = r.comments /\ new.facts = r.facts
    BY <1>1 DEF Flight
  <2> HIDE DEF new
  <2>5. r.stage = "load" /\ UNCHANGED <<cursor, version, charges, callCount>>
    BY <1>4 DEF LoadCursor, stored, history
  <2>6. Form(f, cursor[f], new)
    BY <1>1, <2>4, <2>5 DEF Form, Shape
  <2>7. ~BudgetSpent(s) => Unsent(f, cursor[f], new, charges)
    BY <1>1, <2>4, <2>5 DEF Unsent, Ahead, Form, Shape
  <2> QED BY <2>3, <2>4, <2>5, <2>6, <2>7, AdvanceOnce
<1>5. CASE FindPRs(s, f)
  <2>1. PICK observed \in SUBSET PRs : Advance(s, f, [r EXCEPT
              !.seen = r.seen \cup observed,
              !.prs = observed \ r.seen,
              !.stage = IF observed \subseteq r.seen THEN "store" ELSE "mine"])
    BY <1>5 DEF FindPRs
  <2> DEFINE new == [r EXCEPT
              !.seen = r.seen \cup observed,
              !.prs = observed \ r.seen,
              !.stage = IF observed \subseteq r.seen THEN "store" ELSE "mine"]
  <2>3. Advance(s, f, new)
    BY <2>1
  <2>4. /\ new.stage = IF observed \subseteq r.seen THEN "store" ELSE "mine"
        /\ new.seen = r.seen \cup observed /\ new.prs = observed \ r.seen
        /\ new.comments = r.comments /\ new.facts = r.facts
    BY <1>1 DEF Flight
  <2> HIDE DEF new
  <2>5. r.stage = "find" /\ UNCHANGED <<cursor, version, charges, callCount>>
    BY <1>5 DEF FindPRs, stored, history
  <2>6. r.comments = {} /\ r.prs = {}
    BY <1>1, <2>5 DEF Form, Shape
  <2>7. Form(f, cursor[f], new)
    BY <1>1, <2>4, <2>5, <2>6 DEF Form, Shape
  <2>8. observed \subseteq PRs
    OBVIOUS
  <2>9. ~BudgetSpent(s) => Unsent(f, cursor[f], new, charges)
    <3>1. Ahead(cursor[f], new) \subseteq Ahead(cursor[f], r)
      BY <2>4, <2>5, <2>6, <2>8 DEF Ahead
    <3> QED BY <1>1, <2>4, <2>6, <3>1 DEF Unsent
  <2> QED BY <2>3, <2>4, <2>5, <2>7, <2>9, AdvanceOnce
<1>6. CASE FetchComments(s, f) \/ SkipPR(s, f)
  <2>1. PICK p \in r.prs :
          \E comments \in {{}, CommentsOf[f][p]} :
            Advance(s, f, [r EXCEPT !.prs = @ \ {p}, !.comments = comments])
    <3>1. CASE FetchComments(s, f)
      BY <3>1 DEF FetchComments
    <3>2. CASE SkipPR(s, f)
      <4>1. PICK p \in r.prs : Advance(s, f, [r EXCEPT !.prs = @ \ {p}])
        BY <3>2 DEF SkipPR
      <4>2. [r EXCEPT !.prs = @ \ {p}] = [r EXCEPT !.prs = @ \ {p}, !.comments = {}]
        BY <1>1, <3>2 DEF SkipPR, Flight
      <4> QED BY <4>1, <4>2
    <3> QED BY <1>6, <3>1, <3>2
  <2>0. PICK comments \in {{}, CommentsOf[f][p]} :
          Advance(s, f, [r EXCEPT !.prs = @ \ {p}, !.comments = comments])
    BY <2>1
  <2> DEFINE new == [r EXCEPT !.prs = @ \ {p}, !.comments = comments]
  <2>2. Advance(s, f, new)
    BY <2>0
  <2>3. r.stage = "mine" /\ UNCHANGED <<cursor, version, charges, callCount>>
    BY <1>6 DEF FetchComments, SkipPR, stored, history
  <2>4. /\ new.stage = "mine" /\ new.seen = r.seen /\ new.prs = r.prs \ {p}
        /\ new.comments = comments
    BY <1>1, <2>3 DEF Flight
  <2> HIDE DEF new
  <2>5. Form(f, cursor[f], new)
    BY <1>1, <2>1, <2>4 DEF Form, Shape
  <2>6. ~BudgetSpent(s) => Unsent(f, cursor[f], new, charges)
    <3>1. Ahead(cursor[f], new) \subseteq Ahead(cursor[f], r) /\ p \in Ahead(cursor[f], r)
      BY <2>3, <2>4 DEF Ahead
    <3> QED BY <1>1, <2>1, <2>4, <3>1 DEF Unsent
  <2> QED BY <2>2, <2>3, <2>4, <2>5, <2>6, AdvanceOnce
<1>7. ASSUME CheckBudget(s, f) \/ ExtractDone(s, f) \/ BumpGeneration(s, f)
             \/ UpsertFact(s, f) \/ UpsertFails(s, f)
      PROVE  OnceInv'
  <2>1. PICK new : /\ Advance(s, f, new) /\ new.seen = r.seen /\ new.prs = r.prs
                   /\ new.comments = r.comments
                   /\ new.stage \in {"checked", "store", "save"}
                   /\ new.stage = "save" => new.facts = {}
                   /\ IF new.stage = "checked" THEN ~BudgetSpent(s)
                      ELSE r.prs = {} /\ r.comments = {}
    <3>1. CASE UpsertFact(s, f)
      <4>1. PICK c, b : Advance(s, f, [r EXCEPT !.facts = @ \ {<<c, b>>}, !.wrote = TRUE])
        BY <3>1 DEF UpsertFact
      <4> DEFINE new == [r EXCEPT !.facts = @ \ {<<c, b>>}, !.wrote = TRUE]
      <4>2. /\ new.stage = "store" /\ new.seen = r.seen /\ new.prs = r.prs
            /\ new.comments = r.comments /\ r.prs = {} /\ r.comments = {}
        BY <1>1, <3>1 DEF UpsertFact, Flight, Form, Shape
      <4>3. Advance(s, f, new)
        BY <4>1
      <4> HIDE DEF new
      <4> QED BY <4>2, <4>3
    <3>2. CASE UpsertFails(s, f)
      <4>1. PICK c, b : Advance(s, f, [r EXCEPT !.facts = @ \ {<<c, b>>}])
        BY <3>2 DEF UpsertFails
      <4> DEFINE new == [r EXCEPT !.facts = @ \ {<<c, b>>}]
      <4>2. /\ new.stage = "store" /\ new.seen = r.seen /\ new.prs = r.prs
            /\ new.comments = r.comments /\ r.prs = {} /\ r.comments = {}
        BY <1>1, <3>2 DEF UpsertFails, Flight, Form, Shape
      <4>3. Advance(s, f, new)
        BY <4>1
      <4> HIDE DEF new
      <4> QED BY <4>2, <4>3
    <3>3. CASE CheckBudget(s, f) \/ ExtractDone(s, f) \/ BumpGeneration(s, f)
      <4>1. PICK stage \in {"checked", "store", "save"} :
              /\ Advance(s, f, [r EXCEPT !.stage = stage])
              /\ stage = "save" => r.facts = {}
              /\ IF stage = "checked" THEN ~BudgetSpent(s)
                 ELSE r.prs = {} /\ r.comments = {}
        <5>1. CASE CheckBudget(s, f)
          BY <5>1 DEF CheckBudget
        <5>2. CASE ExtractDone(s, f)
          BY <5>2 DEF ExtractDone
        <5>3. CASE BumpGeneration(s, f)
          BY <1>1, <5>3 DEF BumpGeneration, Form, Shape
        <5> QED BY <3>3, <5>1, <5>2, <5>3
      <4> DEFINE new == [r EXCEPT !.stage = stage]
      <4>2. /\ new.stage = stage /\ new.seen = r.seen /\ new.prs = r.prs
            /\ new.comments = r.comments /\ new.facts = r.facts
        BY <1>1 DEF Flight
      <4>3. Advance(s, f, new)
        BY <4>1
      <4> HIDE DEF new
      <4> QED BY <4>1, <4>2, <4>3
    <3> QED BY <1>7, <3>1, <3>2, <3>3
  <2>2. /\ r.stage \in {"mine", "store"}
        /\ UNCHANGED <<cursor, version, charges, callCount>>
    BY <1>7 DEF CheckBudget, ExtractDone, BumpGeneration, UpsertFact, UpsertFails,
       stored, history
  <2>3. Form(f, cursor[f], new)
    BY <1>1, <2>1 DEF Form, Shape
  <2>4. new.stage = "checked" \/ ~BudgetSpent(s) => Unsent(f, cursor[f], new, charges)
    BY <1>1, <2>1, <2>2 DEF Unsent, Ahead
  <2> QED BY <2>1, <2>2, <2>3, <2>4, AdvanceOnce
<1>8. CASE SaveCursor(s, f)
  <2>1. /\ Finish(s, f, "mined") /\ r.stage = "save" /\ UNCHANGED <<charges, callCount>>
        /\ IF r.seen = {} THEN UNCHANGED <<cursor, version>>
           ELSE /\ cursor' = [cursor EXCEPT ![f] = r.seen]
                /\ version' = [version EXCEPT ![f] = "current"]
    BY <1>8 DEF SaveCursor, history
  <2>2. /\ \A g \in Files : version'[g] # "needs_remine"
        /\ \A g \in Files : g # f => cursor'[g] = cursor[g]
        /\ r.seen \subseteq cursor'[f]
    BY <2>1 DEF OnceInv, TypeOK
  <2>3. PRs \ cursor'[f] \subseteq Ahead(cursor[f], r)
    BY <2>1, <2>2 DEF Ahead
  <2>4. ~BudgetSpent(s) =>
          \A p \in PRs \ cursor'[f] : \A c \in CommentsOf[f][p] : charges[c] = 0
    BY <1>1, <2>3 DEF Unsent
  <2> HIDE DEF r
  <2> QED BY <2>1, <2>2, <2>4, FinishOnce
<1>9. ASSUME SymbolFails(s, f) \/ FindFails(s, f) \/ BudgetExceeded(s, f)
      PROVE  OnceInv'
  <2>1. PICK outcome : Finish(s, f, outcome)
    BY <1>9 DEF SymbolFails, FindFails, Abort, BudgetExceeded
  <2>2. /\ UNCHANGED <<cursor, version, charges, callCount>>
        /\ r.stage \in {"load", "find"} \/ BudgetSpent(s)
    BY <1>9 DEF SymbolFails, FindFails, Abort, BudgetExceeded, stored, history
  <2>3. /\ \A g \in Files : version'[g] # "needs_remine"
        /\ \A g \in Files : g # f => cursor'[g] = cursor[g]
    BY <2>2 DEF OnceInv
  <2>4. ~BudgetSpent(s) => PRs \ cursor[f] \subseteq Ahead(cursor[f], r)
    BY <1>1, <2>2 DEF Ahead, Form
  <2>5. ~BudgetSpent(s) =>
          \A p \in PRs \ cursor'[f] : \A c \in CommentsOf[f][p] : charges[c] = 0
    BY <1>1, <2>2, <2>4 DEF Unsent
  <2> HIDE DEF r
  <2> QED BY <2>1, <2>2, <2>3, <2>5, FinishOnce
<1>10. ~Regress(s, f) /\ ~ClassifyFails(s, f) /\ ~SaveFails(s, f)
  BY <1>2 DEF Regress, ClassifyFails, SaveFails
<1> QED BY <1>4, <1>5, <1>6, <1>7, <1>8, <1>9, <1>10, PayOnce DEF Progress, Failure

LEMMA CallerOnce ==
  ASSUME TypeOK, OnceInv, Undisturbed, NEW c \in Callers, CallerStep(c)
  PROVE  OnceInv'
<1>1. UNCHANGED <<cursor, version, charges, callCount>>
  BY DEF CallerStep, Call, Enter, GiveUp, Return, stored, history, Undisturbed
<1>2. ASSUME NEW s \in Services, NEW g \in Files
      PROVE  \/ flight'[s][g] = flight[s][g]
             \/ /\ flight[s][g].stage = "idle"
                /\ flight'[s][g] = [Idle EXCEPT !.stage = "load"]
  <2>1. CASE UNCHANGED flight
    BY <2>1
  <2>2. ASSUME NEW f \in Files, Enter(c, f), ~UNCHANGED flight
        PROVE  /\ flight[ServiceOf[c]][f].stage = "idle"
               /\ flight' = [flight EXCEPT ![ServiceOf[c]][f] = [Idle EXCEPT !.stage = "load"]]
    BY <2>2 DEF Enter
  <2>3. ASSUME NEW f \in Files, flight[ServiceOf[c]][f].stage = "idle",
               flight' = [flight EXCEPT ![ServiceOf[c]][f] = [Idle EXCEPT !.stage = "load"]]
        PROVE  \/ flight'[s][g] = flight[s][g]
               \/ /\ flight[s][g].stage = "idle"
                  /\ flight'[s][g] = [Idle EXCEPT !.stage = "load"]
    BY <2>3 DEF TypeOK
  <2> QED BY <2>1, <2>2, <2>3 DEF CallerStep, Call, GiveUp, Return
<1>3. ASSUME NEW s \in Services, NEW g \in Files
      PROVE  /\ Form(g, cursor[g], flight'[s][g])
             /\ flight'[s][g].stage = "checked" \/ ~BudgetSpent(s) =>
                  Unsent(g, cursor[g], flight'[s][g], charges)
  <2>1. CASE flight'[s][g] = flight[s][g]
    BY <2>1 DEF OnceInv
  <2>2. CASE /\ flight[s][g].stage = "idle"
             /\ flight'[s][g] = [Idle EXCEPT !.stage = "load"]
    <3> DEFINE new == [Idle EXCEPT !.stage = "load"]
    <3>1. new.stage = "load" /\ new.prs = {} /\ new.comments = {} /\ new.seen = {}
      BY DEF Idle
    <3> HIDE DEF new
    <3>2. Form(g, cursor[g], new)
      BY <3>1 DEF Form, Shape
    <3>3. ~BudgetSpent(s) => Unsent(g, cursor[g], flight[s][g], charges)
      BY DEF OnceInv
    <3>4. ~BudgetSpent(s) => Unsent(g, cursor[g], new, charges)
      BY <2>2, <3>1, <3>3 DEF Unsent, Ahead
    <3>5. flight'[s][g] = new
      BY <2>2 DEF new
    <3> QED BY <3>1, <3>2, <3>4, <3>5
  <2> QED BY <1>2, <2>1, <2>2
<1>4. \A t : BudgetSpent(t)' <=> BudgetSpent(t)
  BY <1>1 DEF BudgetSpent
<1>5. ChargedOnce' /\ \A g \in Files : version'[g] # "needs_remine"
  BY <1>1 DEF OnceInv, ChargedOnce
<1> QED BY <1>1, <1>3, <1>4, <1>5 DEF OnceInv

LEMMA OnceInit == ASSUME Init PROVE OnceInv
<1>1. /\ \A f \in Files : cursor[f] = {} /\ version[f] = "unmined"
      /\ \A s \in Services, f \in Files : flight[s][f] = Idle
      /\ \A c \in Comments : charges[c] = 0
  BY DEF Init
<1>2. \A f \in Files, p \in PRs : CommentsOf[f][p] \subseteq Comments
  BY ConstantsAssumption DEF ConstantsAssumption
<1>3. /\ Idle.stage = "idle" /\ Idle.prs = {} /\ Idle.comments = {} /\ Idle.seen = {}
  BY DEF Idle
<1>4. ASSUME NEW f \in Files PROVE Form(f, {}, Idle) /\ Unsent(f, {}, Idle, charges)
  BY <1>1, <1>2, <1>3 DEF Form, Shape, Unsent, Ahead
<1>5. ChargedOnce
  BY <1>1 DEF ChargedOnce
<1> QED BY <1>1, <1>4, <1>5 DEF OnceInv

\* singleflight and the cursor together: nothing that is paid for is paid for
\* again, whoever asks for the file and when, though flights fail before they
\* pay, PRs cannot be fetched, facts are refused and callers give up
\* (service.go:402-410, pr_comment.go:184-205).
THEOREM SentOnce == ASSUME Undisturbed PROVE Spec => []ChargedOnce
<1>1. Init => OnceInv
  BY OnceInit
<1>2. TypeOK /\ OnceInv /\ [Next]_vars => OnceInv'
  <2> SUFFICES ASSUME TypeOK, OnceInv, [Next]_vars PROVE OnceInv'
    OBVIOUS
  <2>1. ~ForceRemine /\ ~Crash
    BY DEF ForceRemine, Crash, Undisturbed, Fault
  <2>2. CASE UNCHANGED vars
    BY <2>2 DEF vars, OnceInv, ChargedOnce, BudgetSpent
  <2> QED BY <2>1, <2>2, CallerOnce, FlightOnce DEF Next
<1>3. OnceInv => ChargedOnce
  BY DEF OnceInv
<1> QED BY <1>1, <1>2, <1>3, TypeCorrect, PTL DEF Spec
-----------------------------------------------------------------------------
(* The tool and the batch *)

\* What a tool call or a batch does to the service is a step of the service.
LEMMA ToolStepAllowed == [ToolNext]_toolVars => [Next]_vars
<1>1. ASSUME NEW c \in Callers, ToolStep(c) PROVE [Next]_vars
  BY <1>1 DEF ToolStep, Admit, Deny, Reject, Batch, Begins, Next, CallerStep
<1>2. ASSUME NEW s \in Services, NEW f \in Files, FlightStep(s, f) PROVE Next
  BY <1>2 DEF FlightStep, Next, Progress, Failure
<1>3. Refill => UNCHANGED vars
  BY DEF Refill
<1>4. Outage => Next
  BY DEF Outage, Next
<1> QED BY <1>1, <1>2, <1>3, <1>4 DEF ToolNext, toolVars

\* Whatever holds of the service, every service bound of this module included,
\* holds of it under tool calls and batches (tribal_mine.go:197-289,
\* mcp_mining_factory.go:30-127, extract_cmd.go's batch miner).
THEOREM ToolImplements == ToolSpec => Spec
<1>1. ToolInit => Init
  BY DEF ToolInit
<1> QED BY <1>1, ToolStepAllowed, PTL DEF ToolSpec, Spec

Result == [facts : Nat, failed : Nat]
Some(r) == r.facts > 0 \/ r.failed > 0
Kinds == {"none yet", "facts", "warning", "none"} \cup Errors
Storing == {"store", "save"}

ToolTyped ==
  /\ mined \in [Services -> [Files -> Result]]
  /\ got \in [Callers -> Result]
  /\ reply \in [Callers -> Kinds]
  /\ witnessed \in [Callers -> SUBSET Comments]

\* A flight has a result only once it stores.
Unstored ==
  \A s \in Services, f \in Files :
    flight[s][f].stage \notin Storing => mined[s][f] = Nothing

\* What was seen for a call is in what it has got or will get.
Handed(c) ==
  witnessed[c] # {} =>
    Some(got[c]) \/ \E f \in caller[c].at : Some(mined[ServiceOf[c]][f])

Told(c) ==
  /\ caller[c].pc = "waiting" => \E f \in Files : caller[c].at = {f}
  /\ caller[c].pc # "waiting" => caller[c].at = {}
  /\ c \in Batches => reply[c] = "none yet"
  /\ c \notin Batches /\ caller[c].pc # "idle" => reply[c] # "none" /\ Handed(c)
  /\ reply[c] = "none" => witnessed[c] = {}

ToolInv == ToolTyped /\ Unstored /\ \A c \in Callers : Told(c)

LEMMA ResultSums ==
  ASSUME NEW a \in Result, NEW b \in Result
  PROVE  LET r == [facts |-> a.facts + b.facts, failed |-> a.failed + b.failed]
         IN r \in Result /\ (Some(a) \/ Some(b) => Some(r))
BY DEF Result, Some

LEMMA NothingResult == Nothing \in Result /\ ~Some(Nothing)
BY DEF Nothing, Result, Some

\* A step of caller c, by itself or with a flight it starts.
LEMMA CallerTold ==
  ASSUME TypeOK, ToolInv, NEW c \in Callers, ToolTyped', Told(c)',
         UNCHANGED mined,
         \A d \in Callers \ {c} :
           /\ caller'[d] = caller[d] /\ got'[d] = got[d] /\ reply'[d] = reply[d]
           /\ witnessed'[d] = witnessed[d],
         \A s \in Services, f \in Files :
           flight'[s][f].stage \notin Storing => flight[s][f].stage \notin Storing
  PROVE  ToolInv'
<1>1. Unstored'
  BY DEF ToolInv, Unstored
<1>2. ASSUME NEW d \in Callers \ {c} PROVE Told(d)'
  <2>1. Told(d) /\ caller'[d] = caller[d] /\ got'[d] = got[d] /\ mined' = mined
    BY DEF ToolInv
  <2>2. reply'[d] = reply[d] /\ witnessed'[d] = witnessed[d]
    OBVIOUS
  <2>3. Handed(d) => Handed(d)'
    BY <2>1, <2>2 DEF Handed
  <2> QED BY <2>1, <2>2, <2>3 DEF Told
<1> QED BY <1>1, <1>2 DEF ToolInv

\* A step inside a flight that stores nothing.
LEMMA AdvanceTold ==
  ASSUME TypeOK, ToolInv, UNCHANGED <<mined, got, reply, witnessed>>,
         NEW s \in Services, NEW f \in Files, NEW new, Advance(s, f, new),
         new.stage \notin Storing => flight[s][f].stage \notin Storing
  PROVE  ToolInv'
<1>1. Unstored'
  <2> SUFFICES ASSUME NEW t \in Services, NEW g \in Files,
                      flight'[t][g].stage \notin Storing
               PROVE  mined[t][g] = Nothing
    BY DEF Unstored
  <2>1. CASE t = s /\ g = f
    BY <2>1 DEF Advance, TypeOK, ToolInv, Unstored
  <2>2. CASE ~(t = s /\ g = f)
    BY <2>2 DEF Advance, TypeOK, ToolInv, Unstored
  <2> QED BY <2>1, <2>2
<1>2. UNCHANGED <<mined, got, reply, witnessed, caller>>
  BY DEF Advance
<1> QED BY <1>1, <1>2 DEF ToolInv, ToolTyped, Told, Handed

\* What the end of a flight leaves of a caller.
LEMMA Leaves ==
  ASSUME TypeOK, ToolInv, NEW s \in Services, NEW f \in Files, NEW outcome,
         Finish(s, f, outcome), NEW c \in Callers
  PROVE  /\ ~(ServiceOf[c] = s /\ f \in caller[c].at) => caller'[c] = caller[c]
         /\ ServiceOf[c] = s /\ f \in caller[c].at =>
              /\ caller[c].at = {f} /\ caller[c].pc = "waiting" /\ caller'[c].at = {}
              /\ caller'[c].pc = IF outcome = "budget" THEN "idle" ELSE "mining"
         /\ flight'[s][f] = Idle
         /\ \A t \in Services, g \in Files :
              ~(t = s /\ g = f) => flight'[t][g] = flight[t][g]
<1>1. caller[c] \in Caller /\ Told(c)
  BY DEF TypeOK, ToolInv
<1>2. ServiceOf[c] = s /\ f \in caller[c].at =>
        caller[c].at = {f} /\ caller[c].pc = "waiting"
  BY <1>1 DEF Told
<1>3. caller'[c] = IF ServiceOf[c] = s /\ f \in caller[c].at
                   THEN Delivered(caller[c], f, outcome) ELSE caller[c]
  BY DEF Finish
<1>4. /\ Delivered(caller[c], f, outcome).at = {}
      /\ Delivered(caller[c], f, outcome).pc = IF outcome = "budget" THEN "idle" ELSE "mining"
  BY <1>1 DEF Delivered, Caller
<1>5. flight' = [flight EXCEPT ![s][f] = Idle]
  BY DEF Finish
<1> QED BY <1>2, <1>3, <1>4, <1>5 DEF TypeOK

\* A flight that ends before it stores has nothing for its callers.
LEMMA FailTold ==
  ASSUME TypeOK, ToolInv, NEW s \in Services, NEW f \in Files, NEW outcome,
         Finish(s, f, outcome), flight[s][f].stage \notin Storing,
         UNCHANGED <<mined, got, witnessed>>,
         reply' = [c \in Callers |->
                     IF outcome = "budget" /\ c \in Parked(s, f) THEN "budget" ELSE reply[c]]
  PROVE  ToolInv'
<1>1. ToolTyped'
  BY DEF ToolInv, ToolTyped, Kinds, Errors
<1>2. Unstored'
  <2> SUFFICES ASSUME NEW t \in Services, NEW g \in Files,
                      flight'[t][g].stage \notin Storing
               PROVE  mined[t][g] = Nothing
    BY DEF Unstored
  <2>1. CASE t = s /\ g = f
    BY <2>1 DEF ToolInv, Unstored
  <2>2. CASE ~(t = s /\ g = f)
    <3>1. flight'[t][g] = flight[t][g]
      BY <2>2 DEF Finish, TypeOK
    <3> QED BY <3>1 DEF ToolInv, Unstored
  <2> QED BY <2>1, <2>2
<1>3. ASSUME NEW c \in Callers PROVE Told(c)'
  <2>1. Told(c) /\ mined[s][f] = Nothing
    BY DEF ToolInv, Unstored
  <2>2. CASE ~(ServiceOf[c] = s /\ f \in caller[c].at)
    <3>1. caller'[c] = caller[c] /\ reply'[c] = reply[c]
      BY <2>2, Leaves DEF Parked
    <3> QED BY <2>1, <3>1 DEF Told, Handed
  <2>3. CASE ServiceOf[c] = s /\ f \in caller[c].at
    <3>1. /\ caller[c].at = {f} /\ caller[c].pc = "waiting" /\ caller'[c].at = {}
          /\ caller'[c].pc = IF outcome = "budget" THEN "idle" ELSE "mining"
      BY <2>3, Leaves
    <3>2. c \notin Batches => (witnessed[c] # {} => Some(got[c])) /\ reply[c] # "none"
      BY <2>1, <2>3, <3>1, NothingResult DEF Told, Handed
    <3>3. /\ c \in Batches => reply'[c] = reply[c]
          /\ c \notin Batches => reply'[c] = IF outcome = "budget" THEN "budget" ELSE reply[c]
      BY <2>3 DEF Parked
    <3> QED BY <2>1, <3>1, <3>2, <3>3 DEF Told, Handed
  <2> QED BY <2>2, <2>3
<1> QED BY <1>1, <1>2, <1>3 DEF ToolInv

\* A flight stores a fact, or fails to.
LEMMA CountsTold ==
  ASSUME TypeOK, TypeOK', ToolInv, NEW s \in Services, NEW f \in Files,
         NEW field \in {"facts", "failed"}, Counts(s, f, field),
         flight[s][f].stage = "store", NEW new, Advance(s, f, new), new.stage = "store"
  PROVE  ToolInv'
<1> DEFINE more == [mined[s][f] EXCEPT ![field] = mined[s][f][field] + 1]
<1>1. mined[s][f] \in Result /\ more \in Result /\ Some(more)
  BY DEF ToolInv, ToolTyped, Result, Some
<1> HIDE DEF more
<1>2. mined' = [mined EXCEPT ![s][f] = more]
  BY DEF Counts, ToolInv, ToolTyped, more
<1>3. mined' \in [Services -> [Files -> Result]]
  BY <1>1, <1>2, CellType DEF ToolInv, ToolTyped
<1>4. /\ mined'[s][f] = more
      /\ \A t \in Services, g \in Files : ~(t = s /\ g = f) => mined'[t][g] = mined[t][g]
  BY <1>2 DEF ToolInv, ToolTyped
<1>5. /\ UNCHANGED <<got, reply, caller>>
      /\ flight'[s][f].stage = "store"
      /\ \A t \in Services, g \in Files : ~(t = s /\ g = f) => flight'[t][g] = flight[t][g]
  BY DEF Counts, Advance, TypeOK
<1>6. /\ witnessed' \in [Callers -> SUBSET Comments]
      /\ \A c \in Callers : c \notin Parked(s, f) => witnessed'[c] = witnessed[c]
  <2> DEFINE done == flight[s][f].facts \ flight'[s][f].facts
             firsts == {fact[1] : fact \in done}
  <2>1. firsts \subseteq Comments
    BY DEF TypeOK, Flight
  <2>2. witnessed' = [c \in Callers |-> IF c \in Parked(s, f) THEN witnessed[c] \cup firsts
                                       ELSE witnessed[c]]
    BY DEF Counts
  <2> HIDE DEF firsts
  <2> QED BY <2>1, <2>2 DEF ToolInv, ToolTyped
<1>7. ToolTyped'
  BY <1>3, <1>5, <1>6 DEF ToolInv, ToolTyped
<1>8. Unstored'
  BY <1>4, <1>5 DEF ToolInv, Unstored, Storing
<1>9. ASSUME NEW c \in Callers PROVE Told(c)'
  <2>1. Told(c)
    BY DEF ToolInv
  <2>2. CASE c \in Parked(s, f)
    <3>1. /\ c \notin Batches /\ ServiceOf[c] = s /\ f \in caller[c].at
          /\ caller[c].pc = "waiting"
      BY <2>1, <2>2 DEF Parked, Told
    <3>2. Some(mined'[ServiceOf[c]][f])
      BY <1>1, <1>4, <3>1
    <3>3. reply'[c] # "none" /\ Handed(c)'
      BY <1>5, <2>1, <3>1, <3>2 DEF Told, Handed
    <3> QED BY <1>5, <2>1, <3>1, <3>3 DEF Told
  <2>3. CASE c \notin Parked(s, f)
    <3>1. \A g \in Files : Some(mined[ServiceOf[c]][g]) => Some(mined'[ServiceOf[c]][g])
      <4> SUFFICES ASSUME NEW g \in Files, Some(mined[ServiceOf[c]][g])
                   PROVE  Some(mined'[ServiceOf[c]][g])
        OBVIOUS
      <4>1. ServiceOf[c] \in Services
        BY ConstantsAssumption
      <4>2. CASE ServiceOf[c] = s /\ g = f
        BY <1>1, <1>4, <4>2
      <4>3. CASE ~(ServiceOf[c] = s /\ g = f)
        BY <1>4, <4>1, <4>3
      <4> QED BY <4>2, <4>3
    <3>2. caller[c].at \subseteq Files
      BY DEF TypeOK, Caller
    <3>3. Handed(c) => Handed(c)'
      BY <1>5, <1>6, <2>3, <3>1, <3>2 DEF Handed
    <3> QED BY <1>5, <1>6, <2>1, <2>3, <3>3 DEF Told
  <2> QED BY <2>2, <2>3
<1> QED BY <1>7, <1>8, <1>9 DEF ToolInv

\* The result of a flight is handed to its callers.
LEMMA CollectTold ==
  ASSUME TypeOK, ToolInv, NEW s \in Services, NEW f \in Files,
         Finish(s, f, "mined"), Collect(s, f), UNCHANGED <<reply, witnessed>>
  PROVE  ToolInv'
<1> DEFINE Sum(c) == [facts  |-> got[c].facts + mined[s][f].facts,
                      failed |-> got[c].failed + mined[s][f].failed]
<1>1. \A c \in Callers :
        Sum(c) \in Result /\ (Some(got[c]) \/ Some(mined[s][f]) => Some(Sum(c)))
  BY ResultSums DEF ToolInv, ToolTyped
<1>2. got' = [c \in Callers |-> IF c \in Parked(s, f) THEN Sum(c) ELSE got[c]]
  BY DEF Collect
<1> HIDE DEF Sum
<1>3. mined' = [mined EXCEPT ![s][f] = Nothing]
  BY DEF Collect
<1>4. ToolTyped'
  <2>1. mined' \in [Services -> [Files -> Result]]
    BY <1>3, CellType, NothingResult DEF ToolInv, ToolTyped
  <2> QED BY <1>1, <1>2, <2>1 DEF ToolInv, ToolTyped
<1>5. /\ mined'[s][f] = Nothing
      /\ \A t \in Services, g \in Files : ~(t = s /\ g = f) => mined'[t][g] = mined[t][g]
  BY <1>3 DEF ToolInv, ToolTyped
<1>6. Unstored'
  <2>1. \A t \in Services, g \in Files : ~(t = s /\ g = f) => flight'[t][g] = flight[t][g]
    BY DEF Finish, TypeOK
  <2> QED BY <1>5, <2>1 DEF ToolInv, Unstored
<1>7. ASSUME NEW c \in Callers PROVE Told(c)'
  <2>1. Told(c) /\ reply'[c] = reply[c] /\ witnessed'[c] = witnessed[c]
    BY DEF ToolInv
  <2>2. CASE ~(ServiceOf[c] = s /\ f \in caller[c].at)
    <3>1. caller'[c] = caller[c] /\ got'[c] = got[c]
      BY <1>2, <2>2, Leaves DEF Parked
    <3>2. \A g \in caller[c].at : mined'[ServiceOf[c]][g] = mined[ServiceOf[c]][g]
      <4>1. caller[c].at \subseteq Files /\ ServiceOf[c] \in Services
        BY ConstantsAssumption DEF TypeOK, Caller
      <4> QED BY <1>5, <2>2, <4>1
    <3> QED BY <2>1, <3>1, <3>2 DEF Told, Handed
  <2>3. CASE ServiceOf[c] = s /\ f \in caller[c].at
    <3>1. /\ caller[c].at = {f} /\ caller[c].pc = "waiting" /\ caller'[c].at = {}
          /\ caller'[c].pc = "mining"
      BY <2>3, Leaves
    <3>2. c \notin Batches => (witnessed[c] # {} => Some(got'[c])) /\ reply[c] # "none"
      <4> SUFFICES ASSUME c \notin Batches
                   PROVE  (witnessed[c] # {} => Some(got'[c])) /\ reply[c] # "none"
        OBVIOUS
      <4>1. c \in Parked(s, f)
        BY <2>3 DEF Parked
      <4>2. got'[c] = Sum(c)
        BY <1>2, <4>1
      <4>3. (witnessed[c] # {} => Some(got[c]) \/ Some(mined[s][f])) /\ reply[c] # "none"
        BY <2>1, <2>3, <3>1 DEF Told, Handed
      <4> QED BY <1>1, <4>2, <4>3
    <3> QED BY <2>1, <3>1, <3>2 DEF Told, Handed
  <2> QED BY <2>2, <2>3
<1> QED BY <1>4, <1>6, <1>7 DEF ToolInv

LEMMA FlightTold ==
  ASSUME TypeOK, TypeOK', ToolInv, NEW s \in Services, NEW f \in Files, FlightStep(s, f)
  PROVE  ToolInv'
<1>1. flight[s][f] \in Flight
  BY DEF TypeOK
<1>2. ASSUME LoadCursor(s, f) /\ UNCHANGED <<mined, got, reply, witnessed>>
      PROVE  ToolInv'
  <2>1. PICK since : Advance(s, f, [flight[s][f] EXCEPT !.stage = "find",
               !.seen = IF version[f] = "needs_remine" THEN {} ELSE since])
    BY <1>2 DEF LoadCursor
  <2>2. flight[s][f].stage = "load"
    BY <1>2 DEF LoadCursor
  <2> QED BY <1>2, <2>1, <2>2, AdvanceTold DEF Storing
<1>3. ASSUME FindPRs(s, f) /\ UNCHANGED <<mined, got, reply, witnessed>>
      PROVE  ToolInv'
  <2>1. PICK new : Advance(s, f, new)
    BY <1>3 DEF FindPRs
  <2>2. flight[s][f].stage = "find"
    BY <1>3 DEF FindPRs
  <2> QED BY <1>3, <2>1, <2>2, AdvanceTold DEF Storing
<1>4. ASSUME FetchComments(s, f) \/ SkipPR(s, f) \/ CheckBudget(s, f) \/ ExtractDone(s, f),
             UNCHANGED <<mined, got, reply, witnessed>>
      PROVE  ToolInv'
  <2>1. PICK new : Advance(s, f, new)
    BY <1>4 DEF FetchComments, SkipPR, CheckBudget, ExtractDone
  <2>2. flight[s][f].stage = "mine"
    BY <1>4 DEF FetchComments, SkipPR, CheckBudget, ExtractDone
  <2> QED BY <1>4, <2>1, <2>2, AdvanceTold DEF Storing
<1>5. ASSUME ClassifyComment(s, f) /\ UNCHANGED <<mined, got, reply, witnessed>>
      PROVE  ToolInv'
  <2>1. PICK new : Advance(s, f, new)
    BY <1>5 DEF ClassifyComment
  <2>2. flight[s][f].stage = "checked"
    BY <1>5 DEF ClassifyComment
  <2> QED BY <1>5, <2>1, <2>2, AdvanceTold DEF Storing
<1>6. ASSUME BumpGeneration(s, f) /\ UNCHANGED <<mined, got, reply, witnessed>>
      PROVE  ToolInv'
  <2>1. Advance(s, f, [flight[s][f] EXCEPT !.stage = "save"])
    BY <1>6 DEF BumpGeneration
  <2>2. [flight[s][f] EXCEPT !.stage = "save"].stage \in Storing
    BY <1>1 DEF Flight, Storing
  <2> QED BY <1>6, <2>1, <2>2, AdvanceTold
<1>7. ASSUME NEW field \in {"facts", "failed"}, Counts(s, f, field),
             UpsertFact(s, f) \/ UpsertFails(s, f)
      PROVE  ToolInv'
  <2>1. PICK new : Advance(s, f, new) /\ new.stage = "store"
    <3>1. CASE UpsertFact(s, f)
      <4>1. PICK c, b : Advance(s, f, [flight[s][f] EXCEPT
                          !.facts = @ \ {<<c, b>>}, !.wrote = TRUE])
        BY <3>1 DEF UpsertFact
      <4> DEFINE new == [flight[s][f] EXCEPT !.facts = @ \ {<<c, b>>}, !.wrote = TRUE]
      <4>2. new.stage = "store"
        BY <1>1, <3>1 DEF UpsertFact, Flight
      <4>3. Advance(s, f, new)
        BY <4>1
      <4> HIDE DEF new
      <4> QED BY <4>2, <4>3
    <3>2. CASE UpsertFails(s, f)
      <4>1. PICK c, b : Advance(s, f, [flight[s][f] EXCEPT !.facts = @ \ {<<c, b>>}])
        BY <3>2 DEF UpsertFails
      <4> DEFINE new == [flight[s][f] EXCEPT !.facts = @ \ {<<c, b>>}]
      <4>2. new.stage = "store"
        BY <1>1, <3>2 DEF UpsertFails, Flight
      <4>3. Advance(s, f, new)
        BY <4>1
      <4> HIDE DEF new
      <4> QED BY <4>2, <4>3
    <3> QED BY <1>7, <3>1, <3>2
  <2>2. flight[s][f].stage = "store"
    BY <1>7 DEF UpsertFact, UpsertFails
  <2> QED BY <1>7, <2>1, <2>2, CountsTold
<1>8. ASSUME SaveCursor(s, f) \/ SaveFails(s, f), Collect(s, f),
             UNCHANGED <<reply, witnessed>>
      PROVE  ToolInv'
  <2>1. Finish(s, f, "mined")
    BY <1>8 DEF SaveCursor, SaveFails
  <2> QED BY <1>8, <2>1, CollectTold
<1>9. ASSUME \/ SymbolFails(s, f) \/ FindFails(s, f) \/ Regress(s, f)
             \/ ClassifyFails(s, f),
             UNCHANGED <<mined, got, reply, witnessed>>
      PROVE  ToolInv'
  <2>1. Finish(s, f, "failed") /\ flight[s][f].stage \notin Storing
    BY <1>9 DEF SymbolFails, FindFails, Regress, ClassifyFails, Abort, Storing
  <2>2. reply' = [c \in Callers |-> reply[c]] /\ UNCHANGED <<mined, got, witnessed>>
    BY <1>9 DEF ToolInv, ToolTyped
  <2> QED BY <2>1, <2>2, FailTold
<1>10. ASSUME BudgetExceeded(s, f),
              reply' = [c \in Callers |-> IF c \in Parked(s, f) THEN "budget" ELSE reply[c]],
              UNCHANGED <<mined, got, witnessed>>
       PROVE  ToolInv'
  <2>1. Finish(s, f, "budget") /\ flight[s][f].stage \notin Storing
    BY <1>10 DEF BudgetExceeded, Storing
  <2> QED BY <1>10, <2>1, FailTold
<1> QED BY <1>2, <1>3, <1>4, <1>5, <1>6, <1>7, <1>8, <1>9, <1>10 DEF FlightStep, tool

\* A call or a batch begins.
LEMMA BeginsTold ==
  ASSUME TypeOK, ToolInv, NEW c \in Callers, Begins(c)
  PROVE  ToolInv'
<1>1. PICK paths : caller' = [caller EXCEPT ![c] =
                     [caller[c] EXCEPT !.pc = "mining", !.todo = paths, !.calls = @ + 1]]
  BY DEF Begins, Call
<1>2. /\ caller[c].pc = "idle" /\ caller[c] \in Caller /\ Told(c)
      /\ UNCHANGED <<flight, mined>>
  BY DEF Begins, Call, TypeOK, ToolInv
<1>3. /\ caller'[c].pc = "mining" /\ caller'[c].at = {}
      /\ \A d \in Callers \ {c} : caller'[d] = caller[d]
  BY <1>1, <1>2 DEF TypeOK, Caller, Told
<1>4. /\ got' = [got EXCEPT ![c] = Nothing] /\ witnessed' = [witnessed EXCEPT ![c] = {}]
      /\ reply' = IF c \in Batches THEN reply ELSE [reply EXCEPT ![c] = "none yet"]
  BY DEF Begins, Replies
<1>5. ToolTyped'
  BY <1>2, <1>4, NothingResult DEF ToolInv, ToolTyped, Kinds
<1>6. /\ witnessed'[c] = {} /\ reply'[c] = "none yet"
      /\ \A d \in Callers \ {c} :
           got'[d] = got[d] /\ reply'[d] = reply[d] /\ witnessed'[d] = witnessed[d]
  BY <1>2, <1>4 DEF ToolInv, ToolTyped, Told
<1>7. Told(c)'
  BY <1>3, <1>6 DEF Told, Handed
<1> QED BY <1>2, <1>3, <1>5, <1>6, <1>7, CallerTold

LEMMA ToolStepTold ==
  ASSUME TypeOK, ToolInv, NEW c \in Callers, ToolStep(c)
  PROVE  ToolInv'
<1>1. caller[c] \in Caller /\ Told(c)
  BY DEF TypeOK, ToolInv
<1>2. ASSUME Deny(c) \/ Reject(c) PROVE ToolInv'
  <2>1. PICK kind \in {"limited", "unavailable", "none"} : Replies(c, kind)
    BY <1>2 DEF Deny, Reject
  <2>2. /\ c \notin Batches /\ caller[c].pc = "idle"
        /\ UNCHANGED <<caller, flight, mined, got>>
    BY <1>2 DEF Deny, Reject, vars
  <2>3. /\ witnessed' = witnessed \/ witnessed' = [witnessed EXCEPT ![c] = {}]
        /\ kind = "none" => witnessed' = [witnessed EXCEPT ![c] = {}]
    <3>1. CASE Reject(c)
      BY <3>1 DEF Reject
    <3>2. CASE Deny(c)
      <4>1. reply' = [reply EXCEPT ![c] = "limited"] /\ witnessed' = witnessed
        BY <3>2 DEF Deny, Replies
      <4>2. reply'[c] = "limited" /\ reply'[c] = kind
        BY <2>1, <2>2, <4>1 DEF Replies, ToolInv, ToolTyped
      <4> QED BY <4>1, <4>2
    <3> QED BY <1>2, <3>1, <3>2
  <2>4. reply' = [reply EXCEPT ![c] = kind]
    BY <2>1, <2>2 DEF Replies
  <2>5. ToolTyped'
    BY <2>2, <2>3, <2>4 DEF ToolInv, ToolTyped, Kinds, Errors
  <2>6. /\ reply'[c] = kind /\ (kind = "none" => witnessed'[c] = {})
        /\ \A d \in Callers \ {c} : reply'[d] = reply[d] /\ witnessed'[d] = witnessed[d]
    BY <2>3, <2>4 DEF ToolInv, ToolTyped
  <2>7. Told(c)'
    BY <1>1, <2>2, <2>6 DEF Told, Handed
  <2> QED BY <2>2, <2>5, <2>6, <2>7, CallerTold
<1>3. ASSUME NEW f \in Files, Enter(c, f), UNCHANGED tool PROVE ToolInv'
  <2>1. /\ caller' = [caller EXCEPT ![c] = [caller[c] EXCEPT !.pc = "waiting", !.at = {f}]]
        /\ caller[c].pc = "mining"
    BY <1>3 DEF Enter
  <2>2. /\ caller'[c].pc = "waiting" /\ caller'[c].at = {f}
        /\ \A d \in Callers \ {c} : caller'[d] = caller[d]
    BY <1>1, <2>1 DEF TypeOK, Caller
  <2>3. UNCHANGED <<mined, got, reply, witnessed>> /\ ToolTyped'
    BY <1>3 DEF tool, ToolInv, ToolTyped
  <2>4. Told(c)'
    <3>1. c \notin Batches => reply[c] # "none" /\ (witnessed[c] # {} => Some(got[c]))
      BY <1>1, <2>1 DEF Told, Handed
    <3> QED BY <1>1, <2>2, <2>3, <3>1 DEF Told, Handed
  <2>5. \A s \in Services, g \in Files :
          flight'[s][g].stage \notin Storing => flight[s][g].stage \notin Storing
    <3>1. CASE flight[ServiceOf[c]][f].stage = "idle"
      <4>1. flight' = [flight EXCEPT ![ServiceOf[c]][f] = [Idle EXCEPT !.stage = "load"]]
        BY <1>3, <3>1 DEF Enter
      <4> QED BY <3>1, <4>1 DEF TypeOK, Storing
    <3>2. CASE flight[ServiceOf[c]][f].stage # "idle"
      BY <1>3, <3>2 DEF Enter
    <3> QED BY <3>1, <3>2
  <2> QED BY <2>2, <2>3, <2>4, <2>5, CallerTold
<1>4. ASSUME NEW kind \in Kinds, Replies(c, kind), GiveUp(c) \/ Return(c),
             UNCHANGED <<mined, got, witnessed>>, kind = "none" => witnessed[c] = {}
      PROVE  ToolInv'
  <2>1. /\ caller[c].pc = "mining" /\ caller[c].at = {} /\ UNCHANGED flight
        /\ caller'[c].pc = "idle" /\ caller'[c].at = {}
        /\ \A d \in Callers \ {c} : caller'[d] = caller[d]
    <3>1. caller[c].pc = "mining" /\ caller[c].at = {} /\ UNCHANGED flight
      BY <1>1, <1>4 DEF GiveUp, Return, Told
    <3>2. \/ caller' = [caller EXCEPT ![c] = [caller[c] EXCEPT !.pc = "idle", !.todo = {}]]
          \/ caller' = [caller EXCEPT ![c] = [caller[c] EXCEPT !.pc = "idle"]]
      BY <1>4 DEF GiveUp, Return
    <3>3. caller \in [Callers -> Caller]
      BY DEF TypeOK
    <3> DEFINE done == [caller[c] EXCEPT !.pc = "idle", !.todo = {}]
               left == [caller[c] EXCEPT !.pc = "idle"]
    <3>4. done.pc = "idle" /\ done.at = {} /\ left.pc = "idle" /\ left.at = {}
      BY <1>1, <3>1 DEF Caller
    <3>5. \/ caller' = [caller EXCEPT ![c] = done] \/ caller' = [caller EXCEPT ![c] = left]
      BY <3>2
    <3> HIDE DEF done, left
    <3> QED BY <3>1, <3>3, <3>4, <3>5
  <2>2. reply' = IF c \in Batches THEN reply ELSE [reply EXCEPT ![c] = kind]
    BY <1>4 DEF Replies
  <2>3. ToolTyped'
    BY <1>4, <2>2 DEF ToolInv, ToolTyped
  <2>4. /\ reply'[c] = IF c \in Batches THEN reply[c] ELSE kind
        /\ \A d \in Callers \ {c} : reply'[d] = reply[d]
    BY <2>2 DEF ToolInv, ToolTyped
  <2>5. Told(c)'
    BY <1>1, <1>4, <2>1, <2>4 DEF Told, Handed
  <2> QED BY <1>4, <2>1, <2>3, <2>4, <2>5, CallerTold
<1>5. ASSUME Return(c), Replies(c, Rendered(c)), UNCHANGED <<mined, got, witnessed>>
      PROVE  ToolInv'
  <2>1. caller[c].pc = "mining" /\ got[c] \in Result
    BY <1>5 DEF Return, ToolInv, ToolTyped
  <2>2. CASE c \notin Batches
    <3>1. witnessed[c] # {} => Some(got[c])
      BY <1>1, <2>1, <2>2 DEF Told, Handed
    <3>2. Rendered(c) \in Kinds /\ (Rendered(c) = "none" => ~Some(got[c]))
      BY DEF Rendered, Kinds, Some
    <3> QED BY <1>4, <1>5, <3>1, <3>2
  <2>3. CASE c \in Batches
    <3>1. Replies(c, "facts")
      BY <1>5, <2>3 DEF Replies
    <3> QED BY <1>4, <1>5, <3>1 DEF Kinds
  <2> QED BY <2>2, <2>3
<1>6. ASSUME GiveUp(c), Replies(c, "canceled"), UNCHANGED <<mined, got, witnessed>>
      PROVE  ToolInv'
  BY <1>4, <1>6 DEF Kinds, Errors
<1> QED BY <1>2, <1>3, <1>5, <1>6, BeginsTold DEF ToolStep, Admit, Batch

LEMMA OutageTold ==
  ASSUME TypeOK, ToolInv, Outage
  PROVE  ToolInv'
<1>1. CASE ForceRemine /\ UNCHANGED tool
  BY <1>1 DEF ForceRemine, tool, ToolInv, ToolTyped, Unstored, Told, Handed
<1>2. CASE Crash /\ ~(ForceRemine /\ UNCHANGED tool)
  <2>1. /\ mined' = [s \in Services |-> [f \in Files |-> Nothing]]
        /\ got' = [c \in Callers |-> Nothing]
        /\ reply' = [c \in Callers |-> "none yet"]
        /\ witnessed' = [c \in Callers |-> {}]
        /\ caller' = [c \in Callers |-> [AtRest EXCEPT !.calls = caller[c].calls]]
    BY <1>2 DEF Outage, Crash
  <2>2. ToolTyped' /\ Unstored'
    BY <2>1, NothingResult DEF ToolTyped, Unstored, Kinds
  <2>3. ASSUME NEW c \in Callers PROVE Told(c)'
    <3>1. caller'[c].pc = "idle" /\ caller'[c].at = {}
      BY <2>1 DEF AtRest
    <3> QED BY <2>1, <3>1 DEF Told
  <2> QED BY <2>2, <2>3 DEF ToolInv
<1> QED BY <1>1, <1>2 DEF Outage

LEMMA ToolInvariant == ToolSpec => [](TypeOK /\ ToolInv)
<1>1. ToolInit => ToolInv
  <2> SUFFICES ASSUME ToolInit PROVE ToolInv
    OBVIOUS
  <2>1. ToolTyped /\ Unstored
    BY NothingResult DEF ToolInit, ToolTyped, Unstored, Kinds
  <2>2. ASSUME NEW c \in Callers PROVE Told(c)
    <3>1. caller[c].pc = "idle" /\ caller[c].at = {}
      BY DEF ToolInit, Init, AtRest
    <3> QED BY <3>1 DEF ToolInit, Told
  <2> QED BY <2>1, <2>2 DEF ToolInv
<1>2. TypeOK /\ TypeOK' /\ ToolInv /\ [ToolNext]_toolVars => ToolInv'
  <2> SUFFICES ASSUME TypeOK, TypeOK', ToolInv, [ToolNext]_toolVars PROVE ToolInv'
    OBVIOUS
  <2>1. ASSUME Refill \/ UNCHANGED toolVars PROVE ToolInv'
    <3>1. UNCHANGED <<caller, flight, mined, got, reply, witnessed>>
      BY <2>1 DEF Refill, toolVars, vars, tool
    <3> QED BY <3>1 DEF ToolInv, ToolTyped, Unstored, Told, Handed
  <2> QED BY <2>1, ToolStepTold, FlightTold, OutageTold DEF ToolNext
<1> QED BY <1>1, <1>2, ToolImplements, TypeCorrect, PTL DEF ToolSpec

\* An agent is told that there is nothing new only when no fact was stored or
\* refused by the database for it while it waited, in a flight of its own or one
\* it shared (tribal_mine.go:295-312).
THEOREM NoneHonest == ToolSpec => []NoneMeansNone
<1>1. ToolInv => NoneMeansNone
  BY DEF ToolInv, Told, NoneMeansNone
<1> QED BY <1>1, ToolInvariant, PTL
-----------------------------------------------------------------------------
(* What is spent *)

SpendTyped ==
  /\ tokens \in 0 .. Burst
  /\ refills \in Nat
  /\ admitted \in Nat
  /\ spent \in Nat

\* A flight under way has a caller of its service parked on it.
Attended ==
  \A s \in Services, f \in Files :
    flight[s][f].stage # "idle" =>
      \E c \in Callers :
        ServiceOf[c] = s /\ caller[c].pc = "waiting" /\ caller[c].at = {f}

\* A service of one caller has one flight at a time, so what the check has seen
\* holds until the call is made.
Affordable ==
  \A s \in Services, f \in Files :
    flight[s][f].stage = "checked" => ~BudgetSpent(s)

\* The batches that ran, and the tokens that are gone.
Ran == {b \in Batches : caller[b].calls > 0}
Admissions ==
  RateLimited => admitted + tokens <= Burst + refills + Cardinality(Ran)

\* The books: the calls that were admitted, and the LLM calls made for them,
\* numbered within the call that pays for them.
Books(calls, bills) ==
  /\ calls \subseteq Callers \X Nat /\ IsFiniteSet(calls)
  /\ Cardinality(calls) = admitted
  /\ bills \subseteq calls \X (1 .. DailyBudget)
  /\ Cardinality(bills) = spent
  /\ \A c \in Callers, n \in Nat : <<c, n>> \in calls => n <= caller[c].calls
  /\ \A c \in Callers :
       caller[c].pc # "idle" =>
         /\ <<c, caller[c].calls>> \in calls
         /\ \A k \in 1 .. DailyBudget :
              <<<<c, caller[c].calls>>, k>> \in bills => k <= callCount[ServiceOf[c]]

Billed == DailyBudget > 0 => \E calls, bills : Books(calls, bills)

SpendInv == SpendTyped /\ Attended /\ Affordable /\ Admissions /\ Billed

\* Two callers have two services.
LEMMA OwnService ==
  ASSUME NEW c \in Callers, NEW d \in Callers, ServiceOf[c] = ServiceOf[d]
  PROVE  c = d
BY PerCallAssumption, ToolAssumption DEF ToolAssumption

LEMMA OneFlight ==
  ASSUME Attended, NEW s \in Services, NEW f \in Files, NEW g \in Files,
         flight[s][f].stage # "idle", flight[s][g].stage # "idle"
  PROVE  f = g
<1>1. PICK c \in Callers : ServiceOf[c] = s /\ caller[c].at = {f}
  BY DEF Attended
<1>2. PICK d \in Callers : ServiceOf[d] = s /\ caller[d].at = {g}
  BY DEF Attended
<1>3. c = d
  BY <1>1, <1>2, OwnService
<1> QED BY <1>1, <1>2, <1>3

LEMMA RanFinite == IsFiniteSet(Ran) /\ Cardinality(Ran) \in Nat
<1>1. Ran \subseteq Batches
  BY DEF Ran
<1> QED BY <1>1, ToolAssumption, FS_Subset, FS_CardinalityType DEF ToolAssumption

\* The end of a flight lets its own callers go.
LEMMA FinishCells ==
  ASSUME TypeOK, ToolInv, NEW s \in Services, NEW f \in Files, NEW outcome,
         Finish(s, f, outcome)
  PROVE  /\ flight'[s][f].stage = "idle"
         /\ \A t \in Services, g \in Files :
              ~(t = s /\ g = f) => flight'[t][g] = flight[t][g]
         /\ \A c \in Callers :
              /\ ~(ServiceOf[c] = s /\ caller[c].at = {f}) => caller'[c] = caller[c]
              /\ caller'[c].calls = caller[c].calls
              /\ caller'[c].pc # "idle" => caller[c].pc # "idle"
<1>1. /\ flight'[s][f] = Idle
      /\ \A t \in Services, g \in Files :
           ~(t = s /\ g = f) => flight'[t][g] = flight[t][g]
  BY DEF Finish, TypeOK
<1>2. ASSUME NEW c \in Callers
      PROVE  /\ ~(ServiceOf[c] = s /\ caller[c].at = {f}) => caller'[c] = caller[c]
             /\ caller'[c].calls = caller[c].calls
             /\ caller'[c].pc # "idle" => caller[c].pc # "idle"
  <2>1. caller[c] \in Caller
    BY DEF TypeOK
  <2>2. caller'[c] = IF ServiceOf[c] = s /\ f \in caller[c].at
                     THEN Delivered(caller[c], f, outcome) ELSE caller[c]
    BY DEF Finish
  <2>3. Delivered(caller[c], f, outcome).calls = caller[c].calls
    BY <2>1 DEF Delivered, Caller
  <2>4. f \in caller[c].at => caller[c].at = {f} /\ caller[c].pc = "waiting"
    BY DEF ToolInv, Told
  <2> QED BY <2>2, <2>3, <2>4
<1> QED BY <1>1, <1>2 DEF Idle

\* Sums that keep their order.
LEMMA Fewer ==
  ASSUME NEW t \in Int, NEW u \in Int, NEW r \in Int, u <= t
  PROVE  u + r <= t + r
OBVIOUS

LEMMA Margin ==
  ASSUME NEW a \in Nat, NEW b \in Nat, NEW c \in Nat, NEW t \in Nat, NEW r \in Nat,
         NEW u \in Nat, NEW q \in Nat, a + t <= b + r + c, u + r <= t + q
  PROVE  a + u <= b + q + c
OBVIOUS

\* A step that admits and pays nothing keeps the books.
LEMMA BooksKept ==
  ASSUME SpendInv, SpendTyped', Attended', Affordable',
         UNCHANGED <<admitted, spent, callCount>>,
         tokens' + refills <= tokens + refills',
         \A c \in Callers :
           /\ caller'[c].calls = caller[c].calls
           /\ caller'[c].pc # "idle" => caller[c].pc # "idle"
  PROVE  SpendInv'
<1>1. Admissions'
  <2>1. Ran' = Ran
    BY ToolAssumption DEF Ran, ToolAssumption
  <2> SUFFICES ASSUME RateLimited
               PROVE  admitted' + tokens' <= Burst + refills' + Cardinality(Ran)
    BY <2>1 DEF Admissions
  <2>2. admitted + tokens <= Burst + refills + Cardinality(Ran)
    BY DEF SpendInv, Admissions
  <2>3. Burst \in Nat /\ Cardinality(Ran) \in Nat
    BY ToolAssumption, RanFinite DEF ToolAssumption
  <2>4. /\ tokens \in Nat /\ refills \in Nat /\ admitted \in Nat
        /\ tokens' \in Nat /\ refills' \in Nat /\ admitted' = admitted
    BY DEF SpendInv, SpendTyped
  <2> QED BY <2>2, <2>3, <2>4, Margin
<1>2. Billed'
  <2>1. ASSUME NEW calls, NEW bills, Books(calls, bills) PROVE Books(calls, bills)'
    BY <2>1 DEF Books
  <2> QED BY <2>1 DEF SpendInv, Billed
<1> QED BY <1>1, <1>2 DEF SpendInv

\* A step inside a flight that pays nothing.
LEMMA AdvanceSpend ==
  ASSUME TypeOK, SpendInv, NEW s \in Services, NEW f \in Files, NEW new,
         Advance(s, f, new), flight[s][f].stage # "idle",
         new.stage = "checked" => ~BudgetSpent(s),
         UNCHANGED <<callCount, tokens, refills, admitted, spent>>
  PROVE  SpendInv'
<1>1. /\ flight'[s][f] = new /\ UNCHANGED caller
      /\ \A t \in Services, g \in Files :
           ~(t = s /\ g = f) => flight'[t][g] = flight[t][g]
  BY AdvanceCells
<1>2. Attended'
  <2> SUFFICES ASSUME NEW t \in Services, NEW g \in Files, flight'[t][g].stage # "idle"
               PROVE  \E c \in Callers : /\ ServiceOf[c] = t /\ caller[c].pc = "waiting"
                                         /\ caller[c].at = {g}
    BY <1>1 DEF Attended
  <2>1. flight[t][g].stage # "idle"
    BY <1>1
  <2> QED BY <2>1 DEF SpendInv, Attended
<1>3. Affordable'
  <2> SUFFICES ASSUME NEW t \in Services, NEW g \in Files, flight'[t][g].stage = "checked"
               PROVE  ~BudgetSpent(t)
    BY DEF Affordable, BudgetSpent
  <2> QED BY <1>1 DEF SpendInv, Affordable
<1>4. SpendTyped' /\ tokens' + refills <= tokens + refills'
  BY DEF SpendInv, SpendTyped
<1> QED BY <1>1, <1>2, <1>3, <1>4, BooksKept

\* The end of a flight: nobody else is let go.
LEMMA FinishAttended ==
  ASSUME TypeOK, ToolInv, Attended, NEW s \in Services, NEW f \in Files, NEW outcome,
         Finish(s, f, outcome)
  PROVE  Attended'
<1> SUFFICES ASSUME NEW t \in Services, NEW g \in Files, flight'[t][g].stage # "idle"
             PROVE  \E c \in Callers : /\ ServiceOf[c] = t /\ caller'[c].pc = "waiting"
                                       /\ caller'[c].at = {g}
  BY DEF Attended
<1>1. ~(t = s /\ g = f) /\ flight[t][g].stage # "idle"
  BY FinishCells
<1>2. PICK c \in Callers :
        ServiceOf[c] = t /\ caller[c].pc = "waiting" /\ caller[c].at = {g}
  BY <1>1 DEF Attended
<1>3. caller'[c] = caller[c]
  BY <1>1, <1>2, FinishCells
<1> QED BY <1>2, <1>3

LEMMA FinishSpend ==
  ASSUME TypeOK, ToolInv, SpendInv, NEW s \in Services, NEW f \in Files, NEW outcome,
         Finish(s, f, outcome),
         UNCHANGED <<callCount, tokens, refills, admitted, spent>>
  PROVE  SpendInv'
<1>1. Attended'
  BY FinishAttended DEF SpendInv
<1>2. Affordable'
  <2> SUFFICES ASSUME NEW t \in Services, NEW g \in Files, flight'[t][g].stage = "checked"
               PROVE  ~BudgetSpent(t)
    BY DEF Affordable, BudgetSpent
  <2> QED BY FinishCells DEF SpendInv, Affordable
<1>3. SpendTyped' /\ tokens' + refills <= tokens + refills'
  BY DEF SpendInv, SpendTyped
<1> QED BY <1>1, <1>2, <1>3, FinishCells, BooksKept

\* A call the check has let through is made: a new bill of the call that waits.
LEMMA PaySpend ==
  ASSUME TypeOK, SpendInv, NEW s \in Services, NEW f \in Files,
         flight[s][f].stage = "checked", flight'[s][f].stage # "checked",
         \A t \in Services, g \in Files :
           ~(t = s /\ g = f) => flight'[t][g] = flight[t][g],
         Attended', callCount' = [callCount EXCEPT ![s] = @ + 1], spent' = spent + 1,
         UNCHANGED <<tokens, refills, admitted>>,
         \A c \in Callers :
           /\ caller'[c].calls = caller[c].calls
           /\ caller'[c].pc # "idle" => caller[c].pc # "idle"
  PROVE  SpendInv'
<1>1. SpendTyped' /\ callCount[s] \in Nat /\ callCount'[s] = callCount[s] + 1
  BY DEF SpendInv, SpendTyped, TypeOK
<1>2. \A t \in Services : t # s => callCount'[t] = callCount[t]
  BY DEF TypeOK
<1>3. Affordable'
  <2> SUFFICES ASSUME NEW t \in Services, NEW g \in Files, flight'[t][g].stage = "checked"
               PROVE  ~BudgetSpent(t)'
    BY DEF Affordable
  <2>1. ~(t = s /\ g = f) /\ flight[t][g].stage = "checked"
    OBVIOUS
  <2>2. t # s
    BY <2>1, OneFlight DEF SpendInv
  <2>3. ~BudgetSpent(t)
    BY <2>1 DEF SpendInv, Affordable
  <2> QED BY <1>2, <2>2, <2>3 DEF BudgetSpent
<1>4. Admissions'
  <2>1. Ran' = Ran
    BY ToolAssumption DEF Ran, ToolAssumption
  <2> QED BY <2>1 DEF SpendInv, Admissions
<1>5. ASSUME DailyBudget > 0, NEW calls, NEW bills, Books(calls, bills)
      PROVE  \E more : Books(calls, more)'
  <2>1. PICK c \in Callers : ServiceOf[c] = s /\ caller[c].pc = "waiting"
    BY DEF SpendInv, Attended
  <2>0. PICK bill : bill = <<<<c, caller[c].calls>>, callCount[s] + 1>>
    OBVIOUS
  <2>2. callCount[s] < DailyBudget /\ DailyBudget \in Nat
    BY <1>1, <1>5, ConstantsAssumption DEF SpendInv, Affordable, BudgetSpent, ConstantsAssumption
  <2>3. callCount[s] + 1 \in 1 .. DailyBudget
    BY <1>1, <2>2
  <2>4. <<c, caller[c].calls>> \in calls
    BY <1>5, <2>1 DEF Books
  <2>5. bill \notin bills
    BY <1>1, <1>5, <2>0, <2>1, <2>3 DEF Books
  <2>6. bills \cup {bill} \subseteq calls \X (1 .. DailyBudget)
    BY <1>5, <2>0, <2>3, <2>4 DEF Books
  <2>7. IsFiniteSet(bills)
    <3>1. IsFiniteSet(calls) /\ IsFiniteSet(1 .. DailyBudget)
      BY <1>5, <2>2, FS_Interval DEF Books
    <3>2. IsFiniteSet(calls \X (1 .. DailyBudget))
      BY <3>1, FS_Product
    <3> QED BY <1>5, <3>2, FS_Subset DEF Books
  <2>8. Cardinality(bills \cup {bill}) = spent + 1
    BY <1>5, <2>5, <2>7, FS_AddElement DEF Books
  <2>9. ASSUME NEW d \in Callers, caller'[d].pc # "idle",
               NEW k \in 1 .. DailyBudget,
               <<<<d, caller[d].calls>>, k>> \in bills \cup {bill}
        PROVE  k <= callCount'[ServiceOf[d]]
    <3>1. caller[d].pc # "idle"
      BY <2>9
    <3>2. CASE d = c
      <4>1. k <= callCount[s] \/ k = callCount[s] + 1
        BY <1>5, <2>0, <2>1, <2>9, <3>1, <3>2 DEF Books
      <4> QED BY <1>1, <2>1, <3>2, <4>1
    <3>3. CASE d # c
      <4>1. ServiceOf[d] # s /\ ServiceOf[d] \in Services
        BY <2>1, <3>3, OwnService, ConstantsAssumption DEF ConstantsAssumption
      <4>2. <<<<d, caller[d].calls>>, k>> \in bills
        BY <2>0, <2>9, <3>3
      <4> QED BY <1>2, <1>5, <3>1, <4>1, <4>2 DEF Books
    <3> QED BY <3>2, <3>3
  <2>10. Books(calls, bills \cup {bill})'
    <3>1. /\ calls \subseteq Callers \X Nat /\ IsFiniteSet(calls)
          /\ Cardinality(calls) = admitted'
          /\ \A d \in Callers, n \in Nat : <<d, n>> \in calls => n <= caller'[d].calls
      BY <1>5 DEF Books
    <3>2. \A d \in Callers : caller'[d].pc # "idle" => <<d, caller'[d].calls>> \in calls
      BY <1>5 DEF Books
    <3>3. Cardinality(bills \cup {bill}) = spent'
      BY <2>8
    <3>4. \A d \in Callers, k \in 1 .. DailyBudget :
            caller'[d].pc # "idle" /\ <<<<d, caller'[d].calls>>, k>> \in bills \cup {bill} =>
              k <= callCount'[ServiceOf[d]]
      BY <2>9
    <3> QED BY <2>6, <3>1, <3>2, <3>3, <3>4 DEF Books
  <2> QED BY <2>10
<1>6. Billed'
  BY <1>5 DEF SpendInv, Billed
<1> QED BY <1>1, <1>3, <1>4, <1>6 DEF SpendInv

LEMMA FlightSpend ==
  ASSUME TypeOK, ToolInv, SpendInv, NEW s \in Services, NEW f \in Files, FlightStep(s, f)
  PROVE  SpendInv'
<1>1. flight[s][f] \in Flight
  BY DEF TypeOK
<1>2. ASSUME \/ LoadCursor(s, f) \/ FindPRs(s, f) \/ FetchComments(s, f)
             \/ CheckBudget(s, f) \/ ExtractDone(s, f) \/ BumpGeneration(s, f)
             \/ SkipPR(s, f) \/ UpsertFact(s, f) \/ UpsertFails(s, f),
             UNCHANGED <<tokens, refills, admitted, spent>>
      PROVE  SpendInv'
  <2>1. PICK new : /\ Advance(s, f, new)
                   /\ new.stage = "checked" => ~BudgetSpent(s)
    <3>1. CASE LoadCursor(s, f)
      <4>1. PICK since : Advance(s, f, [flight[s][f] EXCEPT !.stage = "find",
                   !.seen = IF version[f] = "needs_remine" THEN {} ELSE since])
        BY <3>1 DEF LoadCursor
      <4> DEFINE new == [flight[s][f] EXCEPT !.stage = "find",
                   !.seen = IF version[f] = "needs_remine" THEN {} ELSE since]
      <4>2. new.stage = "find"
        BY <1>1 DEF Flight
      <4>3. Advance(s, f, new)
        BY <4>1
      <4> HIDE DEF new
      <4> QED BY <4>2, <4>3
    <3>2. CASE CheckBudget(s, f)
      BY <3>2 DEF CheckBudget
    <3>3. CASE UpsertFact(s, f)
      <4>1. PICK c, b : Advance(s, f, [flight[s][f] EXCEPT
                          !.facts = @ \ {<<c, b>>}, !.wrote = TRUE])
        BY <3>3 DEF UpsertFact
      <4> DEFINE new == [flight[s][f] EXCEPT !.facts = @ \ {<<c, b>>}, !.wrote = TRUE]
      <4>2. new.stage = "store"
        BY <1>1, <3>3 DEF UpsertFact, Flight
      <4>3. Advance(s, f, new)
        BY <4>1
      <4> HIDE DEF new
      <4> QED BY <4>2, <4>3
    <3>4. CASE UpsertFails(s, f)
      <4>1. PICK c, b : Advance(s, f, [flight[s][f] EXCEPT !.facts = @ \ {<<c, b>>}])
        BY <3>4 DEF UpsertFails
      <4> DEFINE new == [flight[s][f] EXCEPT !.facts = @ \ {<<c, b>>}]
      <4>2. new.stage = "store"
        BY <1>1, <3>4 DEF UpsertFails, Flight
      <4>3. Advance(s, f, new)
        BY <4>1
      <4> HIDE DEF new
      <4> QED BY <4>2, <4>3
    <3>5. CASE FindPRs(s, f)
      <4>1. PICK observed : Advance(s, f, [flight[s][f] EXCEPT
              !.seen = flight[s][f].seen \cup observed,
              !.prs = observed \ flight[s][f].seen,
              !.stage = IF observed \subseteq flight[s][f].seen THEN "store" ELSE "mine"])
        BY <3>5 DEF FindPRs
      <4> DEFINE new == [flight[s][f] EXCEPT
              !.seen = flight[s][f].seen \cup observed,
              !.prs = observed \ flight[s][f].seen,
              !.stage = IF observed \subseteq flight[s][f].seen THEN "store" ELSE "mine"]
      <4>2. new.stage # "checked"
        BY <1>1 DEF Flight
      <4>3. Advance(s, f, new)
        BY <4>1
      <4> HIDE DEF new
      <4> QED BY <4>2, <4>3
    <3>6. CASE FetchComments(s, f)
      <4>1. PICK p : Advance(s, f, [flight[s][f] EXCEPT
              !.prs = @ \ {p}, !.comments = CommentsOf[f][p]])
        BY <3>6 DEF FetchComments
      <4> DEFINE new == [flight[s][f] EXCEPT
              !.prs = @ \ {p}, !.comments = CommentsOf[f][p]]
      <4>2. new.stage = "mine"
        BY <1>1, <3>6 DEF FetchComments, Flight
      <4>3. Advance(s, f, new)
        BY <4>1
      <4> HIDE DEF new
      <4> QED BY <4>2, <4>3
    <3>7. CASE ExtractDone(s, f) \/ BumpGeneration(s, f)
      BY <1>1, <3>7 DEF ExtractDone, BumpGeneration, Flight, Stages
    <3>8. CASE SkipPR(s, f)
      BY <1>1, <3>8 DEF SkipPR, Flight, Stages
    <3> QED BY <1>2, <3>1, <3>2, <3>3, <3>4, <3>5, <3>6, <3>7, <3>8
  <2>2. flight[s][f].stage # "idle" /\ UNCHANGED callCount
    BY <1>2 DEF LoadCursor, FindPRs, FetchComments, CheckBudget, ExtractDone,
       BumpGeneration, SkipPR, UpsertFact, UpsertFails
  <2> QED BY <1>2, <2>1, <2>2, AdvanceSpend
<1>3. ASSUME \/ SaveCursor(s, f) \/ SaveFails(s, f) \/ SymbolFails(s, f)
             \/ FindFails(s, f) \/ Regress(s, f) \/ BudgetExceeded(s, f),
             UNCHANGED <<tokens, refills, admitted, spent>>
      PROVE  SpendInv'
  <2>1. PICK outcome : Finish(s, f, outcome) /\ UNCHANGED callCount
    BY <1>3 DEF SaveCursor, SaveFails, SymbolFails, FindFails, Abort, Regress,
       BudgetExceeded
  <2> QED BY <1>3, <2>1, FinishSpend
<1>4. ASSUME ClassifyComment(s, f), spent' = spent + 1,
             UNCHANGED <<tokens, refills, admitted>>
      PROVE  SpendInv'
  <2>1. PICK new : Advance(s, f, new) /\ new.stage = "mine"
    <3>1. PICK c :
            \/ \E b \in Bodies :
                 Advance(s, f, [flight[s][f] EXCEPT
                   !.stage = "mine", !.comments = @ \ {c}, !.facts = @ \cup {<<c, b>>}])
            \/ Advance(s, f, [flight[s][f] EXCEPT !.stage = "mine", !.comments = @ \ {c}])
      BY <1>4 DEF ClassifyComment
    <3>2. CASE Advance(s, f, [flight[s][f] EXCEPT !.stage = "mine", !.comments = @ \ {c}])
      <4> DEFINE new == [flight[s][f] EXCEPT !.stage = "mine", !.comments = @ \ {c}]
      <4>1. new.stage = "mine" /\ Advance(s, f, new)
        BY <1>1, <3>2 DEF Flight
      <4> HIDE DEF new
      <4> QED BY <4>1
    <3>3. ASSUME NEW b \in Bodies,
                 Advance(s, f, [flight[s][f] EXCEPT
                   !.stage = "mine", !.comments = @ \ {c}, !.facts = @ \cup {<<c, b>>}])
          PROVE  \E new : Advance(s, f, new) /\ new.stage = "mine"
      <4> DEFINE new == [flight[s][f] EXCEPT
                   !.stage = "mine", !.comments = @ \ {c}, !.facts = @ \cup {<<c, b>>}]
      <4>1. new.stage = "mine" /\ Advance(s, f, new)
        BY <1>1, <3>3 DEF Flight
      <4> HIDE DEF new
      <4> QED BY <4>1
    <3> QED BY <3>1, <3>2, <3>3
  <2>2. /\ flight'[s][f] = new /\ UNCHANGED caller
        /\ \A t \in Services, g \in Files :
             ~(t = s /\ g = f) => flight'[t][g] = flight[t][g]
    BY <2>1, AdvanceCells
  <2>3. /\ flight[s][f].stage = "checked"
        /\ callCount' = [callCount EXCEPT ![s] = @ + 1]
    BY <1>4 DEF ClassifyComment
  <2>4. Attended'
    <3> SUFFICES ASSUME NEW t \in Services, NEW g \in Files, flight'[t][g].stage # "idle"
                 PROVE  flight[t][g].stage # "idle"
      BY SMTT(30), <2>2 DEF SpendInv, Attended
    <3> QED BY <2>2, <2>3
  <2> QED BY <1>4, <2>1, <2>2, <2>3, <2>4, PaySpend
<1>5. ASSUME ClassifyFails(s, f), spent' = spent + 1,
             UNCHANGED <<tokens, refills, admitted>>
      PROVE  SpendInv'
  <2>1. /\ flight[s][f].stage = "checked" /\ Finish(s, f, "failed")
        /\ callCount' = [callCount EXCEPT ![s] = @ + 1]
    BY <1>5 DEF ClassifyFails
  <2>2. Attended'
    BY <2>1, FinishAttended DEF SpendInv
  <2>3. /\ flight'[s][f].stage # "checked"
        /\ \A t \in Services, g \in Files :
             ~(t = s /\ g = f) => flight'[t][g] = flight[t][g]
        /\ \A c \in Callers :
             /\ caller'[c].calls = caller[c].calls
             /\ caller'[c].pc # "idle" => caller[c].pc # "idle"
    BY <2>1, FinishCells
  <2> QED BY <1>5, <2>1, <2>2, <2>3, PaySpend
<1> QED BY <1>2, <1>3, <1>4, <1>5 DEF FlightStep, tool, Counts, Collect

\* A call or a batch begins: a new entry of the books, with no bill.
LEMMA BeginsSpend ==
  ASSUME TypeOK, SpendInv, NEW c \in Callers, Begins(c), tokens' \in 0 .. Burst,
         Admissions'
  PROVE  SpendInv'
<1>0. PICK n : n = caller[c].calls + 1
  OBVIOUS
<1>1. PICK paths : caller' = [caller EXCEPT ![c] =
                     [caller[c] EXCEPT !.pc = "mining", !.todo = paths, !.calls = @ + 1]]
  BY DEF Begins, Call
<1>2. /\ caller[c].pc = "idle" /\ caller[c] \in Caller /\ n \in Nat
      /\ admitted' = admitted + 1 /\ UNCHANGED <<refills, spent, flight>>
  <2>1. caller[c] \in Caller
    BY DEF TypeOK
  <2>2. caller[c].calls \in Nat
    BY <2>1, ConstantsAssumption DEF Caller, ConstantsAssumption
  <2>3. caller[c].pc = "idle" /\ UNCHANGED flight
    BY DEF Begins, Call
  <2>4. admitted' = admitted + 1 /\ UNCHANGED <<refills, spent>>
    BY DEF Begins
  <2>5. n \in Nat
    BY <1>0, <2>2
  <2> QED BY <2>1, <2>3, <2>4, <2>5
<1>3. /\ caller'[c].pc = "mining" /\ caller'[c].calls = n
      /\ \A d \in Callers \ {c} : caller'[d] = caller[d]
  BY <1>0, <1>1, <1>2 DEF TypeOK, Caller
<1>4. ServiceOf[c] \in Services /\ callCount' = [callCount EXCEPT ![ServiceOf[c]] = 0]
  BY ConstantsAssumption, ToolAssumption DEF ConstantsAssumption, ToolAssumption, Begins, Call
<1>5. /\ callCount'[ServiceOf[c]] = 0
      /\ \A t \in Services : t # ServiceOf[c] => callCount'[t] = callCount[t]
  BY <1>4 DEF TypeOK
<1>6. SpendTyped'
  BY <1>2 DEF SpendInv, SpendTyped
<1>7. Attended'
  <2> SUFFICES ASSUME NEW t \in Services, NEW g \in Files, flight'[t][g].stage # "idle"
               PROVE  \E d \in Callers : /\ ServiceOf[d] = t /\ caller'[d].pc = "waiting"
                                         /\ caller'[d].at = {g}
    BY DEF Attended
  <2>1. PICK d \in Callers :
          ServiceOf[d] = t /\ caller[d].pc = "waiting" /\ caller[d].at = {g}
    BY <1>2 DEF SpendInv, Attended
  <2>2. d # c
    BY <1>2, <2>1
  <2> QED BY <1>3, <2>1, <2>2
<1>8. Affordable'
  <2> SUFFICES ASSUME NEW t \in Services, NEW g \in Files, flight'[t][g].stage = "checked"
               PROVE  ~BudgetSpent(t)'
    BY DEF Affordable
  <2>1. ~BudgetSpent(t)
    BY <1>2 DEF SpendInv, Affordable
  <2>2. CASE t = ServiceOf[c]
    BY <1>5, <2>2, ConstantsAssumption DEF BudgetSpent, ConstantsAssumption
  <2>3. CASE t # ServiceOf[c]
    BY <1>5, <2>1, <2>3 DEF BudgetSpent
  <2> QED BY <2>2, <2>3
<1>9. ASSUME DailyBudget > 0, NEW calls, NEW bills, Books(calls, bills)
      PROVE  Books(calls \cup {<<c, n>>}, bills)'
  <2>1. <<c, n>> \notin calls
    BY <1>0, <1>2, <1>9, ConstantsAssumption DEF Books, Caller, ConstantsAssumption
  <2>2. /\ IsFiniteSet(calls \cup {<<c, n>>})
        /\ Cardinality(calls \cup {<<c, n>>}) = admitted'
    BY <1>2, <1>9, <2>1, FS_AddElement DEF Books
  <2>3. /\ calls \cup {<<c, n>>} \subseteq Callers \X Nat
        /\ bills \subseteq (calls \cup {<<c, n>>}) \X (1 .. DailyBudget)
        /\ Cardinality(bills) = spent'
    BY <1>2, <1>9 DEF Books
  <2>4. ASSUME NEW d \in Callers, NEW m \in Nat, <<d, m>> \in calls \cup {<<c, n>>}
        PROVE  m <= caller'[d].calls
    <3>1. CASE d = c
      <4>1. m <= caller[c].calls \/ m = n
        BY <1>9, <2>4, <3>1 DEF Books
      <4> QED BY <1>0, <1>2, <1>3, <3>1, <4>1, ConstantsAssumption DEF Caller, ConstantsAssumption
    <3>2. CASE d # c
      BY <1>3, <1>9, <2>4, <3>2 DEF Books
    <3> QED BY <3>1, <3>2
  <2>5. ASSUME NEW d \in Callers, caller'[d].pc # "idle"
        PROVE  /\ <<d, caller'[d].calls>> \in calls \cup {<<c, n>>}
               /\ \A k \in 1 .. DailyBudget :
                    <<<<d, caller'[d].calls>>, k>> \in bills =>
                      k <= callCount'[ServiceOf[d]]
    <3>1. CASE d = c
      <4>1. \A k : <<<<c, n>>, k>> \notin bills
        BY <1>9, <2>1 DEF Books
      <4> QED BY <1>3, <3>1, <4>1
    <3>2. CASE d # c
      <4>1. /\ ServiceOf[d] \in Services /\ ServiceOf[d] # ServiceOf[c]
            /\ caller'[d] = caller[d]
        BY <1>3, <3>2, OwnService, ConstantsAssumption DEF ConstantsAssumption
      <4> QED BY <1>5, <1>9, <2>5, <4>1 DEF Books
    <3> QED BY <3>1, <3>2
  <2> QED BY <2>2, <2>3, <2>4, <2>5 DEF Books
<1>10. Billed'
  BY <1>9 DEF SpendInv, Billed
<1> QED BY <1>6, <1>7, <1>8, <1>10 DEF SpendInv

LEMMA AdmitSpend ==
  ASSUME TypeOK, SpendInv, NEW c \in Callers, Admit(c) \/ Batch(c)
  PROVE  SpendInv'
<1>1. /\ Begins(c) /\ admitted' = admitted + 1 /\ UNCHANGED refills
      /\ caller[c] \in Caller /\ Burst \in Nat
  BY ToolAssumption DEF Admit, Batch, Begins, TypeOK, ToolAssumption
<1>2. PICK paths : caller' = [caller EXCEPT ![c] =
                     [caller[c] EXCEPT !.pc = "mining", !.todo = paths, !.calls = @ + 1]]
  BY <1>1 DEF Begins, Call
<1>3. /\ caller'[c].calls = caller[c].calls + 1
      /\ \A d \in Callers \ {c} : caller'[d] = caller[d]
  BY <1>1, <1>2 DEF TypeOK, Caller
<1>4. CASE Admit(c)
  <2>1. Ran' = Ran
    BY <1>3, <1>4, ToolAssumption DEF Admit, Ran, ToolAssumption
  <2>2. /\ tokens' \in 0 .. Burst
        /\ RateLimited => tokens' = tokens - 1
    BY <1>1, <1>4 DEF Admit, Allowed, SpendInv, SpendTyped
  <2>3. Admissions'
    BY <1>1, <2>1, <2>2, RanFinite DEF Admissions, SpendInv, SpendTyped
  <2> QED BY <1>1, <2>2, <2>3, BeginsSpend
<1>5. CASE Batch(c)
  <2>1. c \in Batches /\ caller[c].calls = 0 /\ UNCHANGED tokens
    BY <1>5 DEF Batch
  <2>2. Ran' = Ran \cup {c} /\ c \notin Ran
    BY <1>3, <2>1, ToolAssumption DEF Ran, ToolAssumption
  <2>3. Cardinality(Ran') = Cardinality(Ran) + 1
    BY <2>2, RanFinite, FS_AddElement
  <2>4. Admissions'
    BY <1>1, <2>1, <2>3, RanFinite DEF Admissions, SpendInv, SpendTyped
  <2> QED BY <1>1, <2>1, <2>4, BeginsSpend DEF SpendInv, SpendTyped
<1> QED BY <1>4, <1>5

LEMMA ToolStepSpend ==
  ASSUME TypeOK, ToolInv, SpendInv, NEW c \in Callers, ToolStep(c)
  PROVE  SpendInv'
<1>1. caller[c] \in Caller /\ Burst \in Nat
  BY ToolAssumption DEF TypeOK, ToolAssumption
<1>2. ASSUME Deny(c) \/ Reject(c) PROVE SpendInv'
  <2>1. UNCHANGED <<vars, refills, admitted, spent>>
    BY <1>2 DEF Deny, Reject
  <2>2. tokens' \in 0 .. Burst /\ tokens' <= tokens
    BY <1>1, <1>2 DEF Deny, Reject, Allowed, SpendInv, SpendTyped
  <2>3. SpendTyped' /\ Attended' /\ Affordable'
    BY <2>1, <2>2 DEF SpendInv, SpendTyped, Attended, Affordable, BudgetSpent, vars
  <2>4. tokens' + refills <= tokens + refills'
    <3>1. tokens \in Int /\ tokens' \in Int /\ refills \in Int
      BY <1>1, <2>2 DEF SpendInv, SpendTyped
    <3>2. refills' = refills
      BY <2>1
    <3>3. tokens' <= tokens
      BY <2>2
    <3>4. tokens' + refills <= tokens + refills
      BY <3>1, <3>3, Fewer
    <3> QED BY <3>2, <3>4
  <2> QED BY <2>1, <2>3, <2>4, BooksKept DEF vars
<1>3. ASSUME NEW f \in Files, Enter(c, f), UNCHANGED tool PROVE SpendInv'
  <2> DEFINE s == ServiceOf[c]
  <2>1. s \in Services
    BY ConstantsAssumption DEF ConstantsAssumption
  <2>2. /\ caller' = [caller EXCEPT ![c] = [caller[c] EXCEPT !.pc = "waiting", !.at = {f}]]
        /\ caller[c].pc = "mining" /\ UNCHANGED callCount
        /\ flight' = IF flight[s][f].stage = "idle"
                     THEN [flight EXCEPT ![s][f] = [Idle EXCEPT !.stage = "load"]]
                     ELSE flight
    BY <1>3 DEF Enter
  <2>3. /\ caller'[c].pc = "waiting" /\ caller'[c].at = {f}
        /\ caller'[c].calls = caller[c].calls
        /\ \A d \in Callers \ {c} : caller'[d] = caller[d]
    BY <1>1, <2>2 DEF TypeOK, Caller
  <2>4. /\ \A t \in Services, g \in Files :
             ~(t = s /\ g = f) => flight'[t][g] = flight[t][g]
        /\ flight'[s][f].stage = "checked" => flight[s][f].stage = "checked"
    <3>1. CASE flight[s][f].stage = "idle"
      <4>1. flight' = [flight EXCEPT ![s][f] = [Idle EXCEPT !.stage = "load"]]
        BY <2>2, <3>1
      <4>2. [Idle EXCEPT !.stage = "load"].stage = "load"
        BY DEF Idle
      <4> QED BY <2>1, <4>1, <4>2 DEF TypeOK
    <3>2. CASE flight[s][f].stage # "idle"
      BY <2>2, <3>2
    <3> QED BY <3>1, <3>2
  <2> HIDE DEF s
  <2>5. Attended'
    <3> SUFFICES ASSUME NEW t \in Services, NEW g \in Files, flight'[t][g].stage # "idle"
                 PROVE  \E d \in Callers : /\ ServiceOf[d] = t /\ caller'[d].pc = "waiting"
                                           /\ caller'[d].at = {g}
      BY DEF Attended
    <3>1. CASE t = s /\ g = f
      BY <2>3, <3>1 DEF s
    <3>2. CASE ~(t = s /\ g = f)
      <4>1. PICK d \in Callers :
              ServiceOf[d] = t /\ caller[d].pc = "waiting" /\ caller[d].at = {g}
        BY <2>4, <3>2 DEF SpendInv, Attended
      <4>2. d # c
        BY <2>2, <4>1
      <4> QED BY <2>3, <4>1, <4>2
    <3> QED BY <3>1, <3>2
  <2>6. Affordable'
    <3> SUFFICES ASSUME NEW t \in Services, NEW g \in Files, flight'[t][g].stage = "checked"
                 PROVE  ~BudgetSpent(t)
      BY <2>2 DEF Affordable, BudgetSpent
    <3>1. flight[t][g].stage = "checked"
      BY <2>4
    <3> QED BY <3>1 DEF SpendInv, Affordable
  <2>7. UNCHANGED <<tokens, refills, admitted, spent>>
    BY <1>3 DEF tool
  <2>8. SpendTyped' /\ tokens' + refills <= tokens + refills'
    BY <2>7 DEF SpendInv, SpendTyped
  <2>9. \A d \in Callers :
          /\ caller'[d].calls = caller[d].calls
          /\ caller'[d].pc # "idle" => caller[d].pc # "idle"
    BY <2>2, <2>3
  <2> QED BY <2>2, <2>5, <2>6, <2>7, <2>8, <2>9, BooksKept
<1>4. ASSUME GiveUp(c) \/ Return(c), UNCHANGED <<tokens, refills, admitted, spent>>
      PROVE  SpendInv'
  <2>1. caller[c].pc = "mining" /\ UNCHANGED <<flight, callCount>>
    BY <1>4 DEF GiveUp, Return
  <2>2. /\ caller'[c].calls = caller[c].calls
        /\ \A d \in Callers \ {c} : caller'[d] = caller[d]
    <3>1. CASE GiveUp(c)
      BY <1>1, <3>1 DEF GiveUp, TypeOK, Caller
    <3>2. CASE Return(c)
      BY <1>1, <3>2 DEF Return, TypeOK, Caller
    <3> QED BY <1>4, <3>1, <3>2
  <2>3. Attended'
    <3> SUFFICES ASSUME NEW t \in Services, NEW g \in Files, flight[t][g].stage # "idle"
                 PROVE  \E d \in Callers : /\ ServiceOf[d] = t /\ caller'[d].pc = "waiting"
                                           /\ caller'[d].at = {g}
      BY <2>1 DEF Attended
    <3>1. PICK d \in Callers :
            ServiceOf[d] = t /\ caller[d].pc = "waiting" /\ caller[d].at = {g}
      BY DEF SpendInv, Attended
    <3>2. d # c
      BY <2>1, <3>1
    <3> QED BY <2>2, <3>1, <3>2
  <2>4. SpendTyped' /\ Affordable' /\ tokens' + refills <= tokens + refills'
    BY <1>4, <2>1 DEF SpendInv, SpendTyped, Affordable, BudgetSpent
  <2>5. \A d \in Callers :
          /\ caller'[d].calls = caller[d].calls
          /\ caller'[d].pc # "idle" => caller[d].pc # "idle"
    BY <2>1, <2>2
  <2> QED BY <1>4, <2>1, <2>3, <2>4, <2>5, BooksKept
<1> QED BY <1>2, <1>3, <1>4, AdmitSpend DEF ToolStep

LEMMA OutageSpend ==
  ASSUME TypeOK, SpendInv, Refill \/ Outage \/ UNCHANGED toolVars
  PROVE  SpendInv'
<1>1. Burst \in Nat
  BY ToolAssumption DEF ToolAssumption
<1>2. CASE UNCHANGED toolVars \/ (ForceRemine /\ UNCHANGED tool)
  <2>1. UNCHANGED <<flight, caller, callCount, tokens, refills, admitted, spent>>
    BY <1>2 DEF ForceRemine, toolVars, vars, tool
  <2>2. SpendTyped' /\ Attended' /\ Affordable'
    BY <2>1 DEF SpendInv, SpendTyped, Attended, Affordable, BudgetSpent
  <2>3. tokens' + refills <= tokens + refills'
    BY <2>1 DEF SpendInv, SpendTyped
  <2> QED BY <2>1, <2>2, <2>3, BooksKept
<1>3. CASE Refill
  <2>1. /\ UNCHANGED <<flight, caller, callCount, admitted, spent>>
        /\ tokens < Burst /\ tokens' = tokens + 1 /\ refills' = refills + 1
    BY <1>3 DEF Refill, vars
  <2>2. SpendTyped' /\ Attended' /\ Affordable' /\ tokens' + refills <= tokens + refills'
    BY <1>1, <2>1 DEF SpendInv, SpendTyped, Attended, Affordable, BudgetSpent
  <2> QED BY <2>1, <2>2, BooksKept
<1>4. CASE Crash /\ ~(ForceRemine /\ UNCHANGED tool) /\ Outage
  <2>1. /\ flight' = [s \in Services |-> [f \in Files |-> Idle]]
        /\ caller' = [c \in Callers |-> [AtRest EXCEPT !.calls = caller[c].calls]]
        /\ callCount' = [s \in Services |-> 0]
        /\ tokens' = Burst /\ refills' = refills + Burst - tokens
        /\ UNCHANGED <<admitted, spent>>
    BY <1>4 DEF Outage, Crash
  <2>2. \A c \in Callers : caller'[c].pc = "idle" /\ caller'[c].calls = caller[c].calls
    BY <2>1 DEF AtRest
  <2>3. SpendTyped'
    BY <1>1, <2>1 DEF SpendInv, SpendTyped
  <2>4. Attended' /\ Affordable'
    BY <2>1 DEF Attended, Affordable, Idle
  <2>5. Admissions'
    <3>1. Ran' = Ran
      BY <2>2, ToolAssumption DEF Ran, ToolAssumption
    <3> QED BY <1>1, <2>1, <3>1, RanFinite DEF Admissions, SpendInv, SpendTyped
  <2>6. Billed'
    <3>1. ASSUME NEW calls, NEW bills, Books(calls, bills) PROVE Books(calls, bills)'
      BY <2>1, <2>2, <3>1 DEF Books
    <3> QED BY <3>1 DEF SpendInv, Billed
  <2> QED BY <2>3, <2>4, <2>5, <2>6 DEF SpendInv
<1> QED BY <1>2, <1>3, <1>4 DEF Outage

LEMMA SpendInit == ToolInit => SpendInv
<1> SUFFICES ASSUME ToolInit PROVE SpendInv
  OBVIOUS
<1>1. /\ \A c \in Callers : caller[c].pc = "idle" /\ caller[c].calls = 0
      /\ \A s \in Services, f \in Files : flight[s][f].stage = "idle"
      /\ tokens = Burst /\ refills = 0 /\ admitted = 0 /\ spent = 0
      /\ Burst \in Nat
  BY ToolAssumption DEF ToolInit, Init, AtRest, Idle, ToolAssumption
<1>2. SpendTyped /\ Attended /\ Affordable
  BY <1>1 DEF SpendTyped, Attended, Affordable
<1>3. Admissions
  BY <1>1, RanFinite DEF Admissions
<1>4. Books({}, {})
  BY <1>1, FS_EmptySet DEF Books
<1> QED BY <1>2, <1>3, <1>4 DEF SpendInv, Billed

\* The LLM calls made are at most the calls admitted times the budget, and the
\* calls admitted at most the tokens, the refills and the batches.
LEMMA BooksBound == SpendInv => SpendBounded
<1> SUFFICES ASSUME SpendInv, DailyBudget > 0
             PROVE  /\ spent <= admitted * DailyBudget
                    /\ RateLimited => admitted <= Burst + refills + Cardinality(Batches)
  BY DEF SpendBounded
<1>1. DailyBudget \in Nat /\ Burst \in Nat
  BY ConstantsAssumption, ToolAssumption DEF ConstantsAssumption, ToolAssumption
<1>2. spent <= admitted * DailyBudget
  <2>1. PICK calls, bills : Books(calls, bills)
    BY DEF SpendInv, Billed
  <2>2. IsFiniteSet(1 .. DailyBudget) /\ Cardinality(1 .. DailyBudget) = DailyBudget
    BY <1>1, FS_Interval
  <2>3. IsFiniteSet(calls) /\ Cardinality(calls) = admitted
    BY <2>1 DEF Books
  <2>4. /\ IsFiniteSet(calls \X (1 .. DailyBudget))
        /\ Cardinality(calls \X (1 .. DailyBudget)) = admitted * DailyBudget
    BY <2>2, <2>3, FS_Product
  <2>5. Cardinality(bills) <= Cardinality(calls \X (1 .. DailyBudget))
    BY <2>1, <2>4, FS_Subset DEF Books
  <2> QED BY <2>1, <2>4, <2>5 DEF Books
<1>3. RateLimited => admitted <= Burst + refills + Cardinality(Batches)
  <2>1. Cardinality(Ran) <= Cardinality(Batches) /\ Cardinality(Batches) \in Nat
    <3>1. Ran \subseteq Batches
      BY DEF Ran
    <3> QED BY <3>1, ToolAssumption, FS_Subset, FS_CardinalityType DEF ToolAssumption
  <2> QED BY <1>1, <2>1, RanFinite DEF SpendInv, SpendTyped, Admissions
<1> QED BY <1>2, <1>3

\* The only bound there is on what agents spend: a denied or rejected call
\* spends nothing and an admitted one the budget of its own service at most, so
\* with a limiter LLM calls are bounded by the session's tokens, refills and
\* restarts included, and the batches, times the budget, whatever fails or is
\* mined again (tribal_mine.go:436-458, mcp_mining_factory.go:118-127).
THEOREM SpendHolds == ToolSpec => []SpendBounded
<1>1. TypeOK /\ ToolInv /\ SpendInv /\ [ToolNext]_toolVars => SpendInv'
  BY ToolStepSpend, FlightSpend, OutageSpend DEF ToolNext
<1> QED BY <1>1, SpendInit, BooksBound, ToolInvariant, PTL DEF ToolSpec
=============================================================================
