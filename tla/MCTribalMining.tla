--------------------------- MODULE MCTribalMining ---------------------------
(* An instance of TribalMining for TLC. *)
EXTENDS TribalMining, TLC

CONSTANTS f1, f2, k1, k2, s1, s2, c1, c2, c3, c4

\* Two files, each with a comment in each of its two PRs.
MCCommentsOf ==
  [f \in {f1, f2} |-> IF f = f1 THEN (1 :> {c1} @@ 2 :> {c2})
                                ELSE (1 :> {c4} @@ 2 :> {c3})]

MCPRs == {1, 2}

OneService == [c \in Callers |-> s1]
EarlyFaults == {"symbol", "find", "throttle"}

\* The disjuncts of Next that EarlyFaults enable: a flight may fail before it
\* spends anything, and a caller may be denied.
EarlyNext ==
  \/ \E c \in Callers : CallerStep(c)
  \/ \E s \in Services, f \in Files :
       Progress(s, f) \/ SymbolFails(s, f) \/ FindFails(s, f)

EarlySpec == Init /\ [][EarlyNext]_vars /\ Fairness
=============================================================================
