---------------------------- MODULE MiningLedger ----------------------------
(***************************************************************************)
(* What the tribal mining service promises about the claims database,      *)
(* seen from outside: facts and corroboration only accumulate, a comment   *)
(* adds to a fact at most once, and a cursor is only ever set to PRs whose *)
(* comments are accounted for, or wiped.                                   *)
(***************************************************************************)
EXTENDS Naturals

CONSTANTS Files, PRs, Comments, Bodies

VARIABLES
  cursor,        \* PRs a later run will skip
  accounted,     \* PRs whose every comment met a fate
  evidence,      \* comments behind the fact of a cluster
  corroboration  \* number of times a fact was confirmed

vars == <<cursor, accounted, evidence, corroboration>>

Init ==
  /\ cursor = [f \in Files |-> {}]
  /\ accounted \in [Files -> SUBSET PRs]
  /\ evidence = [f \in Files |-> [b \in Bodies |-> {}]]
  /\ corroboration = [f \in Files |-> [b \in Bodies |-> 0]]

\* More PRs are accounted for, and at most one comment confirms one fact.
Record ==
  /\ accounted' \in [Files -> SUBSET PRs]
  /\ \A f \in Files : accounted[f] \subseteq accounted'[f]
  /\ \/ UNCHANGED <<evidence, corroboration>>
     \/ \E f \in Files, b \in Bodies, c \in Comments :
          /\ c \notin evidence[f][b]
          /\ evidence' = [evidence EXCEPT ![f][b] = @ \cup {c}]
          /\ corroboration' = [corroboration EXCEPT ![f][b] = @ + 1]
  /\ UNCHANGED cursor

\* A run over f ends: the next one may skip PRs that are accounted for.
Skip(f) ==
  /\ \E S \in SUBSET accounted[f] : cursor' = [cursor EXCEPT ![f] = S]
  /\ UNCHANGED <<accounted, evidence, corroboration>>

\* Some files are to be mined from scratch.
Forget ==
  /\ \E F \in SUBSET Files :
       cursor' = [f \in Files |-> IF f \in F THEN {} ELSE cursor[f]]
  /\ UNCHANGED <<accounted, evidence, corroboration>>

Next == Record \/ Forget \/ \E f \in Files : Skip(f)

Spec == Init /\ [][Next]_vars
=============================================================================
