--------------------------- MODULE MCKeyedLimiter ---------------------------
(***************************************************************************)
(* Instances of KeyedLimiter for TLC.                                      *)
(***************************************************************************)
EXTENDS KeyedLimiter, TLC

\* Keys and callers are interchangeable.
Symmetry == Permutations(Keys) \cup Permutations(Callers)
=============================================================================
