---------------------------- MODULE MCMiningTool -----------------------------
(* An instance of MiningTool for TLC: a tool call and a batch, two files. *)
EXTENDS MiningTool, TLC

CONSTANTS f1, f2, k1, k2, s1, s2, c1, c2, c3

\* A comment in the first of two PRs of each file.
MCCommentsOf ==
  [f \in {f1, f2} |-> IF f = f1 THEN (1 :> {c1} @@ 2 :> {})
                                ELSE (1 :> {c2} @@ 2 :> {})]
MCPRs == {1, 2}
OwnServices == [c \in Callers |-> IF c = k1 THEN s1 ELSE s2]
MCSurface == [f \in Files |-> IF f = f1 THEN 6 ELSE 3]

MostFaults ==
  {"regress", "fetch", "llm", "upsert", "write", "cancel", "crash",
   "remine", "symbol", "find"}
=============================================================================
