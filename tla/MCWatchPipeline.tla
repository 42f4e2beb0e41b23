--------------------------- MODULE MCWatchPipeline ---------------------------
(* Instances of WatchPipeline for TLC. *)
EXTENDS WatchPipeline, TLC

CONSTANTS f1, f2, A, B, C

Linear == [c \in 1 .. 3 |-> 1 .. c]

\* f1 changes twice and is deleted before f2 appears; no content comes back.
Forward ==
  1 :> (f1 :> A @@ f2 :> Absent) @@
  2 :> (f1 :> B @@ f2 :> A) @@
  3 :> (f1 :> Absent @@ f2 :> B)

\* Commits 2 and 3 are siblings: moving between them rewrites history.
Forked == [c \in 1 .. 3 |-> {1, c}]
Rewritten ==
  1 :> (f1 :> A @@ f2 :> Absent) @@
  2 :> (f1 :> B @@ f2 :> A) @@
  3 :> (f1 :> C @@ f2 :> Absent)

\* A clone that is restarted twice at most, and a remote source whose history
\* is rewritten.
Clone  == [tree |-> Forward, ancestors |-> Linear, local |-> TRUE,
           faults |-> {"file", "tombstone", "lookup", "tx", "save", "load",
                      "crash"}]
Remote == [tree |-> Rewritten, ancestors |-> Forked, local |-> FALSE,
           faults |-> {"force", "prune", "file", "tombstone", "lookup", "tx",
                       "save", "load", "crash"}]
Watched   == {Clone, Remote}
Undisturbed == {[Clone EXCEPT !.faults = {}]}

NoImports == [f \in Files |-> {}]
Importer  == [f \in Files |-> IF f = f2 THEN {f1} ELSE {}]
=============================================================================
