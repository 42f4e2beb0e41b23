---------------------------- MODULE MCEnrichment ----------------------------
(* An instance of Enrichment: two repositories with one file each, of which *)
(* the first has two symbols.                                               *)
EXTENDS Enrichment, TLC

McRepoOf   == [f \in Files |-> f]
McFileOf   == 1 :> "a" @@ 2 :> "a" @@ 3 :> "b"
McFanin    == "a" :> 1 @@ "b" :> 0
McMaxEdits == "a" :> 2 @@ "b" :> 1
=============================================================================
