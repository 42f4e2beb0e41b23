----------------------------- MODULE MCServing ------------------------------
\* Instances of Serving: a repository with a clone and one that is indexed remotely.
EXTENDS Serving, TLC

CONSTANTS local, remote, main

MCCommits == local :> 3 @@ remote :> 2
Symmetry == Permutations(Calls) \cup Permutations(Builds)
=============================================================================
