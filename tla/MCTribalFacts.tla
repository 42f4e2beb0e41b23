--------------------------- MODULE MCTribalFacts ----------------------------
\* Instances of TribalFacts: a symbol and the file it is in, and three wordings
\* of which two say the same.
EXTENDS TribalFacts, TLC

CONSTANTS t1, t2, t3, sym, file, sha1, sha2, line, ann, bob

\* Two rules of one CODEOWNERS file name the owners of the same pattern.  Owners are
\* mentions: of such a body nothing is left to tell it from another one.
MCRules == {[pattern |-> file, owners |-> o, at |-> line] : o \in {ann, bob}}
MCCluster == t1 :> t1 @@ t2 :> t1 @@ t3 :> t3 @@ ann :> line @@ bob :> line
MCLog == <<[sha |-> sha2, msg |-> t3, type |-> "chore", long |-> TRUE],
           [sha |-> sha1, msg |-> t1, type |-> "fix", long |-> TRUE]>>
MCBlame == <<[sha |-> sha1, author |-> ann, at |-> 1],
             [sha |-> sha2, author |-> ann, at |-> 2]>>
MCMarkers == {[line |-> line, text |-> t3]}
Symmetry == Permutations(Procs) \cup Permutations(Refs)
MCInside == sym :> {file} @@ file :> {}
=============================================================================
