--------------------------- MODULE RecencyBuckets ---------------------------
(***************************************************************************)
(* What the keyed limiter promises: one list of token buckets, most        *)
(* recently used first, that forgets a key only when Capacity other keys   *)
(* were used since.  A key that was forgotten has a full bucket.           *)
(***************************************************************************)
EXTENDS Naturals, SequencesExt

CONSTANTS Keys, Callers, Burst, Capacity, NoKey

VARIABLES
  order,   \* keys that have a bucket, most recently used first
  bucket,  \* tokens left to each key
  asks     \* the key a caller is asking for

vars == <<order, bucket, asks>>

Init ==
  /\ order = <<>>
  /\ bucket = [k \in Keys |-> Burst]
  /\ asks = [c \in Callers |-> NoKey]

\* c asks for k: k comes first, and the last key is forgotten for one that has
\* no bucket when Capacity keys have one.
Use(c, k) ==
  /\ asks[c] = NoKey
  /\ asks' = [asks EXCEPT ![c] = k]
  /\ \/ \E i \in 1 .. Len(order) :
          /\ order[i] = k
          /\ order' = <<k>> \o RemoveAt(order, i)
          /\ UNCHANGED bucket
     \/ /\ \A i \in 1 .. Len(order) : order[i] # k
        /\ IF Len(order) < Capacity
           THEN order' = <<k>> \o order /\ UNCHANGED bucket
           ELSE /\ order' = <<k>> \o Front(order)
                /\ bucket' = [bucket EXCEPT ![Last(order)] = Burst]

\* c is answered: it takes a token, or the bucket it asked is left alone
\* because it is empty or was forgotten since.
Answer(c) ==
  LET k == asks[c]
  IN /\ k # NoKey
     /\ asks' = [asks EXCEPT ![c] = NoKey]
     /\ \/ bucket[k] > 0 /\ bucket' = [bucket EXCEPT ![k] = @ - 1]
        \/ UNCHANGED bucket
     /\ UNCHANGED order

Refill ==
  /\ bucket' = [k \in Keys |-> IF bucket[k] < Burst THEN bucket[k] + 1 ELSE Burst]
  /\ UNCHANGED <<order, asks>>

Next ==
  \/ Refill
  \/ \E c \in Callers : Answer(c) \/ \E k \in Keys : Use(c, k)

Spec == Init /\ [][Next]_vars
=============================================================================
