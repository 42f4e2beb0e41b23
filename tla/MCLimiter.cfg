SPECIFICATION LimiterSpec
CONSTANTS
  Keys = {k1, k2, k3, k4, k5}
  Callers = {c1, c2}
  MaxKeys = 2
  Burst = 1
  MaxLimiters = 6
  MaxTicks = 1
SYMMETRY Symmetry
INVARIANTS OneBucketPerKey NoFreshBurst
PROPERTY IsExactLRU
