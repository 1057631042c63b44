\* One city, two workers, both kinds, duplicate ticks, a short quota, pruning, an admin retry;
\* no fault, and every task ends within a tick.
CONSTANTS
  Cities = {c1}
  Workers = {w1, w2}
  Kinds = {"fetch", "comments"}
  INTERVAL = 2
  DAY = 2
  OVERLAP = 1
  TIME_LIMIT = 0
  PRUNE_AFTER = 2
  MAX_RETRIES = 0
  QuotaCuts = TRUE
  MaxTime = 4
  MaxFaults = 0
  MaxRedrives = 1
SPECIFICATION Spec
SYMMETRY Permuted
INVARIANT FetchedOnce
INVARIANT OneKeyPerInterval
\* The clock is bounded: the beat stops.
CHECK_DEADLOCK FALSE
