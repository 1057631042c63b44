\* Two cities, two workers: runs that overlap, deadlock, fail, die or are rolled back.
CONSTANTS
  Cities = {c1, c2}
  Workers = {w1, w2}
  Kinds = {"fetch"}
  INTERVAL = 2
  DAY = 4
  OVERLAP = 1
  TIME_LIMIT = 1
  PRUNE_AFTER = 5
  MAX_RETRIES = 0
  QuotaCuts = FALSE
  MaxTime = 3
  MaxFaults = 1
  MaxRedrives = 0
SPECIFICATION Spec
SYMMETRY Permuted
INVARIANT TypeOK
INVARIANT CursorCovers
INVARIANT AskedAlone
 
\* The clock is bounded: the beat stops.
CHECK_DEADLOCK FALSE
