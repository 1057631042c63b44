CONSTANTS
  d1 = d1  d2 = d2  r1 = r1  r2 = r2  m1 = m1  m2 = m2
  Dishes = {d1, d2}
  Restaurants = {r1, r2}
  Workers = {w1, w2}
  Mentions = {m1, m2}
  Said <- TwoPlaces
  NoRow = NoRow
  MIN_MENTIONS = 1
  PRIOR_MIN = 2
  SNAPSHOT_DELTA = 1
  SIGNATURE_MIN = 1
  MaxChanges = 1
  MaxFaults = 1
SPECIFICATION FairSpec
INVARIANT TypeOK
 
PROPERTY ScoresConverge
PROPERTY SummariesConverge
CHECK_DEADLOCK FALSE
