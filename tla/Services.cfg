SPECIFICATION Spec
CHECK_DEADLOCK FALSE
CONSTANTS
  None = None
  Runs = {r1, r2}
  BUDGET = 4
  COST_SEARCH = 2
  COST_VIDEOS = 1
  COST_COMMENTS = 1
  COST_PLACES = 1
  STEPS = 2
  MAX_VIDEOS = 3
  RUN_CAP = 3
  MAX_PAGES = 2
  MaxPeriod = 1
  MaxFaults = 1
  Users = {u, v}
  Author = u
  Sessions = {s1, s2}
  POINTS = 10
  THRESHOLDS <- Levels
  MaxRequests = 5
  d = d
  e = e
  Dishes = {d, e}
  Search = Search
  Trending = Trending
  SlugsFrom <- Slugs
  Readers = {c1}
  Tasks = {t1}
  MaxChanges = 2
INVARIANTS BudgetKept  
SYMMETRY Symmetry
