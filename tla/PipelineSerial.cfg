\* One worker process: both tasks, an admin retry, two dishes.
CONSTANTS
  diner = diner
  RestaurantOf <- OneRestaurant
  Reviews = {r1, r2}
  UserReviews = {r1, r2}
  Redrivable = {r1}
  Dishes = {d1, d2}
  Restaurants = {diner}
  Workers = {w1}
  MAX_ATTEMPTS = 2
  MAX_RETRIES = 2
  BatchSize = 2
  MaxCrashes = 0
  MaxResets = 0
  MaxRedrives = 1
SPECIFICATION Spec
INVARIANT ChangeReachesRanking
 
PROPERTY DoneIsFinal
\* The system stops when every review is settled and nothing is left to deliver.
CHECK_DEADLOCK FALSE
