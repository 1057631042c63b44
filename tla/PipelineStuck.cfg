\* An ingested review, fair workers, one crash, the beat schedule as it is.
CONSTANTS
  diner = diner
  RestaurantOf <- OneRestaurant
  Reviews = {r1}
  UserReviews = {}
  Redrivable = {}
  Dishes = {d1}
  Restaurants = {diner}
  Workers = {w1, w2}
  MAX_ATTEMPTS = 2
  MAX_RETRIES = 2
  BatchSize = 2
  MaxCrashes = 1
  MaxResets = 0
  MaxRedrives = 0
SPECIFICATION FairSpec
PROPERTY StuckRecovered
\* The system stops when every review is settled and nothing is left to deliver.
CHECK_DEADLOCK FALSE
