\* Fair workers, no crash: an ingested and a user's review.
CONSTANTS
  diner = diner
  RestaurantOf <- OneRestaurant
  Reviews = {r1, r2}
  UserReviews = {r2}
  Redrivable = {}
  Dishes = {d1}
  Restaurants = {diner}
  Workers = {w1, w2}
  MAX_ATTEMPTS = 2
  MAX_RETRIES = 2
  BatchSize = 2
  MaxCrashes = 0
  MaxResets = 0
  MaxRedrives = 0
SPECIFICATION FairSpec
INVARIANT NoReviewInLimbo
PROPERTY EventuallySettled
\* The system stops when every review is settled and nothing is left to deliver.
CHECK_DEADLOCK FALSE
