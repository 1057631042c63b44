\* An ingested and a user's review, two workers, a crash and a reset.
CONSTANTS
  diner = diner
  RestaurantOf <- OneRestaurant
  Reviews = {r1, r2}
  UserReviews = {r2}
  Redrivable = {}
  Dishes = {d1}
  Restaurants = {diner}
  Workers = {w1, w2}
  MAX_ATTEMPTS = 2
  MAX_RETRIES = 2
  BatchSize = 2
  MaxCrashes = 1
  MaxResets = 1
  MaxRedrives = 0
SPECIFICATION Spec
SYMMETRY Permuted
INVARIANT TypeOK
INVARIANT SweptExclusively
PROPERTY ImplementsLifecycle
\* The system stops when every review is settled and nothing is left to deliver.
CHECK_DEADLOCK FALSE
