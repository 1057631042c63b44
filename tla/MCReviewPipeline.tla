--------------------------- MODULE MCReviewPipeline ---------------------------
(***************************************************************************)
(* Instances of ReviewPipeline for TLC: all reviews are of one restaurant, *)
(* so that they share their (dish, restaurant) pairs.                      *)
(***************************************************************************)
EXTENDS ReviewPipeline, TLC

CONSTANTS diner

OneRestaurant == [r \in Reviews |-> diner]
Permuted == Permutations(Workers) \cup Permutations(Dishes)
=============================================================================
