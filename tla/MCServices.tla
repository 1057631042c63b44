----------------------------- MODULE MCServices -----------------------------
(* Constants of Services for TLC: the slug of dish d begins that of dish e. *)
EXTENDS Services, TLC
CONSTANTS d, e
Slugs == (d :> {d, e}) @@ (e :> {e})
Levels == {1, 3}
Symmetry == Permutations(Runs) \cup Permutations(Sessions)
=============================================================================
