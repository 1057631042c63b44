----------------------------- MODULE MCRanking -----------------------------
(* Constants of Ranking for TLC: one dish mentioned at two restaurants. *)
EXTENDS Ranking, TLC
CONSTANTS d1, d2, r1, r2, m1, m2
TwoPlaces == (m1 :> <<d1, r1>>) @@ (m2 :> <<d1, r2>>)
=============================================================================
