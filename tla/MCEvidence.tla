----------------------------- MODULE MCEvidence -----------------------------
(* Constants of Evidence for TLC: a place with two spellings in two        *)
(* sources, and a different place half a kilometre away with a similar     *)
(* name, which a Wikidata item and the texts name.                         *)
EXTENDS Evidence, TLC
CONSTANTS a, a2, b, b2, o1, o2, g1, g2, q, t1, p1, p2

Similar == [x \in Names \X Names |->
  CASE x[1] = x[2] -> 100
    [] x \in {<<a, a2>>, <<a2, a>>} -> 90
    [] x \in {<<a, b>>, <<b, a>>} -> 85
    [] OTHER -> 40]
Sources == (o1 :> "osm") @@ (o2 :> "osm") @@ (g1 :> "google") @@ (g2 :> "google")
Offered == (o1 :> {[name |-> a, at |-> 0], [name |-> a2, at |-> 0]})
          @@ (o2 :> {[name |-> a2, at |-> 30]})
          @@ (g1 :> {[name |-> a2, at |-> 100]})
          @@ (g2 :> {[name |-> b, at |-> 500]})
Wikidata == q :> [label |-> b, names |-> {b2}]
OneText == t1 :> [hint |-> b2, at |-> 500, named |-> {b}, text |-> 1]
About == (o1 :> p1) @@ (o2 :> p1) @@ (g1 :> p1) @@ (g2 :> p2) @@ (q :> p2) @@ (t1 :> p2)
Called == (p1 :> {a, a2}) @@ (p2 :> {b, b2})

\* The instance is such a world.
ASSUME TheWorld == PlacesDiffer /\ RecordsAlike
=============================================================================
