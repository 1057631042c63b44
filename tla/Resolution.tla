----------------------------- MODULE Resolution -----------------------------
(***************************************************************************)
(* Which restaurant an incoming record or text is about                    *)
(* (services/entity_resolution.py, services/mention_extraction.py).  A     *)
(* candidate is a restaurant as the task read it, with the aliases and     *)
(* source keys it had.  Confidences are thousandths, similarities          *)
(* hundredths, and places lie on a line, in metres.                        *)
(***************************************************************************)
EXTENDS Common, FiniteSets

Tiers == {"source_key", "exact_name", "alias", "fuzzy_geo", "fuzzy_strict"}

CONSTANTS
  Names,                             \* normalised names
  NameSimilarity,                    \* a symmetric function on Names \X Names, to 0..100
  Distinctive,                       \* names with a token that is not generic
  EXACT_DISTANCE, CHAIN_DISTANCE,    \* 250 m and 1 km
  STRONG, MODERATE,                  \* 92 and 82
  AMBIGUITY_MARGIN                   \* 50

ASSUME ResolutionAssumption ==
  /\ NameSimilarity \in [Names \X Names -> 0..100]
  /\ \A n \in Names : NameSimilarity[<<n, n>>] = 100
  /\ Distinctive \subseteq Names
  /\ {EXACT_DISTANCE, CHAIN_DISTANCE, STRONG, MODERATE, AMBIGUITY_MARGIN} \subseteq Nat
  /\ EXACT_DISTANCE <= CHAIN_DISTANCE /\ MODERATE <= STRONG /\ STRONG <= 100
  /\ None \notin Tiers

Distance(incoming, c) == IF incoming.at = None THEN None ELSE Abs(incoming.at - c.at)

\* Without coordinates nothing is near.
Within(distance, limit) == distance # None /\ distance <= limit

\* Mutant of Tier: a similar name is enough a kilometre away.
TierFar(incoming, c) ==
  CASE c.name = incoming.name /\ Within(Distance(incoming, c), EXACT_DISTANCE) -> "exact_name"
    [] OTHER -> IF NameSimilarity[<<incoming.name, c.name>>] >= MODERATE
                   /\ Within(Distance(incoming, c), CHAIN_DISTANCE) THEN "fuzzy_geo" ELSE None

\* The first rung of the ladder that a candidate stands on.
Tier(incoming, c) ==
  LET distance == Distance(incoming, c)
      similarity == NameSimilarity[<<incoming.name, c.name>>]
  IN  IF c.name = incoming.name /\ Within(distance, EXACT_DISTANCE) THEN "exact_name"
      ELSE IF incoming.name \in c.aliases /\ Within(distance, CHAIN_DISTANCE) THEN "alias"
      ELSE IF similarity >= MODERATE /\ Within(distance, EXACT_DISTANCE) THEN "fuzzy_geo"
      ELSE IF similarity >= STRONG /\ (distance = None \/ Within(distance, CHAIN_DISTANCE))
           THEN "fuzzy_strict"
      ELSE None

Confidence(tier, similarity) ==
  CASE tier = "exact_name"   -> 950
    [] tier = "alias"        -> 900
    [] tier = "fuzzy_geo"    -> 600 + 4 * similarity
    [] tier = "fuzzy_strict" -> 550 + 3 * similarity

Resolution(id, method, confidence) == [id |-> id, method |-> method, confidence |-> confidence]

Score(c, tier, similarity) == Resolution(c.id, tier, Confidence(tier, similarity))

\* The candidates that stand on some rung.
Scored(incoming, candidates) ==
  {Score(c, Tier(incoming, c), NameSimilarity[<<incoming.name, c.name>>]) :
     c \in {d \in candidates : Tier(incoming, d) # None}}

\* Of equals the smaller id is the first.
Foremost(scores) ==
  CHOOSE s \in scores : \A t \in scores \ {s} :
    s.confidence > t.confidence \/ (s.confidence = t.confidence /\ s.id < t.id)

\* Too close to the best, in the same tier.
Rivals(best, second) ==
  second.method = best.method /\ best.confidence - second.confidence <= AMBIGUITY_MARGIN

\* The best of the ladder, unless the runner-up is its rival.
Decide(best, others) ==
  IF others # {} /\ Rivals(best, Foremost(others))
  THEN Resolution(None, "ambiguous", best.confidence) ELSE best

BestOf(scores) ==
  IF scores = {} THEN Resolution(None, "new", 300)
  ELSE Decide(Foremost(scores), scores \ {Foremost(scores)})

\* A known source key decides; else the ladder; else it is a new place.
Resolve(incoming, candidates) ==
  LET keyed == {c \in candidates : incoming.key # None /\ incoming.key \in c.keys}
  IN  IF keyed # {} THEN Resolution((CHOOSE c \in keyed : TRUE).id, "source_key", 1000)
      ELSE BestOf(Scored(incoming, candidates))

\* The restaurants a text names, by the name shown or an alias, if it has a distinctive word.
MentionHits(named, candidates) ==
  {c \in candidates : (c.shown \cup c.aliases) \cap named \cap Distinctive # {}}

\* Exactly one restaurant, or nobody.
ResolveMention(named, candidates) ==
  LET hits == MentionHits(named, candidates)
  IN  IF Cardinality(hits) = 1 THEN (CHOOSE c \in hits : TRUE).id ELSE None
=============================================================================
