------------------------------ MODULE Scoring ------------------------------
(***************************************************************************)
(* The dish score, its sufficiency gate, its reasons and the badges        *)
(* (services/ranking.py), and the trend of a pair (services/trends.py), as *)
(* functions of the observations.  Reals are rounded down to hundredths:   *)
(* 100 is 1.0.  Time is counted in half-lives, and an evidence weight in   *)
(* 1/(10^4 * Fresh).                                                       *)
(***************************************************************************)
EXTENDS Common, Collections, Integers, Sequences, FiniteSets, FiniteSetsExt

CONSTANTS
  Sources, Quality,      \* source types and SOURCE_QUALITY
  MIN_MENTIONS, MIN_WEIGHT,         \* the gate; the weight in hundredths
  BAYES_M, BAYES_PRIOR,
  Log1p, VOLUME_SATURATION, ENGAGEMENT_SATURATION,   \* math.log1p on the counts used
  OLDEST, YEAR,          \* half-lives: the oldest evidence told apart, and a year
  RECENT, HISTORICAL,    \* the trend's windows
  DELTA_THRESHOLD, MIN_OBSERVATIONS, SURGE_RATIO, SURGE_MIN_RECENT,
  GEM_POSITIVITY, GEM_CONSISTENCY, CONSISTENT_MENTIONS

ASSUME ScoringAssumption ==
  /\ Quality \in [Sources -> 0..100]
  /\ {MIN_MENTIONS, MIN_OBSERVATIONS, YEAR, RECENT, DELTA_THRESHOLD} \subseteq Nat \ {0}
  /\ {OLDEST, MIN_WEIGHT, BAYES_M} \subseteq Nat
  /\ BAYES_PRIOR \in 0..100
  /\ HISTORICAL \in Nat /\ HISTORICAL > RECENT
  /\ None \notin Int
  /\ {VOLUME_SATURATION, ENGAGEMENT_SATURATION} \subseteq DOMAIN Log1p
  /\ \A n \in DOMAIN Log1p : Log1p[n] \in Nat
  /\ Log1p[VOLUME_SATURATION] > 0 /\ Log1p[ENGAGEMENT_SATURATION] > 0

-----------------------------------------------------------------------------
(* Helpers. *)

AtMost(bound, x) == IF x > bound THEN bound ELSE x
AtLeast(bound, x) == IF x < bound THEN bound ELSE x
Clamp(x) == AtLeast(0, AtMost(100, x))

Total(f(_), obs) == SumFunction([i \in DOMAIN obs |-> f(obs[i])])
Mean(f(_), obs) == Total(f, obs) \div Len(obs)

\* An unknown date counts as a year ago, a future one as now.
AgeOf(o) == IF o.age = None THEN YEAR ELSE AtLeast(0, o.age)

\* Powers of two; what an observation weighs halves with every half-life.
Doubled[n \in 0..OLDEST] == IF n = 0 THEN 1 ELSE 2 * Doubled[n - 1]
Fresh == Doubled[OLDEST]
Decay(age) == Doubled[OLDEST - AtMost(OLDEST, age)]

\* Scored observations carry no author: the damping of unverified users never applies.
SourceQuality(o) == Quality[o.source]

Undecayed(o) == Clamp(o.confidence) * SourceQuality(o)
Weight(o) == Undecayed(o) * Decay(AgeOf(o))

\* Pulls a mean towards a prior that counts as m units of evidence.
Shrink(sum, weight, prior, m) ==
  IF weight <= 0 THEN prior ELSE (sum + prior * m) \div (weight + m)

\* Population standard deviation, rounded down.
Spread(obs) ==
  LET n == Len(obs)
      sum == Total(LAMBDA o : o.positivity, obs)
      squares == n * Total(LAMBDA o : o.positivity * o.positivity, obs) - sum * sum
  IN  CHOOSE r \in 0..50 : r * r * n * n <= squares /\ squares < (r + 1) * (r + 1) * n * n

-----------------------------------------------------------------------------
(* The score. *)

\* Mutant of GateWeight: lets age gate sufficiency as well.
DecayedWeight(obs) == Total(LAMBDA o : Weight(o) \div Fresh, obs)

\* Sufficiency is judged on undecayed weight.
GateWeight(obs) == Total(Undecayed, obs)

Ranks(obs) == Len(obs) >= MIN_MENTIONS /\ GateWeight(obs) >= MIN_WEIGHT * 100

ObservedPositivity(obs) ==
  LET weight == Total(Weight, obs)
  IN  IF weight > 0 THEN Total(LAMBDA o : o.positivity * Weight(o), obs) \div weight
      ELSE Mean(LAMBDA o : o.positivity, obs)

Sentiment(obs, prior) ==
  LET weight == Total(Weight, obs)
  IN  Clamp(Shrink(Total(LAMBDA o : o.positivity * Weight(o), obs), weight, prior,
                   BAYES_M * Fresh * 10000))

MinAge(obs) == Min({AgeOf(obs[i]) : i \in DOMAIN obs})

\* The seven components, in the order of their weights.
Components(obs, prior) ==
  LET n == Len(obs)
      decays == Total(LAMBDA o : Decay(AgeOf(o)), obs)
      aliasOnly == \A i \in DOMAIN obs : ~obs[i].ai
  IN  [sentiment |-> Sentiment(obs, prior),
       recency |-> (100 * Decay(MinAge(obs))) \div Fresh,
       consistency |-> IF n >= 3 THEN Clamp(100 - 2 * Spread(obs)) ELSE 50,
       volume |-> Clamp((100 * Log1p[n]) \div Log1p[VOLUME_SATURATION]),
       source |-> Total(LAMBDA o : SourceQuality(o) * Decay(AgeOf(o)), obs) \div decays,
       engagement |-> Clamp((100 * Log1p[Total(LAMBDA o : AtLeast(0, o.engagement), obs)])
                              \div Log1p[ENGAGEMENT_SATURATION]),
       confidence |-> (Mean(LAMBDA o : Clamp(o.confidence), obs)
                         * (IF aliasOnly THEN 85 ELSE 100) * (IF n >= 3 THEN 10 ELSE 8))
                      \div 1000]

Raw(c) == Clamp((35 * c.sentiment + 20 * c.recency + 15 * c.consistency + 10 * c.volume
                  + 10 * c.source + 5 * c.engagement + 5 * c.confidence) \div 100)

PositiveRatio(obs) ==
  (100 * Cardinality({i \in DOMAIN obs : obs[i].positivity > 57})) \div Len(obs)

\* Quality per rupee, none without a price on both sides.
ValueScore(sentiment, price, cityMedian) ==
  IF price = None \/ cityMedian = None THEN None
  ELSE Clamp((sentiment * AtLeast(50, AtMost(160, (100 * cityMedian) \div price))) \div 100)

\* The first three reasons that clear their threshold, and the number of mentions.
Why(c, ratio, minAge) ==
  LET reason(cleared, code) == IF cleared THEN <<code>> ELSE <<>>
      found == reason(ratio >= 70, "positive_ratio")
               \o (IF c.recency >= 60 THEN <<"recent">> ELSE reason(minAge > YEAR, "stale"))
               \o (IF c.consistency >= 65 THEN <<"consistency">>
                   ELSE reason(c.consistency < 35, "inconsistent"))
               \o reason(c.source >= 70, "source_quality")
  IN  SubSeq(found, 1, AtMost(3, Len(found))) \o <<"mentions">>

DishScore(obs, prior) ==
  IF obs = <<>>
  THEN [ranked |-> FALSE, score |-> None, sentiment |-> 0, consistency |-> 0, mentions |-> 0,
        observed |-> 0, why |-> <<>>]
  ELSE LET c == Components(obs, IF prior = None THEN BAYES_PRIOR ELSE prior)
       IN  [ranked |-> Ranks(obs),
            score |-> IF Ranks(obs) THEN Raw(c) ELSE None,
            sentiment |-> c.sentiment, consistency |-> c.consistency, mentions |-> Len(obs),
            observed |-> ObservedPositivity(obs),
            why |-> IF Ranks(obs) THEN Why(c, PositiveRatio(obs), MinAge(obs)) ELSE <<>>]

-----------------------------------------------------------------------------
(* Badges, given among the rows of one dish; the first of equals wins. *)

RankedRows(rows) == {i \in DOMAIN rows : rows[i].ranked}

FirstBest(pool, value(_)) ==
  LET best == {i \in pool : \A j \in pool : value(j) <= value(i)}
  IN  IF best = {} THEN {} ELSE {Min(best)}

BestValue(rows) ==
  FirstBest({i \in RankedRows(rows) : rows[i].value # None}, LAMBDA i : rows[i].value)

MostConsistent(rows) ==
  FirstBest({i \in RankedRows(rows) : rows[i].mentions >= CONSISTENT_MENTIONS},
            LAMBDA i : rows[i].consistency)

\* The k-th smallest mention count, counting rows.
KthCount(rows, k) ==
  CHOOSE c \in {rows[i].mentions : i \in RankedRows(rows)} :
    /\ Cardinality({i \in RankedRows(rows) : rows[i].mentions < c}) < k
    /\ Cardinality({i \in RankedRows(rows) : rows[i].mentions <= c}) >= k

\* Mutant of GemCutoff: forgets that the list is indexed from zero.
GemCutoffNext(rows) == KthCount(rows, Cardinality(RankedRows(rows)) \div 3 + 1)

\* counts[max(0, len // 3 - 1)]
GemCutoff(rows) == KthCount(rows, AtLeast(1, Cardinality(RankedRows(rows)) \div 3))

HiddenGems(rows) ==
  IF Cardinality(RankedRows(rows)) < 3 THEN {}
  ELSE {i \in RankedRows(rows) : /\ rows[i].observed >= GEM_POSITIVITY
                                 /\ rows[i].consistency >= GEM_CONSISTENCY
                                 /\ rows[i].mentions <= GemCutoff(rows)}

-----------------------------------------------------------------------------
(* The trend: the recent window against the one before it. *)

Dated(obs) == {i \in DOMAIN obs : obs[i].age # None}
RecentOnes(obs) == {i \in Dated(obs) : obs[i].age \in 0..RECENT}

\* Mutant of HistoricalOnes: the older window reaches into the recent one.
HistoricalAll(obs) == {i \in Dated(obs) : obs[i].age \in 0..HISTORICAL}
HistoricalOnes(obs) == {i \in Dated(obs) : obs[i].age \in (RECENT + 1)..HISTORICAL}

Trend(obs) ==
  LET recent == RecentOnes(obs)
      historical == HistoricalOnes(obs)
      nr == Cardinality(recent)
      nh == Cardinality(historical)
      sum(S) == SumFunction([i \in S |-> obs[i].positivity])
      delta == sum(recent) * nh - sum(historical) * nr     \* times nr * nh
      threshold == DELTA_THRESHOLD * nr * nh
      surge == /\ nr * (HISTORICAL - RECENT) >= SURGE_RATIO * nh * RECENT
               /\ nr >= SURGE_MIN_RECENT
      result(direction, significant) == [direction |-> direction, significant |-> significant]
  IN  IF nr < MIN_OBSERVATIONS \/ nh < MIN_OBSERVATIONS THEN result(None, FALSE)
      ELSE IF delta >= threshold THEN result("rising", TRUE)
      ELSE IF delta <= -threshold THEN result("declining", TRUE)
      ELSE IF surge THEN result("rising", FALSE)
      ELSE result("stable", FALSE)
=============================================================================
