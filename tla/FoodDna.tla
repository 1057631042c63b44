------------------------------ MODULE FoodDna ------------------------------
(***************************************************************************)
(* The chips that describe a restaurant (services/food_dna.py).  A chip is *)
(* [code, group, value].  Reals are hundredths; counts and values are      *)
(* compared on the same scale.                                             *)
(***************************************************************************)
EXTENDS Common, Collections, Sequences, FiniteSets, FiniteSetsExt, SequencesExt

CONSTANTS
  Groups,                       \* CHIP_ORDER
  MIN_MENTIONS_FOR_DNA, SIGNATURE_SHARE, SIGNATURE_MIN_SENTIMENT,
  DNA_LIMIT

Chip(code, group, value) == [code |-> code, group |-> group, value |-> value]
OneIf(condition, chip) == IF condition THEN <<chip>> ELSE <<>>

\* The items of a sequence in a strict total order on its positions.
Sorted(s, before(_, _)) ==
  [k \in DOMAIN s |-> s[CHOOSE i \in DOMAIN s :
                          Cardinality({j \in DOMAIN s : before(j, i)}) = k - 1]]

\* The labels most talked about; of equal ones the better liked, and of those the earlier.
TopLabels(labels, n) ==
  LET before(i, j) == \/ labels[i].mentions > labels[j].mentions
                      \/ /\ labels[i].mentions = labels[j].mentions
                         /\ \/ labels[i].sentiment > labels[j].sentiment
                            \/ labels[i].sentiment = labels[j].sentiment /\ i < j
  IN  SubSeq(Sorted(labels, before), 1, Min({n, Len(labels)}))

\* The labels well liked that have a good share of what is said.
Strong(data) ==
  {l \in ToSet(data.labels) : /\ 100 * l.mentions >= SIGNATURE_SHARE * data.mentions
                              /\ l.sentiment >= SIGNATURE_MIN_SENTIMENT /\ l.mentions >= 3}

\* Mutant of Signatures: takes the first three labels as the database returned them.
SignaturesUnsorted(data) ==
  LET strong == Among(SubSeq(data.labels, 1, Min({3, Len(data.labels)})), Strong(data))
  IN  [k \in DOMAIN strong |-> Chip(strong[k].name, "signature_dish", strong[k].sentiment)]

Signatures(data) ==
  LET strong == Among(TopLabels(data.labels, 3), Strong(data))
  IN  [k \in DOMAIN strong |-> Chip(strong[k].name, "signature_dish", strong[k].sentiment)]

AttributeChips(data) ==
  LET threshold == Max({2, (data.mentions * 15) \div 100})
      count(a) == IF a \in DOMAIN data.attributes THEN data.attributes[a] ELSE 0
      often(a, code, group, least) == OneIf(count(a) >= least, Chip(code, group, 100 * count(a)))
  IN  often("spicy", "spicy", "spice", threshold)
      \o often("generous_portion", "generous", "portion", threshold)
      \o often("small_portion", "small_portions", "portion", threshold)
      \o often("oily", "oily", "portion", threshold)
      \o often("late_night", "late_night", "timing", 2)
      \o often("authentic", "authentic", "ambience", threshold)

\* Relative to the city's median, never absolute.
PriceChip(data) ==
  LET ratio == (100 * data.price) \div data.median
  IN  IF data.price \in {None, 0} \/ data.median \in {None, 0} THEN <<>>
      ELSE <<Chip(IF ratio <= 75 THEN "affordable" ELSE IF ratio >= 140 THEN "premium"
                  ELSE "mid_range", "price", ratio)>>

ConsistencyChip(data) ==
  OneIf(data.mentions >= 8 /\ (data.consistency >= 75 \/ data.consistency <= 35),
        Chip(IF data.consistency >= 75 THEN "consistent" ELSE "hit_or_miss", "consistency",
             data.consistency))

AspectChips(data) ==
  LET felt(a) == IF a \in DOMAIN data.aspects THEN data.aspects[a] ELSE 0
      served == data.mentions >= 5
  IN  OneIf(served /\ felt("service") >= 50, Chip("great_service", "ambience", felt("service")))
      \o OneIf(served /\ felt("service") <= -40, Chip("slow_service", "ambience", felt("service")))
      \o OneIf(felt("hygiene") <= -40, Chip("hygiene_concerns", "hygiene", felt("hygiene")))
      \o OneIf(felt("ambience") >= 50, Chip("good_ambience", "ambience", felt("ambience")))

TrendChip(data) == OneIf(data.trend \in {"rising", "declining"}, Chip(data.trend, "trend", 0))

\* A cuisine stands in for a signature dish.
CuisineChip(data) ==
  OneIf(Signatures(data) = <<>> /\ data.cuisine # None, Chip(data.cuisine, "signature_dish", 0))

Rank(group) == CHOOSE i \in DOMAIN Groups : Groups[i] = group

\* By group, then by falling value; chips that tie stay in the order they were found.
SortChips(chips) ==
  LET before(i, j) == \/ Rank(chips[i].group) < Rank(chips[j].group)
                      \/ /\ chips[i].group = chips[j].group
                         /\ \/ chips[i].value > chips[j].value
                            \/ chips[i].value = chips[j].value /\ i < j
  IN  Sorted(chips, before)

BuildFoodDna(data) ==
  LET chips == SortChips(Signatures(data) \o AttributeChips(data) \o PriceChip(data)
                         \o ConsistencyChip(data) \o AspectChips(data) \o TrendChip(data)
                         \o CuisineChip(data))
  IN  IF data.mentions < MIN_MENTIONS_FOR_DNA THEN <<>>
      ELSE SubSeq(chips, 1, Min({DNA_LIMIT, Len(chips)}))
=============================================================================
