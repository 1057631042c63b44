---------------------------- MODULE MCAlgorithms ----------------------------
EXTENDS Algorithms

\* Scores: two sources, certain and doubtful mentions, fresh, old and undated.
MCSources == {"user", "osm"}
MCQuality == [user |-> 90, osm |-> 40]
MCLog1p == [n \in 0..50 |-> CASE n = 0 -> 0 [] n = 1 -> 69 [] n = 2 -> 110 [] n = 3 -> 139
                              [] n = 4 -> 161 [] OTHER -> 393]
Obs(p, c, s, a) ==
  [positivity |-> p, confidence |-> c, source |-> s, ai |-> TRUE, engagement |-> 0, age |-> a]
MCMentioned == {Obs(90, 100, "user", 0), Obs(10, 100, "osm", 1), Obs(90, 40, "osm", 0),
                Obs(50, 60, "user", None)}

\* Trends: multisets of up to five observations.
Placed == {Obs(p, 100, "user", a) : p \in {30, 90}, a \in {0, 3, 9, None}}
Ordered(obs) == \A i \in 1..(Len(obs) - 1) :
  LET key(o) == (IF o.age = None THEN 20 ELSE o.age) * 100 + o.positivity
  IN  key(obs[i]) <= key(obs[i + 1])
MCEvidences == {[algo |-> "trend", obs |-> s] :
                  s \in {t \in UNION {[1..n -> Placed] : n \in 0..4} : Ordered(t)}}

\* Trends of up to three dishes.
Metric(dish, direction, significant, delta) ==
  [dish |-> dish, direction |-> direction, significant |-> significant, delta |-> delta]
MCMetrics == {[algo |-> "trending", metrics |-> {Metric(1, "rising", s1, d1),
                Metric(2, direction, s2, d2), Metric(3, "rising", TRUE, d3)}] :
                s1, s2 \in BOOLEAN, direction \in {"rising", "declining", None},
                d1, d2 \in {None, 5, 9}, d3 \in {5, 9}}

\* Badges: three and four places.
BadgeRow == [ranked : BOOLEAN, value : {None, 60}, mentions : {4, 9}, consistency : {50, 70},
             observed : {90}]
MCBadgeRows == {[algo |-> "badges", rows |-> s] : s \in [1..3 -> BadgeRow]}
               \cup {[algo |-> "badges", rows |-> s] :
                       s \in [1..4 -> [ranked : {TRUE}, value : {60}, mentions : {4, 6, 9},
                                       consistency : {70}, observed : {80, 90}]]}

\* Lists: three places, each ranked or not, open or not, cheap or dear.
Places == {1, 2, 3}
Score(i) == 10 * i
RowOf(i, ranked, open, price, badges) ==
  [dish |-> "momo", restaurant |-> i, open |-> open, ranked |-> ranked,
   score |-> IF ranked THEN Score(i) ELSE None, mentions |-> 2 + i, price |-> price,
   trend |-> None, delta |-> None, distance |-> 100 * i, area |-> "lake", badges |-> badges]
RowSets(prices, badges) ==
  {{RowOf(i, ranked[i], open[i], price[i], badges) : i \in Places} :
     ranked \in [Places -> BOOLEAN], open \in [Places -> BOOLEAN], price \in [Places -> prices]}
Paging(list, rows, max, size) ==
  [algo |-> "pages", list |-> list, rows |-> rows, filter |-> [NoFilter EXCEPT !.max = max],
   size |-> size, page |-> 1, shown |-> <<>>, more |-> TRUE]
Menu == {{[RowOf(1, ranked[i], TRUE, None, {}) EXCEPT !.dish = <<"momo", "roll", "thali">>[i],
           !.score = IF ranked[i] THEN Score(i) ELSE None] : i \in Places} :
           ranked \in [Places -> BOOLEAN]}
Public == {{[id |-> i, published |-> published[i], duplicate |-> duplicate[i],
             at |-> IF i = 3 THEN None ELSE i] : i \in Places} :
             published, duplicate \in [Places -> BOOLEAN]}
City == {{[id |-> i, open |-> open[i], score |-> score[i], area |-> "lake", cuisines |-> {},
           name |-> i] : i \in Places} :
           open \in [Places -> BOOLEAN], score \in [Places -> {None, 10, 20}]}
MCPagings ==
  {Paging("dish", rows, max, size) :
     rows \in RowSets({None, 100, 300}, {}), max \in {None, 100}, size \in {1, 2}}
  \cup {Paging("menu", rows, None, size) : rows \in Menu, size \in {1, 2}}
  \cup {Paging("reviews", rows, None, size) : rows \in Public, size \in {1, 2}}
  \cup {Paging("places", rows, None, size) : rows \in City, size \in {1, 2}}

Mention(r, s, published, at) ==
  [restaurant |-> r, sentiment |-> s, published |-> published, duplicate |-> FALSE,
   snippet |-> TRUE, confidence |-> 60 + s, at |-> at, attributes |-> {"juicy"}]
MCReads == {[algo |-> "reads", rows |-> rows, mentions |-> mentions] :
              rows \in RowSets({100}, {"best_value"}),
              mentions \in SUBSET {Mention(1, 50, TRUE, 2), Mention(1, -20, TRUE, 0),
                                   Mention(2, 30, FALSE, 2), Mention(3, 40, TRUE, None)}}

\* The vocabulary of queries and texts.
MCAreas == {<<"salt", "lake">>, <<"lake">>}
MCCuisines == {<<"north", "indian">>}
MCDietary == (<<"veg">> :> "veg") @@ (<<"non", "veg">> :> "non_veg")
MCMoods == (<<"late", "night">> :> "late_night") @@ (<<"date">> :> "date")
MCCheap == {<<"cheap">>}
MCPremium == {<<"premium">>}
MCSuperlative == {<<"best">>, <<"must", "try">>, <<"top">>}
MCNearMe == {<<"near", "me">>, <<"nearby">>}
MCNoise == {"best", "top", "near", "in", "me", "must", "try", "cheap", "premium", "place"}
MCInside == {<<<<"top">>, "laptop">>}
MCAmount == ("200" :> 200) @@ ("300" :> 300) @@ ("500" :> 500)
Momo == <<"chicken", "momo">>
MCLength == [p \in MCAreas \cup MCCuisines \cup DOMAIN MCDietary \cup DOMAIN MCMoods |->
               CASE p = <<"lake">> -> 4 [] p = <<"salt", "lake">> -> 9 [] p = <<"veg">> -> 3
                 [] p = <<"non", "veg">> -> 7 [] p = <<"date">> -> 4 [] OTHER -> 10]
Said(says) == [dish |-> <<>>, cuisine |-> None, area |-> None, min |-> None, max |-> None,
               dietary |-> None, mood |-> None, near_me |-> FALSE, superlative |-> FALSE,
               band |-> None] @@ says
Segments == {
  [kind |-> "dish", words |-> Momo, says |-> [dish |-> Momo]],
  [kind |-> "cuisine", words |-> <<"north", "indian">>,
   says |-> [cuisine |-> <<"north", "indian">>]],
  [kind |-> "place", words |-> <<"in", "salt", "lake">>, says |-> [area |-> <<"salt", "lake">>]],
  [kind |-> "place", words |-> <<"near", "tangra">>, says |-> [area |-> <<"tangra">>]],
  [kind |-> "price", words |-> <<"under", "300">>, says |-> [max |-> 300]],
  [kind |-> "price", words |-> <<"over", "500">>, says |-> [min |-> 500]],
  [kind |-> "price", words |-> <<"between", "200", "and", "500">>,
   says |-> [min |-> 200, max |-> 500]],
  [kind |-> "price", words |-> <<"cheap">>, says |-> [max |-> 300, band |-> "cheap"]],
  [kind |-> "diet", words |-> <<"non", "veg">>, says |-> [dietary |-> "non_veg"]],
  [kind |-> "mood", words |-> <<"late", "night">>, says |-> [mood |-> "late_night"]],
  [kind |-> "near", words |-> <<"near", "me">>, says |-> [near_me |-> TRUE]],
  [kind |-> "best", words |-> <<"must", "try">>, says |-> [superlative |-> TRUE]]}
Kinds == {s.kind : s \in Segments}
\* A place nobody listed ends the query.
WellPut(s) ==
  /\ \A i, j \in DOMAIN s : i # j => s[i].kind # s[j].kind
  /\ \A i \in 1..(Len(s) - 1) : s[i].words # <<"near", "tangra">>
Meaning(s) == [field \in DOMAIN Empty \ {"intent"} |->
                 LET saying == {i \in DOMAIN s : field \in DOMAIN s[i].says}
                 IN  IF saying = {} THEN Empty[field]
                     ELSE s[CHOOSE i \in saying : TRUE].says[field]]
MCQueries == {[algo |-> "query", words |-> FlattenSeq([i \in DOMAIN s |-> s[i].words]),
               says |-> Meaning(s)] :
                s \in {t \in UNION {[1..n -> Segments] : n \in 1..3} : WellPut(t)}}

\* Searches: two dishes and three places over a few texts and explicit filters.
MCAliases == (<<"momos">> :> "momo")
MCLetters == [term \in UNION {[1..n -> {"chicken", "chiken", "momo", "momos", "salt"}] : n \in 1..2}
                |-> 6 * Len(term)]
TextSimilarity(name, term) == IF name = term THEN 100 ELSE IF term = <<"chiken">> THEN 50 ELSE 10
SearchRow(i, dish, price, area) ==
  [RowOf(i, TRUE, TRUE, price, {}) EXCEPT !.dish = dish, !.area = area]
MCRequests ==
  {[algo |-> "search",
    dishes |-> {[slug |-> "momo", name |-> Momo, active |-> TRUE, cuisine |-> None, veg |-> FALSE],
                [slug |-> "thali", name |-> <<"thali">>, active |-> active, cuisine |-> None,
                 veg |-> TRUE]},
    rows |-> {SearchRow(1, "momo", 100, <<"lake">>), SearchRow(2, "momo", 300, <<"salt", "lake">>),
              SearchRow(3, "thali", 200, <<"lake">>), SearchRow(4, "momo", None, <<"lake">>)},
    filter |-> [max |-> max, min |-> min, area |-> area, trend |-> None, radius |-> radius,
                located |-> radius # None, cuisine |-> None, dietary |-> diet, mood |-> None,
                dish |-> dish, q |-> q, sort |-> "score", page |-> 1, size |-> size]] :
     active \in BOOLEAN, max \in {None, 100, 300}, min \in {None, 200},
     area \in {None, <<"lake">>}, radius \in {None, 150}, diet \in {None, "veg"},
     dish \in {None, "momo", "thali"}, size \in {1, 4},
     q \in {<<>>, Momo, <<"momos", "under", "300">>, <<"chiken", "near", "me">>,
            <<"momos", "in", "salt", "lake">>}}

\* Texts: every pair of clauses of a few words.
MCBreaks == {".", "but"}
MCMarkup == {"#"}
MCLexicon == [good |-> 55, awful |-> -90]
MCSetPhrases == << <<<<"not", "worth">>, -70>> >>
MCNegators == {"not"}
MCIntensifiers == [very |-> 130]
MCAttributes == [juicy |-> {<<"juicy">>}]
MCAspects == [taste |-> {<<"tasty">>}, service |-> {<<"service">>}]
MCPriceOf == ("120" :> 120)
MCPlurals == {<<"momo", "momos">>}
DishAliases == (Momo :> "chicken-momo") @@ (<<"momo">> :> "momo") @@ (<<"roll">> :> "roll")
MCChars == (Momo :> 12) @@ (<<"momo">> :> 4) @@ (<<"roll">> :> 4)
Clauses(words, n) == UNION {[1..k -> words] : k \in 1..n}
MCTexts == {[algo |-> "text", first |-> first, second |-> second, break |-> break,
             aliases |-> DishAliases] :
              first \in Clauses({"chicken", "momo", "good", "not", "service"}, 3),
              second \in Clauses({"momos", "roll", "awful", "120", "service"}, 2), break \in {"but"}}

\* Reviews: what a model may answer about a short text.
Answer(name, alias, confidence) ==
  [name |-> name, alias |-> alias, snippet |-> name, sentiment |-> 50, confidence |-> confidence,
   price |-> 120, recommended |-> FALSE]
Answers == {Answer(name, alias, c) : name \in {<<"momo">>, <<"thali">>},
              alias \in {None, <<"momo">>, <<"roll">>, <<"good">>}, c \in {10, 90}}
MCReviews == {[algo |-> "review", text |-> text, model |-> model, aliases |-> DishAliases] :
                text \in Clauses({"chicken", "momos", "good", "but"}, 3),
                model \in {{}} \cup {{a} : a \in Answers}}

\* Restaurants: up to four dishes, no two of which tie.
Label(name, sentiment, mentions) ==
  [name |-> name, sentiment |-> sentiment, mentions |-> mentions]
AllLabels == {Label("momo", 90, 4), Label("roll", 80, 4), Label("thali", 95, 3),
              Label("soup", 75, 3), Label("rice", 60, 5)}
MCProfiles ==
  {[algo |-> "dna",
    data |-> [labels |-> SetToSeq(labels), mentions |-> n, attributes |-> [spicy |-> 2, oily |-> 1],
              price |-> price, median |-> 200, consistency |-> consistency,
              aspects |-> [service |-> 60, hygiene |-> -50], trend |-> trend,
              cuisine |-> "bengali"]] :
     labels \in {S \in SUBSET AllLabels : Cardinality(S) \in 1..4}, n \in {2, 12, 16},
     price \in {None, 100}, consistency \in {30, 80}, trend \in {None, "rising"}}
MCGroups == <<"signature_dish", "spice", "price", "portion", "consistency", "ambience", "timing",
              "hygiene", "trend">>
=============================================================================
