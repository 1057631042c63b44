----------------------------- MODULE Algorithms -----------------------------
(***************************************************************************)
(* What the program's pure functions promise, over every input of a bounded*)
(* set.  An input is a record whose field `algo' says which function it is *)
(* for.  Evidence on a dish comes in one observation at a time and ages, a *)
(* reader turns the pages of a list; the other inputs stay as they are.    *)
(***************************************************************************)
EXTENDS Scoring, Search, Extraction, FoodDna

CONSTANTS
  Mentioned,        \* the observations a dish may get
  MAX_OBSERVATIONS,
  Evidences, Metrics, BadgeRows, Pagings, Reads, Requests, Queries, Texts, Reviews, Profiles
                    \* the inputs of the other functions

-----------------------------------------------------------------------------
(* What the callers of the functions pass. *)

IsFor(algo, x) == "algo" \in DOMAIN x /\ x.algo = algo

\* One extracted mention.
Observations == [positivity : 0..100, confidence : Int, source : Sources, ai : BOOLEAN,
                 engagement : Int, age : Int \cup {None}]

\* The observations of a pair: dated or not, each with its positivity.
IsEvidence(x) ==
  /\ IsFor("trend", x) /\ x.obs \in Seq(ToSet(x.obs))
  /\ \A o \in ToSet(x.obs) : {"age", "positivity"} \subseteq DOMAIN o /\ o.positivity \in Int

\* Stored trends.
IsMetric(x) ==
  /\ IsFor("trending", x) /\ IsFiniteSet(x.metrics)
  /\ \A m \in x.metrics : m.significant \in BOOLEAN /\ m.delta \in Int \cup {None}

\* The rows of one dish, in the order of the table.
IsBadged(x) ==
  /\ IsFor("badges", x) /\ x.rows \in Seq(ToSet(x.rows))
  /\ \A r \in ToSet(x.rows) : /\ r.ranked \in BOOLEAN /\ r.value \in Int \cup {None}
                             /\ {r.mentions, r.consistency, r.observed} \subseteq Int

\* What is stored on one dish: a ranked row has a score.
IsRead(x) ==
  /\ IsFor("reads", x) /\ IsFiniteSet(x.rows) /\ IsFiniteSet(x.mentions)
  /\ \A r \in x.rows : r.ranked \in BOOLEAN /\ (r.ranked => r.score \in Int)

\* A search: the catalogue, and the filters its schema lets through.
IsRequest(x) ==
  /\ IsFor("search", x) /\ IsFiniteSet(x.dishes) /\ IsFiniteSet(x.rows)
  /\ DOMAIN x.filter = {"max", "min", "area", "trend", "radius", "located", "cuisine", "dietary",
                        "mood", "dish", "q", "sort", "page", "size"}
  /\ {x.filter.page, x.filter.size} \subseteq Nat \ {0}
  /\ LET term == ParseQuery(x.filter.q).dish
     IN  /\ term = <<>> \/ Letters[term] \in Nat
         /\ \A d \in x.dishes : d.slug # None /\ Similarity(d.name, term) \in 0..100

\* A review: its text is clean (schemas/review.py and the ingestion clean it), an alias has words
\* and a dish, and what a model answers names a dish and says how sure it is.
IsReviewed(x) ==
  /\ IsFor("review", x)
  /\ x.text \in Seq(ToSet(x.text)) /\ ToSet(x.text) \cap Markup = {}
  /\ IsFiniteSet(DOMAIN x.aliases) /\ None \notin DOMAIN x.aliases
  /\ \A a \in DOMAIN x.aliases : a \in Seq(ToSet(a)) \ {<<>>} /\ Chars[a] \in Nat
  /\ \A n \in x.model : /\ DOMAIN n = {"name", "alias", "snippet", "sentiment", "confidence", "price",
                                       "recommended"}
                        /\ n.name # None /\ n.confidence \in Int

\* A list, and what is stored of what it lists; a reader starts at its first page.
IsListed(x) ==
  /\ {"list", "rows", "filter", "size", "page", "shown", "more"} \subseteq DOMAIN x
  /\ x.list \in {"dish", "menu", "reviews", "places"} /\ x.size \in Nat \ {0} /\ IsFiniteSet(x.rows)
  /\ \A r \in x.rows :
       CASE x.list = "reviews" -> r.at \in Int \cup {None}
         [] x.list = "places"  -> r.score \in Int \cup {None} /\ r.name \in Int
         [] OTHER              -> r.ranked \in BOOLEAN /\ (r.ranked => r.score \in Int)
IsPaging(x) ==
  /\ IsFor("pages", x) /\ IsListed(x)
  /\ x.page = 1 /\ x.shown = <<>> /\ x.more = TRUE

\* What is known of a restaurant: each of its dishes once, in the order of the database.
IsProfile(x) ==
  LET labels == x.data.labels
  IN  /\ IsFor("dna", x)
      /\ {"labels", "mentions", "attributes", "price", "median", "consistency", "aspects", "trend",
          "cuisine"} \subseteq DOMAIN x.data
      /\ IsFiniteSet(ToSet(labels)) /\ labels \in SetToSeqs(ToSet(labels))
      /\ \A l \in ToSet(labels) : l.mentions \in Nat /\ l.sentiment \in Int

ASSUME InputsAssumption ==
  /\ {MIN_CONFIDENCE, MAX_OBSERVATIONS} \subseteq Nat
  /\ Mentioned \subseteq Observations
  /\ \A o \in Mentioned : 0..(MAX_OBSERVATIONS * AtLeast(1, o.engagement)) \subseteq DOMAIN Log1p
  /\ \A x \in Evidences : IsEvidence(x)
  /\ \A x \in Metrics : IsMetric(x)
  /\ \A x \in BadgeRows : IsBadged(x)
  /\ \A x \in Pagings : IsPaging(x)
  /\ \A x \in Reads : IsRead(x)
  /\ \A x \in Requests : IsRequest(x)
  /\ \A x \in Queries : IsFor("query", x)
  /\ \A x \in Texts : IsFor("text", x)
  /\ \A x \in Reviews : IsReviewed(x)
  /\ \A x \in Profiles : IsProfile(x)

VARIABLE input

-----------------------------------------------------------------------------
(* Steps. *)

Is(algo) == input.algo = algo

Init ==
  input \in {[algo |-> "score", obs |-> <<>>]} \cup Evidences \cup Metrics \cup BadgeRows \cup Pagings
            \cup Reads \cup Requests \cup Queries \cup Texts \cup Reviews \cup Profiles

\* One more mention of the dish is extracted.
Observe ==
  /\ Is("score") /\ Len(input.obs) < MAX_OBSERVATIONS
  /\ \E o \in Mentioned : input' = [input EXCEPT !.obs = Append(@, o)]

Ages(o) == o.age \in 0..(OLDEST - 1)

\* A half-life passes over the dated evidence.
HalfLife ==
  /\ Is("score") /\ \E i \in DOMAIN input.obs : Ages(input.obs[i])
  /\ LET older(o) == IF Ages(o) THEN [o EXCEPT !.age = @ + 1] ELSE o
     IN  input' = [input EXCEPT !.obs = [i \in DOMAIN input.obs |-> older(input.obs[i])]]

\* The list is asked for its next page while it says that there is more.
NextPage ==
  /\ Is("pages") /\ input.more
  /\ \E list \in ListsOf(input.list, input.rows, input.filter) :
       input' = [input EXCEPT !.shown = @ \o Slice(list, input.page, input.size),
                              !.page = @ + 1,
                              !.more = HasMore(input.page, input.size,
                                               TotalOf(input.list, input.rows, input.filter))]

Next == Observe \/ HalfLife \/ NextPage
Spec == Init /\ [][Next]_input

-----------------------------------------------------------------------------
(* Scores, badges and trends. *)

\* The prior and the mean of the evidence are what a sentiment lies between, a score is shown
\* exactly when the evidence suffices, and its sufficiency is a matter of evidence and not of
\* time: a mention never takes a rank away, and the passing of time neither gives nor takes one.
\* Of two places as good, the cheaper is no worse value (compute_dish_score, value_score).
RankIsEarned ==
  [][/\ Is("score") /\ input'.algo = "score"
     => LET before == DishScore(input.obs, None)  after == DishScore(input'.obs, None)
        IN  /\ before.ranked => after.ranked
            /\ Len(input.obs) = Len(input'.obs) => before.ranked = after.ranked
            /\ (after.score # None) = after.ranked
            /\ \A p \in {60, 100, 150} :
                 ValueScore(after.sentiment, p, 100) >= ValueScore(after.sentiment, 2 * p, 100)
            /\ after.sentiment \in (Min({BAYES_PRIOR, after.observed}) - 1)
                                     ..(Max({BAYES_PRIOR, after.observed}) + 1)]_input

\* A hidden gem is less mentioned than two thirds of the ranked places for the dish, one
\* ranked place holds each of the other two badges, and it holds it against every rival
\* (assign_badges).
BadgesEarned ==
  Is("badges") =>
    LET rows == input.rows
        ranked == {i \in DOMAIN rows : rows[i].ranked}
        fewer(i) == {j \in ranked : rows[j].mentions < rows[i].mentions}
    IN  /\ HiddenGems(rows) \subseteq ranked
        /\ \A i \in HiddenGems(rows) :
             /\ Cardinality(ranked) >= 3
             /\ 3 * Cardinality(fewer(i)) < Max({3, Cardinality(ranked)})
        /\ \A i \in BestValue(rows) : \A j \in ranked :
             rows[j].value # None => rows[j].value <= rows[i].value
        /\ \A i \in MostConsistent(rows) : \A j \in ranked :
             rows[j].mentions >= CONSISTENT_MENTIONS => rows[j].consistency <= rows[i].consistency

\* A trend is a change against older evidence: without any there is none; evidence that cannot
\* be placed in a window changes nothing; and opinions turned around turn a significant trend
\* around. A shortened list of trends leaves out only weaker ones (detect_trend, trending).
TrendHonest ==
  /\ Is("trend") =>
       LET obs == input.obs
           turned == [i \in DOMAIN obs |-> [obs[i] EXCEPT !.positivity = 100 - @]]
           placed == Among(obs, {o \in ToSet(obs) : o.age \in 0..HISTORICAL})
           recent == Among(obs, {o \in ToSet(obs) : o.age \in 0..RECENT})
           opposite == [rising |-> "declining", declining |-> "rising"]
       IN  /\ Trend(recent).direction = None
           /\ Trend(placed) = Trend(obs)
           /\ Trend(obs).significant =>
                /\ Trend(turned).direction = opposite[Trend(obs).direction]
                /\ Trend(turned).significant
  /\ Is("trending") =>
       \A n \in 1..Cardinality(input.metrics) : \A t \in Trending(input.metrics, "rising", n) :
         \A left \in {m \in input.metrics : m.direction = "rising"} \ ToSet(t) :
           /\ Len(t) = n
           /\ \A i \in DOMAIN t : \/ t[i].significant /\ ~left.significant
                                  \/ /\ t[i].significant = left.significant
                                     /\ left.delta # None =>
                                          t[i].delta # None /\ Abs(t[i].delta) >= Abs(left.delta)

-----------------------------------------------------------------------------
(* Lists and pages. *)

\* What tells the rows of a list apart.
RankKey(list, r) == CASE list = "reviews" -> r.at
                      [] list = "places"  -> <<r.score, r.name>>
                      [] OTHER            -> r.score

\* A reader who turns the pages of a list to the end has seen everything the list is of, in its
\* order and each once, although a dish's total ignores the filters: the ranked, open places the
\* filters admit, a restaurant's ranked dishes, its public reviews, and the city's places
\* (list_dish_restaurants, list_restaurant_dishes, list_restaurant_reviews, list_restaurants).
\* Rows that tie may be shown twice or never: those with too little evidence all do.
PagesReachAll ==
  Is("pages") /\ ~input.more =>
    LET ranks == input.list \in {"dish", "menu"}
        listed == ToSet(CHOOSE s \in ListsOf(input.list, input.rows, input.filter) : TRUE)
        due == {r \in listed : ranks => r.ranked}
        apart == \A a, b \in due : RankKey(input.list, a) = RankKey(input.list, b) => a = b
    IN  apart => Among(input.shown, due) \in ListsOf(input.list, due, input.filter)

\* What the pages say of one dish agrees: the card and the dish page count the same places,
\* a dish with a ranked open place is ranked on both, its score lies within theirs, its picks are
\* among the markers of the map, and the summary's count is the page's (get_dish_detail,
\* get_dish_map, _dish_card).
ReadsAgree ==
  Is("reads") =>
    LET rows == input.rows
        scores == {r.score : r \in {q \in rows : q.ranked}}
        card == DishCard(rows)
        signals == RecentSignals(input.mentions, 1)
        said == SumFunction([p \in DOMAIN signals |-> signals[p].mentions])
        good == AttributeCounts(input.mentions, TRUE)
        bad == AttributeCounts(input.mentions, FALSE)
        count(table, a) == IF a \in DOMAIN table THEN table[a] ELSE 0
    IN  \A d \in Details(rows, input.mentions) :
          /\ d.restaurants = card.restaurants
          /\ d.status => card.status /\ d.score \in Min(scores)..Max(scores)
          /\ \A b \in DOMAIN d.highlights : d.highlights[b] # None =>
               \A m \in Markers(rows, NoFilter) :
                 d.highlights[b] \in ToSet(m) /\ d.highlights[b].ranked
          /\ d.summary # None => d.summary.mentions = d.mentions
          /\ said <= d.mentions
          /\ \A a \in DOMAIN good \cup DOMAIN bad : count(good, a) + count(bad, a) <= d.mentions
          /\ \A r \in rows : \A s \in Snippets(input.mentions, r.restaurant) :
               ToSet(s) \subseteq Visible(input.mentions)

SuggestedFirst(term) ==
  LET close == Closest(input.dishes, term)
  IN  term # <<>> /\ Letters[term] >= 3 /\ close # {} => Suggest(input.dishes, {}, term, 1)[1] \in close

\* A filter that was set holds of everything a search answers with, whatever the text says:
\* a place above the price set, or of another area, is never listed, and an active dish that was
\* picked is the one answered for; and the dish that a misspelt search ends with is the first
\* that typing it suggests (_merge_filters, _resolve_dish, search, suggest).
SearchObeysFilters ==
  Is("search") =>
    LET f == input.filter
        picked == {d \in input.dishes : d.active /\ d.slug = f.dish}
    IN  /\ \A answer \in SearchAnswers(input.dishes, input.rows, f) :
             /\ \A i \in DOMAIN answer.restaurants : Admits(f, answer.restaurants[i])
             /\ answer.intent # "dish" => answer.restaurants = <<>>
             /\ picked # {} /\ answer.intent # "invalid" => answer.dishes = {f.dish}
        /\ SuggestedFirst(ParseQuery(f.q).dish)

Understood(parsed) == \A field \in DOMAIN input.says : parsed[field] = input.says[field]

\* A query made of one phrase of each kind, in any order, is understood phrase by phrase: no
\* phrase is taken for another, and none leaks into the dish (parse_query).
SignalsFound ==
  Is("query") => Understood(ParseQuery(input.words))

-----------------------------------------------------------------------------
(* Texts. *)

\* Two opinions joined by a contrast stay apart: each dish and each aspect of the visit is judged
\* by its own clause, as if that clause were the whole review, and the whole review lies between
\* them (split_clauses, extract_dish_mentions, _overall_sentiment, _review_aspects).
ClausesApart ==
  Is("text") =>
    LET first == ExtractDishMentions(input.first, input.aliases)
        second == ExtractDishMentions(input.second, input.aliases)
        text == input.first \o <<input.break>> \o input.second
        both == ExtractDishMentions(text, input.aliases)
        means == {OverallSentiment(input.first, None), OverallSentiment(input.second, None)} \ {None}
        felt == ReviewAspects(text)
    IN  /\ {h.dish : h \in both} = {h.dish : h \in first \cup second}
        /\ both \subseteq first \cup second
        /\ \A h \in both : \A g \in first \cup second :
             g.dish = h.dish => g.confidence <= h.confidence
        /\ OverallSentiment(text, None) \in (IF means = {} THEN {None}
                                             ELSE (Min(means) - 1)..(Max(means) + 1))
        /\ \A a \in DOMAIN felt : \E t \in {input.first, input.second} :
             a \in DOMAIN ReviewAspects(t) /\ ReviewAspects(t)[a] = felt[a]

\* The extraction is a floor under a model: a dish that it finds with enough confidence is
\* still among the dishes stored after the merge and the grounding, unless the model itself
\* doubts it; and a dish is stored only if the text has words for it, or if the model gave it two
\* names and only the other one, of another dish or of none, is in the text
\* (_merge_with_heuristic, enforce_grounding, _resolve_dish).
ExtractionIsFloor ==
  Is("review") =>
    LET found == {m \in HeuristicMentions(input.text, input.aliases) :
                    m.confidence >= MIN_CONFIDENCE}
        merged == MergeMentions(input.model, HeuristicMentions(input.text, input.aliases))
        kept == EnforceGrounding(merged, input.text, {}, input.aliases)
        stored == {ResolveMentionedDish(m, input.aliases) : m \in kept}
        other(n) == IF n.alias \in DOMAIN input.aliases THEN n.name ELSE n.alias
    IN  /\ \A m \in found :
             \/ input.aliases[m.alias] \in stored
             \/ \E n \in input.model : Key(n) = m.alias /\ n.confidence < MIN_CONFIDENCE
        /\ \A d \in stored :
             \/ \E a \in DOMAIN input.aliases : input.aliases[a] = d /\ SnippetGrounded(a, input.text)
             \/ \E n \in input.model :
                  /\ ResolveMentionedDish(n, input.aliases) = d
                  /\ other(n) # None /\ SnippetGrounded(other(n), input.text)
                  /\ other(n) \in DOMAIN input.aliases => input.aliases[other(n)] # d

\* No two dishes are as much talked about and as well liked.
NoTies(labels) ==
  \A l, m \in labels : l.mentions = m.mentions /\ l.sentiment = m.sentiment => l = m

\* The chips of a restaurant are a function of the evidence and not of the order in which the
\* database returns the dishes, as long as no two dishes tie (build_food_dna).
DnaOrderFree ==
  Is("dna") /\ NoTies(ToSet(input.data.labels)) =>
    \A labels \in SetToSeqs(ToSet(input.data.labels)) :
      BuildFoodDna([input.data EXCEPT !.labels = labels]) = BuildFoodDna(input.data)
=============================================================================
