------------------------------ MODULE Listing ------------------------------
(***************************************************************************)
(* The public reads over stored scores: the restaurants of a dish, with    *)
(* their filters, orders and pages, the dish page, the map, the dish cards *)
(* and the search over dishes, and a restaurant's dishes and reviews       *)
(* (services/dish_service.py, search_service.py, restaurant_service.py).   *)
(* A score row carries the columns of its restaurant that a read joins.    *)
(* Where the database may return equal rows in any order, the operator     *)
(* gives the set of the answers it may return.                             *)
(***************************************************************************)
EXTENDS Common, Collections, Integers, Sequences, FiniteSets, FiniteSetsExt, SequencesExt

CONSTANTS
  DETAIL_PAGE,     \* rows the dish page reads (50)
  TOP,             \* restaurants its score averages (10)
  MAP_LIMIT,       \* markers (300)
  SNIPPETS,        \* snippets per ranked restaurant (2)
  MIN_SUMMARY,     \* mentions a summary needs (3)
  NEAR_ME          \* the radius "near me" stands for (3000)

ASSUME ListingAssumption == {DETAIL_PAGE, TOP, MAP_LIMIT, SNIPPETS} \subseteq Nat \ {0}

NoFilter == [max |-> None, min |-> None, area |-> None, trend |-> None, radius |-> None,
             located |-> FALSE, cuisine |-> None]

-----------------------------------------------------------------------------
(* Orders.  before(a, b) says that a comes before b whatever the tie.      *)

Orders(S, before(_, _)) ==
  {s \in SetToSeqs(S) : \A i \in DOMAIN s : \A j \in 1..(i - 1) : ~before(s[i], s[j])}

Ascending(x, y) == x # None /\ (y = None \/ x < y)        \* NULLS LAST
Descending(x, y) == x # None /\ (y = None \/ x > y)       \* DESC NULLS LAST
Newest(x, y) == y # None /\ (x = None \/ x > y)           \* DESC: the database puts NULL first

\* The offset of a page is the size of the pages before it.
Slice(s, page, size) ==
  SubSeq(s, (page - 1) * size + 1, IF page * size > Len(s) THEN Len(s) ELSE page * size)

\* Mutant of HasMore: counts the page after this one as already shown.
HasMoreNext(page, size, total) == (page + 1) * size < total

HasMore(page, size, total) == page * size < total

-----------------------------------------------------------------------------
(* The restaurants of a dish. *)

\* NULL compares with nothing, so a bound drops the rows without a price.
Admits(f, r) ==
  /\ f.max = None \/ (r.price # None /\ r.price <= f.max)
  /\ f.min = None \/ (r.price # None /\ r.price >= f.min)
  /\ f.area = None \/ r.area = f.area
  /\ f.trend = None \/ r.trend = f.trend
  /\ ~f.located \/ f.radius = None \/ r.distance <= f.radius

Matching(rows, f) == {r \in rows : r.open /\ Admits(f, r)}

ByScore(a, b) == \/ a.ranked /\ ~b.ranked
                 \/ a.ranked = b.ranked /\ Descending(a.score, b.score)

Before(sort, located, a, b) ==
  CASE sort = "distance" /\ located -> a.distance < b.distance
    [] sort = "price"               -> Ascending(a.price, b.price)
    [] sort = "trending"            -> Descending(a.delta, b.delta)
    [] OTHER                        -> ByScore(a, b)

\* The total a list reports: every ranked row, whatever the filters, closed places too.
RankedTotal(rows) == Cardinality({r \in rows : r.ranked})

Lists(rows, f, sort) ==
  Orders(Matching(rows, f), LAMBDA a, b : Before(sort, f.located, a, b))

\* A page in two buckets, so that thin evidence is never interleaved with the ranking.
DishPage(list, page, size) ==
  LET rows == Slice(list, page, size)
  IN  [ranked |-> Among(rows, {r \in ToSet(rows) : r.ranked}),
       insufficient |-> Among(rows, {r \in ToSet(rows) : ~r.ranked})]

-----------------------------------------------------------------------------
(* The dish page, the map and the cards. *)

Average(S, column(_)) ==
  LET known == {r \in S : column(r) # None}
  IN  IF known = {} THEN None
      ELSE SumFunction([r \in known |-> column(r)]) \div Cardinality(known)

FirstWith(badge, ranked) ==
  LET holders == Among(ranked, {r \in ToSet(ranked) : badge \in r.badges})
  IN  IF holders = <<>> THEN None ELSE holders[1]

Highlights(ranked) ==
  [top |-> IF ranked = <<>> THEN None ELSE ranked[1],
   best_value |-> FirstWith("best_value", ranked),
   hidden_gem |-> FirstWith("hidden_gem", ranked),
   most_consistent |-> FirstWith("most_consistent", ranked)]

\* Only published, original reviews speak for a dish.
Visible(mentions) == {m \in mentions : m.published /\ ~m.duplicate}

\* The most confident snippets of a pair, the newest of equals; an undated one counts as newest.
Snippets(mentions, restaurant) ==
  {Slice(s, 1, SNIPPETS) : s \in
     Orders({m \in Visible(mentions) : m.restaurant = restaurant /\ m.snippet},
            LAMBDA a, b : \/ a.confidence > b.confidence
                          \/ a.confidence = b.confidence /\ Newest(a.at, b.at))}

\* How often each attribute is said, with a sentiment of zero on the good side.
AttributeCounts(mentions, good) ==
  LET said == {m \in Visible(mentions) : (m.sentiment >= 0) = good}
  IN  [a \in UNION {m.attributes : m \in said} |-> Cardinality({m \in said : a \in m.attributes})]

Summary(mentions, rows) ==
  LET visible == Visible(mentions)
  IN  IF Cardinality(visible) < MIN_SUMMARY THEN None
      ELSE [mentions |-> Cardinality(visible), ranked |-> RankedTotal(rows),
            positive |-> (100 * Cardinality({m \in visible : m.sentiment > 0}))
                           \div Cardinality(visible)]

\* Mentions and positive ones by period, of the periods recent enough.
RecentSignals(mentions, cutoff) ==
  LET dated == {m \in Visible(mentions) : m.at # None /\ m.at >= cutoff}
  IN  [p \in {m.at : m \in dated} |->
         [mentions |-> Cardinality({m \in dated : m.at = p}),
          positive |-> Cardinality({m \in dated : m.at = p /\ m.sentiment > 0})]]

Details(rows, mentions) ==
  {LET ranked == DishPage(list, 1, DETAIL_PAGE).ranked
   IN  [score |-> Average(ToSet(Slice(ranked, 1, TOP)), LAMBDA r : r.score),
        status |-> ranked # <<>>, highlights |-> Highlights(ranked),
        mentions |-> Cardinality(Visible(mentions)), restaurants |-> RankedTotal(rows),
        summary |-> Summary(mentions, rows)]
     : list \in Lists(rows, NoFilter, "score")}

\* The map orders by score alone and takes thin rows too.
Markers(rows, f) ==
  {Slice(s, 1, MAP_LIMIT) : s \in Orders(Matching(rows, f),
                                         LAMBDA a, b : Descending(a.score, b.score))}

\* Mutant of CardRows: counts thin rows on the card.
CardRowsAll(rows) == rows

CardRows(rows) == {r \in rows : r.ranked}

DishCard(rows) ==
  LET ranked == CardRows(rows)
      prices == {r.price : r \in ranked} \ {None}
  IN  [score |-> Average(ranked, LAMBDA r : r.score),
       status |-> ranked # {}, restaurants |-> Cardinality(ranked),
       mentions |-> SumFunction([r \in ranked |-> r.mentions]),
       prices |-> IF prices = {} THEN None ELSE <<Min(prices), Max(prices)>>]

-----------------------------------------------------------------------------
(* Dishes by filters, with the price bounds on a dish's cheapest and dearest ranked row. *)

Suits(diet, dish) ==
  CASE diet \in {"veg", "vegan", "jain"} -> dish.veg # FALSE
    [] diet = "non_veg"                  -> dish.veg # TRUE
    [] OTHER                             -> TRUE

RowsOf(rows, d, f) ==
  {r \in CardRows(rows) : r.dish = d.slug /\ (f.trend = None \/ r.trend = f.trend)}

SearchDishes(matching, rows, f) ==
  {d \in matching :
     LET prices == {r.price : r \in RowsOf(rows, d, f)} \ {None}
     IN  /\ d.active /\ RowsOf(rows, d, f) # {} /\ Suits(f.dietary, d)
         /\ f.cuisine = None \/ d.cuisine = f.cuisine
         /\ f.max = None \/ (\E p \in prices : p <= f.max)
         /\ f.min = None \/ (\E p \in prices : p >= f.min)}

DishOrders(found, rows, f) ==
  LET mean(d, column(_)) == Average(RowsOf(rows, d, f), column)
  IN  Orders(found, LAMBDA a, b :
        CASE f.sort = "trending" ->
               Descending(mean(a, LAMBDA r : r.delta), mean(b, LAMBDA r : r.delta))
          [] f.sort = "price" ->
               Ascending(mean(a, LAMBDA r : r.price), mean(b, LAMBDA r : r.price))
          [] OTHER ->
               Descending(mean(a, LAMBDA r : r.score), mean(b, LAMBDA r : r.score)))

\* Dishes of a restaurant, ranked first: every row, and the total counts every row.
RestaurantDishes(rows) == Orders(rows, ByScore)

\* A restaurant's public reviews, newest first; the total counts the same set.
RestaurantReviews(reviews) ==
  Orders({v \in reviews : v.published /\ ~v.duplicate}, LAMBDA a, b : Newest(a.at, b.at))

\* The restaurants of a city, by overall score and then by name.
Restaurants(places, f) ==
  Orders({p \in places : /\ p.open
                         /\ f.area = None \/ p.area = f.area
                         /\ f.cuisine = None \/ f.cuisine \in p.cuisines},
         LAMBDA a, b : \/ Descending(a.score, b.score)
                       \/ a.score = b.score /\ a.name < b.name)

\* The lists a reader pages through, and the totals that say whether there is another page.
ListsOf(list, rows, f) ==
  CASE list = "dish"    -> Lists(rows, f, "score")
    [] list = "menu"    -> RestaurantDishes(rows)
    [] list = "reviews" -> RestaurantReviews(rows)
    [] list = "places"  -> Restaurants(rows, f)

TotalOf(list, rows, f) ==
  CASE list = "dish" -> RankedTotal(rows)
    [] list = "menu" -> Cardinality(rows)
    [] OTHER         -> Len(CHOOSE s \in ListsOf(list, rows, f) : TRUE)

Size(delta) == IF delta = None THEN None ELSE Abs(delta)

\* Rising or declining dishes; significant trends first, then the larger change.
Trending(metrics, direction, limit) ==
  {Slice(s, 1, limit) : s \in
     Orders({t \in metrics : t.direction = direction},
            LAMBDA a, b : \/ a.significant /\ ~b.significant
                          \/ a.significant = b.significant
                               /\ Descending(Size(a.delta), Size(b.delta)))}
=============================================================================
