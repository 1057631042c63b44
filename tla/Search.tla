------------------------------- MODULE Search -------------------------------
(***************************************************************************)
(* The search (services/search_service.py): explicit filters are merged    *)
(* with what the text says, the text's dish is looked up, and the answer is*)
(* the restaurants ranked for that dish, or the dishes that match.         *)
(* A request is the filters of its URL (schemas/search.py), with the words *)
(* of q; NULL and the empty string are both None.                          *)
(***************************************************************************)
EXTENDS Listing, QueryParsing

CONSTANTS
  Aliases,                 \* a function from alias to the slug of its dish
  Similarity(_, _),        \* pg_trgm similarity of a dish's name and a term, in hundredths
  Letters                  \* the length of a term

-----------------------------------------------------------------------------
(* Filters. *)

ValidFilters(f) ==
  /\ f.min = None \/ f.max = None \/ f.min <= f.max
  /\ f.sort = "distance" => f.located

Or(a, b) == IF a = None THEN b ELSE a

\* Mutant of MergeFilters: lets what was typed override the filters that were set.
MergeTyped(f, parsed) ==
  [f EXCEPT !.max = Or(parsed.max, @), !.min = Or(parsed.min, @), !.area = Or(parsed.area, @),
            !.cuisine = Or(parsed.cuisine, @), !.dietary = Or(parsed.dietary, @),
            !.mood = Or(parsed.mood, @),
            !.radius = IF parsed.near_me /\ f.located THEN NEAR_ME ELSE @]

\* Explicit filters win, and the text only fills the gaps.
MergeFilters(f, parsed) ==
  [f EXCEPT !.max = Or(@, parsed.max), !.min = Or(@, parsed.min), !.area = Or(@, parsed.area),
            !.cuisine = Or(@, parsed.cuisine), !.dietary = Or(@, parsed.dietary),
            !.mood = Or(@, parsed.mood),
            !.radius = IF parsed.near_me /\ f.radius = None /\ f.located THEN NEAR_ME ELSE @]

-----------------------------------------------------------------------------
(* The dish that is asked for: by slug, by name, by alias, then by similarity. *)

ActiveDish(dishes, key(_)) == {d \in dishes : d.active /\ key(d)}

Closest(dishes, term) ==
  LET near == ActiveDish(dishes, LAMBDA d : Similarity(d.name, term) > 45)
  IN  {d \in near : \A e \in near : Similarity(e.name, term) <= Similarity(d.name, term)}

\* The dishes the lookup may end with; none when the text names no dish or a very short one.
ResolveDish(dishes, f, parsed) ==
  LET explicit == ActiveDish(dishes, LAMBDA d : f.dish # None /\ d.slug = f.dish)
      term == parsed.dish
      named == ActiveDish(dishes, LAMBDA d : d.name = term)
      aliased == ActiveDish(dishes, LAMBDA d : term \in DOMAIN Aliases /\ d.slug = Aliases[term])
  IN  IF explicit # {} THEN explicit
      ELSE IF term = <<>> \/ Letters[term] < 3 THEN {}
      ELSE IF named # {} THEN named
      ELSE IF aliased # {} THEN aliased
      ELSE Closest(dishes, term)

\* Typeahead: similar dishes, then similar restaurants, at most limit of each.
Suggest(dishes, places, term, limit) ==
  LET close(x) == Similarity(x.name, term) > 30
      first(S) == Slice(CHOOSE s \in Orders(S, LAMBDA a, b : Similarity(a.name, term)
                                                               > Similarity(b.name, term)) : TRUE,
                        1, limit)
  IN  IF term = <<>> \/ Letters[term] < 2 THEN <<>>
      ELSE first(ActiveDish(dishes, close)) \o first({p \in places : p.open /\ close(p)})

-----------------------------------------------------------------------------
(* The answers a search may give: a refusal, a dish's restaurants, or dishes. *)

Refused == [intent |-> "invalid", restaurants |-> <<>>, dishes |-> {}, total |-> 0]

DishAnswers(rows, dish, f) ==
  {LET page == DishPage(list, f.page, f.size)
   IN  [intent |-> "dish", restaurants |-> page.ranked \o page.insufficient, dishes |-> {dish.slug},
        total |-> RankedTotal({r \in rows : r.dish = dish.slug})]
     : list \in Lists({r \in rows : r.dish = dish.slug}, f, f.sort)}

BrowseAnswers(dishes, rows, f, parsed) ==
  LET found == SearchDishes({d \in dishes : \/ f.q = <<>> \/ Letters[f.q] < 2
                                           \/ Similarity(d.name, f.q) > 30}, rows, f)
  IN  {[intent |-> IF f.q = <<>> THEN "browse" ELSE parsed.intent, restaurants |-> <<>>,
        dishes |-> ToSet(Slice(s, f.page, f.size)), total |-> Len(s)]
         : s \in DishOrders(found, rows, f)}

ResolvedAnswers(dishes, rows, f, parsed, resolved) ==
  IF ~ValidFilters(f) THEN {Refused}
  ELSE IF resolved # {} THEN UNION {DishAnswers(rows, d, f) : d \in resolved}
  ELSE BrowseAnswers(dishes, rows, f, parsed)

MergedAnswers(dishes, rows, f, parsed) ==
  ResolvedAnswers(dishes, rows, f, parsed, ResolveDish(dishes, f, parsed))

ParsedAnswers(dishes, rows, f, parsed) ==
  MergedAnswers(dishes, rows, MergeFilters(f, parsed), parsed)

SearchAnswers(dishes, rows, f) ==
  IF ValidFilters(f) THEN ParsedAnswers(dishes, rows, f, ParseQuery(f.q)) ELSE {Refused}
=============================================================================
