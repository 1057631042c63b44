---------------------------- MODULE QueryParsing ----------------------------
(***************************************************************************)
(* What a free-text food query asks for (services/query_parser.py).  A     *)
(* query is a sequence of normalised words, numbers included.  A phrase    *)
(* that is recognised is cut out and leaves a gap, so that the words on its*)
(* two sides never make a phrase together.  The terms of a table are tried *)
(* longest first and only the first one found is taken.                    *)
(***************************************************************************)
EXTENDS Common, Integers, Sequences, FiniteSets, SequencesExt

CONSTANTS
  Areas, Cuisines,           \* sets of phrases
  Dietary, Moods,            \* functions from phrases to values
  Length,                    \* characters of a phrase
  Cheap, Premium, Superlative, NearMe,   \* sets of phrases
  UnderWords, OverWords,     \* words that put a price above or below
  PlaceWords,                \* near, in, at, around
  Noise,                     \* words no dish is named by
  Inside,                    \* pairs <<term, word>>: the term is part of the longer word
  Amount,                    \* what the words that are numbers stand for
  CHEAP_PRICE                \* 300

Gap == ""
Price(w) == w \in DOMAIN Amount
Word(w) == w # Gap /\ ~Price(w)

Occurs(phrase, words, i) ==
  i + Len(phrase) - 1 <= Len(words) /\ SubSeq(words, i, i + Len(phrase) - 1) = phrase

Has(words, phrase) == \E i \in DOMAIN words : Occurs(phrase, words, i)

\* A flag term is looked for anywhere in the text, inside longer words as well.
Mentions(words, terms) ==
  \E t \in terms : Has(words, t) \/ \E w \in ToSet(words) : <<t, w>> \in Inside

Blank(words, cut) == [i \in DOMAIN words |-> IF i \in cut THEN Gap ELSE words[i]]

CutAll(words, phrases) ==
  Blank(words, {i \in DOMAIN words : \E p \in phrases : \E j \in 1..i :
                                       Occurs(p, words, j) /\ i < j + Len(p)})

Cut(words, phrase) == CutAll(words, {phrase})

\* Mutant of Found: takes a shorter term that is part of a longer one.
FoundShortest(words, terms) ==
  LET there == {t \in terms : Has(words, t)}
  IN  IF there = {} THEN None
      ELSE CHOOSE t \in there : \A u \in there : Length[t] <= Length[u]

Found(words, terms) ==
  LET there == {t \in terms : Has(words, t)}
  IN  IF there = {} THEN None
      ELSE CHOOSE t \in there : \A u \in there : Length[u] <= Length[t]

-----------------------------------------------------------------------------
(* Prices. *)

\* The next word after i, gaps skipped; 0 at the end.
After(words, i) ==
  LET later == {j \in (i + 1)..Len(words) : words[j] # Gap}
  IN  IF later = {} THEN 0 ELSE CHOOSE j \in later : \A k \in later : j <= k

Then(words, i) == IF i = 0 THEN 0 ELSE After(words, i)

\* The first of these words with a price after it, or 0.
Bounding(words, markers) ==
  LET at == {i \in DOMAIN words : /\ words[i] \in markers /\ After(words, i) # 0
                                  /\ Price(words[After(words, i)])}
  IN  IF at = {} THEN 0 ELSE CHOOSE i \in at : \A j \in at : i <= j

\* "between", a price, "and" or "to", a price: the places where the four stand.
Between(words, i, a, b, c) ==
  /\ words[i] = "between" /\ 0 \notin {a, b, c}
  /\ Price(words[a]) /\ words[b] \in {"and", "to"} /\ Price(words[c])

Ranges(words) ==
  {t \in {<<i, After(words, i), Then(words, After(words, i)),
            Then(words, Then(words, After(words, i)))>> : i \in DOMAIN words} :
     Between(words, t[1], t[2], t[3], t[4])}

-----------------------------------------------------------------------------
(* The stages: each takes a query with the words not yet understood, and fills what it finds. *)

Empty == [dish |-> <<>>, cuisine |-> None, area |-> None, min |-> None, max |-> None,
          dietary |-> None, mood |-> None, near_me |-> FALSE, superlative |-> FALSE,
          band |-> None, intent |-> "empty"]

Start(raw) == [Empty EXCEPT !.superlative = Mentions(raw, Superlative)] @@ [words |-> raw]

TakeNearMe(q) ==
  IF Mentions(q.words, NearMe)
  THEN [q EXCEPT !.near_me = TRUE, !.words = CutAll(@, NearMe)] ELSE q

\* The price after the word at i, if there is one.
TakeBound(q, field, i, price) ==
  IF i = 0 THEN q
  ELSE [q EXCEPT ![field] = Amount[q.words[price]], !.words = Blank(@, {i, price})]

TakeOne(q, field, i) == TakeBound(q, field, i, After(q.words, i))
TakeUnder(q) == TakeOne(q, "max", Bounding(q.words, UnderWords))
TakeOver(q) == TakeOne(q, "min", Bounding(q.words, OverWords))

TakeRange(q, t) ==
  [q EXCEPT !.min = Amount[q.words[t[2]]], !.max = Amount[q.words[t[4]]],
            !.words = Blank(@, t[1]..t[4])]

TakePrices(q) ==
  IF Ranges(q.words) = {} THEN TakeOver(TakeUnder(q))
  ELSE TakeRange(q, CHOOSE t \in Ranges(q.words) : \A u \in Ranges(q.words) : t[1] <= u[1])

\* The words stay.
TakeBand(q) ==
  IF Mentions(q.words, Cheap)
  THEN [q EXCEPT !.band = "cheap", !.max = IF @ = None THEN CHEAP_PRICE ELSE @]
  ELSE IF Mentions(q.words, Premium) THEN [q EXCEPT !.band = "premium"] ELSE q

\* A place nobody listed: all there is after the first "near", "in", "at" or "around", but noise.
TakeAfter(q, first, named) ==
  IF named = <<>> THEN q ELSE [q EXCEPT !.area = named, !.words = SubSeq(@, 1, first - 1)]

TakeNamed(q, first) ==
  TakeAfter(q, first, SelectSeq(SubSeq(q.words, first + 1, Len(q.words)),
                                LAMBDA w : w # Gap /\ w \notin Noise))

TakeUnknown(q, at) ==
  IF at = {} THEN q ELSE TakeNamed(q, CHOOSE i \in at : \A j \in at : i <= j)

\* A term that was found, and what it stands for.
TakeTerm(q, field, term, value) ==
  IF term = None THEN q ELSE [q EXCEPT ![field] = value[term], !.words = Cut(@, term)]

Itself(terms) == [t \in terms |-> t]

TakePlace(q) ==
  IF Found(q.words, Areas) = None
  THEN TakeUnknown(q, {i \in 1..(Len(q.words) - 1) : q.words[i] \in PlaceWords})
  ELSE TakeTerm(q, "area", Found(q.words, Areas), Itself(Areas))

TakeDietary(q) == TakeTerm(q, "dietary", Found(q.words, DOMAIN Dietary), Dietary)
TakeMood(q) == TakeTerm(q, "mood", Found(q.words, DOMAIN Moods), Moods)
TakeCuisine(q) == TakeTerm(q, "cuisine", Found(q.words, Cuisines), Itself(Cuisines))

\* Whatever is left is the dish.
NameDish(q) == [q EXCEPT !.dish = SelectSeq(q.words, LAMBDA w : Word(w) /\ w \notin Noise)]

Intend(q) ==
  [q EXCEPT !.intent = IF q.dish # <<>> THEN "dish"
                       ELSE IF q.cuisine # None THEN "cuisine"
                       ELSE IF q.mood # None THEN "mood"
                       ELSE IF q.area # None THEN "area" ELSE "browse"]

ParseQuery(raw) ==
  IF raw = <<>> THEN Start(raw)
  ELSE Intend(NameDish(TakeCuisine(TakeMood(TakeDietary(TakePlace(TakeBand(TakePrices(
         TakeNearMe(Start(raw))))))))))
=============================================================================
