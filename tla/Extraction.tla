----------------------------- MODULE Extraction -----------------------------
(***************************************************************************)
(* What is taken from a review's text: its clauses, their sentiment, the   *)
(* dishes each names (services/dish_extraction.py), the analysis a provider*)
(* gives (ai/heuristic.py, ai/providers.py) and the grounding that strips  *)
(* what the text does not support (ai/base.py).                            *)
(* A text is a sequence of normalised words; a contrast marker, the end of *)
(* a sentence, a price and a piece of markup are words.  Hundredths stand  *)
(* for reals.                                                              *)
(***************************************************************************)
EXTENDS Common, Collections, Integers, Sequences, FiniteSets, FiniteSetsExt, SequencesExt

CONSTANTS
  Breaks,              \* contrast markers and ends of sentences
  Markup,              \* links and marks that clean_text removes
  Lexicon,             \* a function from sentiment words to -100..100
  SetPhrases,          \* a sequence of <<phrase, value>>
  Negators, Intensifiers,      \* a set, and a function to hundredths
  Attributes, Aspects,         \* functions from a label to its set of phrases
  VISIT_ASPECTS,               \* aspects of the visit rather than of a dish
  PriceOf,             \* a function from price words to amounts
  Plurals,             \* pairs <<word, its plural>>
  Chars,               \* a function from alias to its number of characters
  MIN_CONFIDENCE, ALLOW_CREATION

-----------------------------------------------------------------------------
(* Clauses. *)

Clean(text) == Among(text, ToSet(text) \ Markup)

\* Mutant of ClauseBounds: splits at sentence ends only.
ClauseBoundsSentences(text) == {0, Len(text) + 1} \cup {i \in DOMAIN text : text[i] = "."}

ClauseBounds(text) == {0, Len(text) + 1} \cup {i \in DOMAIN text : text[i] \in Breaks}

\* What stands between two bounds that are not next to each other, by where it begins.
ClausesBetween(words, bounds) ==
  [i \in {b \in bounds : b <= Len(words) /\ b + 1 \notin bounds} |->
     SubSeq(words, i + 1, Min({j \in bounds : j > i}) - 1)]

Split(words) == ClausesBetween(words, ClauseBounds(words))
SplitClauses(text) == Split(Clean(text))

At(phrase, words, i) ==
  /\ i + Len(phrase) - 1 <= Len(words)
  /\ \A k \in DOMAIN phrase : words[i + k - 1] = phrase[k]

Says(words, phrase) == \E i \in DOMAIN words : At(phrase, words, i)

-----------------------------------------------------------------------------
(* Sentiment of a clause. *)

InUnit(x) == Max({-100, Min({100, x})})

\* Three words back, a negation and any intensifiers; a negated word is flipped and damped.
TokenScore(words, i) ==
  LET before == {j \in (i - 3)..(i - 1) : j >= 1}
      scale == FoldSet(LAMBDA j, v : IF words[j] \in DOMAIN Intensifiers
                                     THEN (v * Intensifiers[words[j]]) \div 100 ELSE v,
                       100, before)
      value == (Lexicon[words[i]] * scale) \div 100
  IN  InUnit(IF \E j \in before : words[j] \in Negators THEN -((value * 65) \div 100) ELSE value)

Feeling(s, c) == [sentiment |-> s, confidence |-> c]

\* The mean of the tokens' scores, each weighted by its strength.
WeighTokens(scores, weight) ==
  IF weight = 0 THEN 0
  ELSE InUnit(MapThenSumSet(LAMBDA t : t[2] * Abs(t[2]), scores) \div weight)

\* A set phrase decides; else the tokens of the lexicon, the surer the more there are.
ScoreTokens(scores) ==
  Feeling(WeighTokens(scores, MapThenSumSet(LAMBDA t : Abs(t[2]), scores)),
          IF scores = {} THEN 20 ELSE Min({90, 45 + 12 * Cardinality(scores)}))

ScorePhrases(words, said) ==
  IF said # <<>> THEN Feeling(said[1][2], 70)
  ELSE ScoreTokens({<<i, TokenScore(words, i)>> :
                      i \in {j \in DOMAIN words : words[j] \in DOMAIN Lexicon}})

ScoreClause(words) ==
  IF words = <<>> THEN Feeling(0, 0)
  ELSE ScorePhrases(words, SelectSeq(SetPhrases, LAMBDA p : Says(words, p[1])))

Labels(words, table) == {a \in DOMAIN table : \E p \in table[a] : Says(words, p)}

PricesIn(words) == {PriceOf[w] : w \in ToSet(words) \cap DOMAIN PriceOf}

-----------------------------------------------------------------------------
(* Dishes. *)

\* An alias matches where its words stand, the last perhaps in the plural.
Matches(alias, words, i) ==
  LET n == Len(alias)
  IN  /\ i + n - 1 <= Len(words)
      /\ \A k \in 1..(n - 1) : words[i + k - 1] = alias[k]
      /\ words[i + n - 1] = alias[n] \/ <<alias[n], words[i + n - 1]>> \in Plurals

Named(words, aliases) == {a \in DOMAIN aliases : \E i \in DOMAIN words : Matches(a, words, i)}

\* The first place an alias matches; the others are not looked at.
Span(alias, words) ==
  LET i == Min({j \in DOMAIN words : Matches(alias, words, j)})
  IN  i..(i + Len(alias) - 1)

\* The aliases that count: no longer one covers the place where they match.
Uncovered(words, named) ==
  {a \in named : \A b \in named : Chars[b] > Chars[a] => ~(Span(a, words) \subseteq Span(b, words))}

Credited(words, aliases) == Uncovered(words, Named(words, aliases))

\* What a clause says of the dish that these of its aliases name.
Observation(words, dish, names, feeling, prices) ==
  [dish |-> dish, snippet |-> words,
   alias |-> CHOOSE a \in names : \A b \in names : Chars[b] <= Chars[a],
   sentiment |-> feeling.sentiment, confidence |-> feeling.confidence,
   attributes |-> Labels(words, Attributes), aspects |-> Labels(words, Aspects),
   price |-> IF prices = {} THEN None ELSE Min(prices)]

Observed(k, words, aliases, credited) ==
  {<<k, Observation(words, d, {a \in credited : aliases[a] = d}, ScoreClause(words),
                    PricesIn(words))>> : d \in {aliases[a] : a \in credited}}

\* Of two clauses about a dish the more confident one, the first of equals.
Stronger(g, h) ==
  /\ g[2].dish = h[2].dish
  /\ \/ g[2].confidence > h[2].confidence
     \/ g[2].confidence = h[2].confidence /\ g[1] < h[1]

Strongest(hits) == {h[2] : h \in {x \in hits : \A g \in hits : ~Stronger(g, x)}}

Hits(clauses, aliases) ==
  UNION {Observed(k, clauses[k], aliases, Credited(clauses[k], aliases)) : k \in DOMAIN clauses}

\* One observation per dish: the first of its most confident clauses, by its longest alias.
ExtractDishMentions(text, aliases) == Strongest(Hits(SplitClauses(text), aliases))

-----------------------------------------------------------------------------
(* The analysis of a provider. *)

Recommendation(sentiment) ==
  IF sentiment >= 50 THEN TRUE ELSE IF sentiment <= -40 THEN FALSE ELSE None

\* The clauses with what was felt in each.
Felt(clauses) ==
  {[at |-> k, words |-> clauses[k], feeling |-> ScoreClause(clauses[k])] : k \in DOMAIN clauses}

Overall(felt, weight) ==
  IF weight = 0 THEN None
  ELSE InUnit(MapThenSumSet(LAMBDA c : c.feeling.sentiment * c.feeling.confidence, felt) \div weight)

ClausesOverall(felt) == Overall(felt, MapThenSumSet(LAMBDA c : c.feeling.confidence, felt))

\* A star rating, already on -100..100, is preferred to the clauses' weighted mean.
OverallSentiment(text, rating) ==
  IF rating # None THEN InUnit(rating) ELSE ClausesOverall(Felt(SplitClauses(text)))

Surest(clauses) ==
  CHOOSE c \in clauses : \A d \in clauses \ {c} :
    \/ c.feeling.confidence > d.feeling.confidence
    \/ c.feeling.confidence = d.feeling.confidence /\ c.at < d.at

\* Aspects of the visit, each by its most confident clause, the first of equals.
Naming(felt, a) == {c \in felt : c.feeling.confidence > 20 /\ a \in Labels(c.words, Aspects)}

AspectsFelt(felt) ==
  [a \in {b \in VISIT_ASPECTS \cap DOMAIN Aspects : Naming(felt, b) # {}} |->
     Surest(Naming(felt, a)).feeling.sentiment]

ReviewAspects(text) == AspectsFelt(Felt(SplitClauses(text)))

HeuristicMentions(text, aliases) ==
  {[name |-> h.alias, alias |-> h.alias, snippet |-> h.snippet, sentiment |-> h.sentiment,
    confidence |-> h.confidence, price |-> h.price,
    recommended |-> Recommendation(h.sentiment)] : h \in ExtractDishMentions(text, aliases)}

Key(m) == IF m.alias = None THEN m.name ELSE m.alias

\* Mutant of MergeMentions: the model's answer replaces the extraction.
MergeModelOnly(model, fallback) == model

\* The model's mentions, and the extraction's of dishes it does not name in the same words.
MergeMentions(model, fallback) ==
  model \cup {m \in fallback : \A n \in model : Key(n) # Key(m)}

-----------------------------------------------------------------------------
(* Grounding. *)

\* A quote stands in the text, or nine tenths of it in a row do.
SnippetGrounded(snippet, text) ==
  \E i, j \in DOMAIN snippet : \E k \in DOMAIN text :
    /\ 10 * (j - i + 1) >= 9 * Len(snippet)
    /\ Matches(SubSeq(snippet, i, j), text, k)

Resolved(m, known, aliases) ==
  m.name \in known \/ m.alias \in DOMAIN aliases \/ m.name \in DOMAIN aliases

Keeps(m, text, known, aliases) ==
  /\ m.confidence >= MIN_CONFIDENCE
  /\ Resolved(m, known, aliases) \/ (ALLOW_CREATION /\ m.confidence >= 80)
  /\ \/ SnippetGrounded(m.name, text)
     \/ m.alias # None /\ SnippetGrounded(m.alias, text)

Ground(m, text) ==
  [m EXCEPT !.snippet = IF @ # None /\ SnippetGrounded(@, text) THEN @ ELSE None,
            !.price = IF @ \in PricesIn(text) THEN @ ELSE None,
            !.recommended = IF \/ @ = TRUE /\ m.sentiment < 0
                               \/ @ = FALSE /\ m.sentiment > 30
                            THEN None ELSE @]

EnforceGrounding(mentions, text, known, aliases) ==
  {Ground(m, text) : m \in {n \in mentions : Keeps(n, text, known, aliases)}}

\* The dish a mention is stored for: by the alias, then by the name.
ResolveMentionedDish(m, aliases) ==
  IF m.alias \in DOMAIN aliases THEN aliases[m.alias]
  ELSE IF m.name \in DOMAIN aliases THEN aliases[m.name] ELSE None

=============================================================================
