----------------------------- MODULE Collections -----------------------------
EXTENDS Integers, SequencesExt

\* [x for x in s if x in S].  It takes a set and not an operator, so that one lemma serves every list.
Among(s, S) == FoldLeft(LAMBDA kept, x : IF x \in S THEN Append(kept, x) ELSE kept, <<>>, s)
=============================================================================
