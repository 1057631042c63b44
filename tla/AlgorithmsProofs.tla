-------------------------- MODULE AlgorithmsProofs --------------------------
(***************************************************************************)
(* Theorems about what the pure functions promise, for inputs of any size. *)
(* Induction goes by the least counterexample, stated once for sets of     *)
(* numbers and once for finite sets; from it come the laws of Among, of    *)
(* sums and of orders that the theorems rest on.                           *)
(***************************************************************************)
EXTENDS Algorithms, SequenceTheorems, FiniteSetTheorems, WellFoundedInduction, TLAPS

-----------------------------------------------------------------------------
(* Induction. *)

\* A set of numbers that holds 0 and with each number the next holds them all.
LEMMA Inductive ==
  ASSUME NEW P, 0 \in P, \A n \in Nat : n \in P => n + 1 \in P
  PROVE  Nat \subseteq P
<1> DEFINE R == {ss \in Nat \X Nat : ss[1] < ss[2]}
           Bad == Nat \ P
<1> SUFFICES ASSUME Bad # {} PROVE FALSE
  OBVIOUS
<1>1. IsWellFoundedOn(R, Nat)
  BY NatLessThanWellFounded DEF OpToRel
<1>2. PICK x \in Bad : \A y \in Bad : ~(<<y, x>> \in R)
  <2> HIDE DEF R
  <2> QED
    BY <1>1, WFMin
<1>3. x # 0 /\ x - 1 \in Nat /\ x - 1 < x
  OBVIOUS
<1>4. <<x - 1, x>> \in R
  BY <1>3
<1>5. x - 1 \in P
  BY <1>2, <1>3, <1>4
<1> QED
  BY <1>3, <1>5

\* A family of sets that holds {} and with each set also those of one element more holds
\* every finite set.
LEMMA InductiveOnSets ==
  ASSUME NEW T, IsFiniteSet(T), NEW F, {} \in F,
         \A S \in SUBSET T : \A x \in T \ S : S \in F => S \cup {x} \in F
  PROVE  \A S \in SUBSET T : S \in F
<1> DEFINE P == {n \in Nat : \A S \in SUBSET T : Cardinality(S) = n => S \in F}
<1>1. 0 \in P
  BY FS_Subset, FS_EmptySet
<1>2. ASSUME NEW n \in Nat, n \in P PROVE n + 1 \in P
  <2> SUFFICES ASSUME NEW S \in SUBSET T, Cardinality(S) = n + 1 PROVE S \in F
    OBVIOUS
  <2>1. IsFiniteSet(S) /\ S # {}
    BY FS_Subset, FS_EmptySet
  <2>2. PICK x \in S : TRUE
    BY <2>1
  <2>3. Cardinality(S \ {x}) = n
    <3>1. Cardinality(S \ {x}) = (n + 1) - 1
      BY ONLY <2>1, <2>2, FS_RemoveElement, Cardinality(S) = n + 1
    <3> QED
      BY <3>1
  <2>4. S \ {x} \in SUBSET T /\ x \in T \ (S \ {x}) /\ (S \ {x}) \cup {x} = S
    BY <2>2
  <2>5. S \ {x} \in F
    BY <1>2, <2>3, <2>4
  <2> QED
    BY <2>4, <2>5
<1>3. Nat \subseteq P
  <2> HIDE DEF P
  <2> QED
    BY <1>1, <1>2, Inductive
<1> QED
  BY <1>3, FS_Subset, FS_CardinalityType

\* A set of sequences that holds <<>> and with each sequence also those of one item more holds
\* every sequence.
LEMMA InductiveOnSeqs ==
  ASSUME NEW T, NEW F, <<>> \in F, \A s \in Seq(T) : \A x \in T : s \in F => Append(s, x) \in F
  PROVE  Seq(T) \subseteq F
<1> DEFINE P == {n \in Nat : \A s \in Seq(T) : Len(s) = n => s \in F}
<1>1. 0 \in P
  BY EmptySeq
<1>2. ASSUME NEW n \in Nat, n \in P PROVE n + 1 \in P
  <2> SUFFICES ASSUME NEW s \in Seq(T), Len(s) = n + 1 PROVE s \in F
    OBVIOUS
  <2>1. s # <<>>
    BY EmptySeq
  <2>2. PICK q \in Seq(T), x \in T : s = Append(q, x)
    BY <2>1, SequenceEmptyOrAppend
  <2>3. Len(q) = n
    BY <2>2, AppendProperties, LenProperties
  <2> QED
    BY <1>2, <2>2, <2>3
<1>3. Nat \subseteq P
  <2> HIDE DEF P
  <2> QED
    BY <1>1, <1>2, Inductive
<1> QED
  BY <1>3, LenProperties

LEMMA ToSetAppend ==
  ASSUME NEW T, NEW s \in Seq(T), NEW x \in T
  PROVE  ToSet(Append(s, x)) = ToSet(s) \cup {x}
<1>1. Len(s) \in Nat /\ DOMAIN s = 1..Len(s) /\ DOMAIN Append(s, x) = 1..(Len(s) + 1)
  BY LenProperties, AppendProperties
<1>2. (\A i \in 1..Len(s) : Append(s, x)[i] = s[i]) /\ Append(s, x)[Len(s) + 1] = x
  BY AppendProperties
<1>3. 1..(Len(s) + 1) = (1..Len(s)) \cup {Len(s) + 1}
  BY <1>1
<1> QED
  BY <1>1, <1>2, <1>3 DEF ToSet

-----------------------------------------------------------------------------
(* Orders.  A relation is a set of pairs: <<a, b>> says that a comes before b. *)

IsOrder(R, S) ==
  /\ \A a \in S : <<a, a>> \notin R
  /\ \A a, b, c \in S : <<a, b>> \in R /\ <<b, c>> \in R => <<a, c>> \in R

SortedBy(s, S, R) ==
  s \in SetToSeqs(S) /\ \A i \in DOMAIN s : \A j \in 1..(i - 1) : <<s[i], s[j]>> \notin R

\* A sequence of SetToSeqs(S) lists S, each element once.
LEMMA ListsAll ==
  ASSUME NEW S, IsFiniteSet(S), NEW s \in SetToSeqs(S)
  PROVE  /\ s \in [1..Cardinality(S) -> S] /\ Cardinality(S) \in Nat
         /\ s \in Seq(S) /\ DOMAIN s = 1..Len(s) /\ Len(s) = Cardinality(S)
         /\ \A i, j \in DOMAIN s : i # j => s[i] # s[j]
         /\ ToSet(s) = S
<1> DEFINE n == Cardinality(S)
<1>1. n \in Nat
  BY FS_CardinalityType
<1>2. s \in [1..n -> S] /\ \A i, j \in 1..n : i # j => s[i] # s[j]
  BY DEF SetToSeqs
<1>3. s \in Seq(S) /\ Len(s) = n /\ DOMAIN s = 1..n
  <2> HIDE DEF n
  <2> QED
    BY <1>1, <1>2
<1>4. ToSet(s) = S
  <2>1. IsFiniteSet(1..n) /\ Cardinality(1..n) = n
    <3> HIDE DEF n
    <3> QED
      BY <1>1, FS_Interval
  <2>2. s \in Injection(1..n, S)
    BY <1>2 DEF Injection, IsInjective
  <2>3. s \in Surjection(1..n, S)
    BY <2>1, <2>2, FS_Injection
  <2>4. QED
    BY <1>3, <2>3 DEF Surjection, ToSet
<1> QED
  BY <1>1, <1>2, <1>3, <1>4

\* Some element of a finite set comes before no other.
LEMMA LastExists ==
  ASSUME NEW S, IsFiniteSet(S), NEW R, IsOrder(R, S), NEW T \in SUBSET S, T # {}
  PROVE  \E m \in T : \A y \in T : <<m, y>> \notin R
<1> DEFINE F == {U \in SUBSET S : U = {} \/ \E m \in U : \A y \in U : <<m, y>> \notin R}
<1>1. {} \in F
  OBVIOUS
<1>2. ASSUME NEW U \in SUBSET S, NEW x \in S \ U, U \in F PROVE U \cup {x} \in F
  <2>1. CASE U = {}
    BY <2>1 DEF IsOrder
  <2>2. CASE U # {}
    <3>1. PICK m \in U : \A y \in U : <<m, y>> \notin R
      BY <1>2, <2>2
    <3>2. CASE <<m, x>> \in R
      <4>1. \A y \in U \cup {x} : <<x, y>> \notin R
        BY <3>1, <3>2 DEF IsOrder
      <4> QED
        BY <4>1
    <3>3. CASE <<m, x>> \notin R
      BY <3>1, <3>3
    <3> QED
      BY <3>2, <3>3
  <2> QED
    BY <2>1, <2>2
<1>3. T \in F
  <2> HIDE DEF F
  <2> QED
    BY <1>1, <1>2, InductiveOnSets
<1> QED
  BY <1>3

\* A finite set can be sorted.
LEMMA SortExists ==
  ASSUME NEW S, IsFiniteSet(S), NEW R, IsOrder(R, S)
  PROVE  \E s : SortedBy(s, S, R)
<1> DEFINE P == {n \in Nat : \A T \in SUBSET S : Cardinality(T) = n => \E s : SortedBy(s, T, R)}
<1>1. 0 \in P
  <2> SUFFICES ASSUME NEW T \in SUBSET S, Cardinality(T) = 0 PROVE SortedBy(<<>>, T, R)
    OBVIOUS
  <2>1. <<>> \in [1..0 -> T] /\ DOMAIN <<>> = {}
    OBVIOUS
  <2> QED
    BY <2>1 DEF SortedBy, SetToSeqs
<1>2. ASSUME NEW n \in Nat, n \in P PROVE n + 1 \in P
  <2> SUFFICES ASSUME NEW T \in SUBSET S, Cardinality(T) = n + 1 PROVE \E s : SortedBy(s, T, R)
    OBVIOUS
  <2>1. IsFiniteSet(T) /\ T # {}
    BY FS_Subset, FS_EmptySet
  <2>2. PICK m \in T : \A y \in T : <<m, y>> \notin R
    BY <2>1, LastExists
  <2>3. Cardinality(T \ {m}) = n
    <3>1. Cardinality(T \ {m}) = (n + 1) - 1
      BY ONLY <2>1, <2>2, FS_RemoveElement, Cardinality(T) = n + 1
    <3> QED
      BY <3>1
  <2>4. PICK s : SortedBy(s, T \ {m}, R)
    BY <1>2, <2>3
  <2>5. s \in [1..n -> T \ {m}] /\ \A i, j \in 1..n : i # j => s[i] # s[j]
    BY <2>3, <2>4 DEF SortedBy, SetToSeqs
  <2> DEFINE t == [i \in 1..(n + 1) |-> IF i = n + 1 THEN m ELSE s[i]]
  <2>6. t \in [1..(n + 1) -> T] /\ \A i, j \in 1..(n + 1) : i # j => t[i] # t[j]
    BY <2>5
  <2>7. \A i \in 1..(n + 1) : \A j \in 1..(i - 1) : <<t[i], t[j]>> \notin R
    <3> SUFFICES ASSUME NEW i \in 1..(n + 1), NEW j \in 1..(i - 1) PROVE <<t[i], t[j]>> \notin R
      OBVIOUS
    <3>1. CASE i = n + 1
      BY <2>2, <2>6, <3>1
    <3>2. CASE i # n + 1
      BY <2>4, <2>5, <3>2 DEF SortedBy
    <3> QED
      BY <3>1, <3>2
  <2>8. t \in SetToSeqs(T)
    BY <2>6 DEF SetToSeqs
  <2>9. DOMAIN t = 1..(n + 1)
    OBVIOUS
  <2>10. SortedBy(t, T, R)
    <3> HIDE DEF t
    <3> QED
      BY <2>7, <2>8, <2>9 DEF SortedBy
  <2> QED
    BY <2>10
<1>3. Nat \subseteq P
  <2> HIDE DEF P
  <2> QED
    BY <1>1, <1>2, Inductive
<1> QED
  BY <1>3, FS_CardinalityType

-----------------------------------------------------------------------------
(* Folds over the subsets of a finite set, and what is kept of a sequence. *)

\* A finite set of integers has a largest and a smallest element.
LEMMA Extremes ==
  ASSUME NEW S \in SUBSET Int, IsFiniteSet(S), S # {}
  PROVE  /\ Max(S) \in S /\ \A x \in S : x <= Max(S)
         /\ Min(S) \in S /\ \A x \in S : Min(S) <= x
<1> DEFINE Up == {ss \in Int \X Int : ss[1] < ss[2]}
           Down == {ss \in Int \X Int : ss[1] > ss[2]}
<1>1. IsOrder(Up, S) /\ IsOrder(Down, S)
  BY DEF IsOrder
<1>2. \A a, b \in S : (<<a, b>> \in Up <=> a < b) /\ (<<a, b>> \in Down <=> a > b)
  OBVIOUS
<1> HIDE DEF Up, Down
<1>3. \E m \in S : \A y \in S : m >= y
  <2>1. PICK m \in S : \A y \in S : <<m, y>> \notin Up
    BY <1>1, LastExists
  <2>2. \A y \in S : ~(m < y)
    BY <1>2, <2>1
  <2> QED
    BY <2>2
<1>4. \E m \in S : \A y \in S : m =< y
  <2>1. PICK m \in S : \A y \in S : <<m, y>> \notin Down
    BY <1>1, LastExists
  <2>2. \A y \in S : ~(m > y)
    BY <1>2, <2>1
  <2> QED
    BY <2>2
<1> QED
  BY <1>3, <1>4 DEF Max, Min

\* it[u] folds the elements of u, of which c picks the next.
IsFold(it, D, V, base, G, c) ==
  /\ it \in [SUBSET D -> V]
  /\ \A u \in SUBSET D : it[u] = IF u = {} THEN base ELSE G[<<c[u], it[u \ {c[u]}]>>]

Picks(c, D) == \A u \in SUBSET D : u # {} => c[u] \in u

\* What a fold over a finite set computes is well defined.
LEMMA FoldExists ==
  ASSUME NEW D, IsFiniteSet(D), NEW V, NEW base \in V, NEW G \in [D \X V -> V],
         NEW c, Picks(c, D)
  PROVE  \E it : IsFold(it, D, V, base, G, c)
<1> DEFINE Small(n) == {u \in SUBSET D : Cardinality(u) <= n}
           Fold(n, it) == \A u \in Small(n) :
                            it[u] = IF u = {} THEN base ELSE G[<<c[u], it[u \ {c[u]}]>>]
           P == {n \in Nat : \E it \in [Small(n) -> V] : Fold(n, it)}
<1>0. \A u \in SUBSET D : Cardinality(u) \in Nat /\ IsFiniteSet(u) /\ (Cardinality(u) = 0 <=> u = {})
  BY FS_Subset, FS_CardinalityType, FS_EmptySet
<1>1. 0 \in P
  <2> DEFINE it == [u \in Small(0) |-> base]
  <2>1. \A u \in Small(0) : u = {}
    BY <1>0
  <2>2. it \in [Small(0) -> V]
    OBVIOUS
  <2>3. Fold(0, it)
    BY <2>1
  <2> QED
    BY <2>2, <2>3
<1>2. ASSUME NEW n \in Nat, n \in P PROVE n + 1 \in P
  <2>1. PICK f \in [Small(n) -> V] : Fold(n, f)
    BY <1>2
  <2>2. \A u \in Small(n + 1) : u # {} => u \ {c[u]} \in Small(n)
    <3> SUFFICES ASSUME NEW u \in SUBSET D, Cardinality(u) <= n + 1, u # {}
                 PROVE  Cardinality(u \ {c[u]}) <= n
      OBVIOUS
    <3>1. c[u] \in u
      BY DEF Picks
    <3>2. Cardinality(u \ {c[u]}) = Cardinality(u) - 1
      BY <1>0, <3>1, FS_RemoveElement
    <3> QED
      BY <1>0, <3>2
  <2>3. Small(n) \subseteq Small(n + 1)
    BY <1>0
  <2> DEFINE it == [u \in Small(n + 1) |-> IF u = {} THEN base ELSE G[<<c[u], f[u \ {c[u]}]>>]]
  <2>4. \A u \in Small(n) : f[u] = IF u = {} THEN base ELSE G[<<c[u], f[u \ {c[u]}]>>]
    <3> HIDE DEF Small
    <3> QED
      BY <2>1
  <2>5. \A u \in Small(n) : it[u] = f[u]
    <3> HIDE DEF Small
    <3> QED
      BY <2>3, <2>4
  <2>6. it \in [Small(n + 1) -> V]
    <3> SUFFICES ASSUME NEW u \in Small(n + 1), u # {} PROVE G[<<c[u], f[u \ {c[u]}]>>] \in V
      OBVIOUS
    <3>1. c[u] \in D /\ f[u \ {c[u]}] \in V
      <4> HIDE DEF Fold
      <4> QED
        BY <2>1, <2>2 DEF Picks
    <3> QED
      BY <3>1
  <2>7. Fold(n + 1, it)
    <3>1. \A u \in Small(n + 1) : u # {} => it[u \ {c[u]}] = f[u \ {c[u]}]
      <4> HIDE DEF Small, it
      <4> QED
        BY <2>2, <2>5
    <3> HIDE DEF Small
    <3> QED
      BY <3>1
  <2> QED
    <3> HIDE DEF it, Fold, Small
    <3> QED
      BY <2>6, <2>7
<1>3. Cardinality(D) \in P
  <2> HIDE DEF P
  <2> QED
    BY <1>1, <1>2, Inductive, FS_CardinalityType
<1>4. Small(Cardinality(D)) = SUBSET D
  BY FS_Subset
<1> QED
  <2> HIDE DEF Small
  <2>1. PICK it \in [Small(Cardinality(D)) -> V] : Fold(Cardinality(D), it)
    BY <1>3
  <2> QED
    BY <1>4, <2>1 DEF IsFold

\* g[k] is what is kept of the first k items of s.
Grows(g, s, S) ==
  /\ g[0] = <<>> /\ g[Len(s)] = Among(s, S)
  /\ \A k \in 1..Len(s) : g[k] = IF s[k] \in S THEN Append(g[k - 1], s[k]) ELSE g[k - 1]

LEMMA AmongGrows ==
  ASSUME NEW T, NEW s \in Seq(T), NEW S
  PROVE  \E g \in [0..Len(s) -> Seq(T)] : Grows(g, s, S)
<1> DEFINE n == Len(s)
           D == 1..n
           V == Seq(T)
           G == [pair \in D \X V |-> IF s[pair[1]] \in S THEN Append(pair[2], s[pair[1]]) ELSE pair[2]]
           c == [u \in SUBSET D |-> Max(u)]
           Fold(it) == it = [u \in SUBSET D |->
             IF u = {} THEN <<>>
             ELSE IF s[Max(u)] \in S THEN Append(it[u \ {Max(u)}], s[Max(u)]) ELSE it[u \ {Max(u)}]]
<1>1. n \in Nat /\ IsFiniteSet(D) /\ DOMAIN s = D
  BY LenProperties, FS_Interval
<1>2. \A u \in SUBSET D : u # {} => Max(u) \in u /\ \A x \in u : x <= Max(u)
  <2> SUFFICES ASSUME NEW u \in SUBSET D, u # {} PROVE Max(u) \in u /\ \A x \in u : x <= Max(u)
    OBVIOUS
  <2>1. D \subseteq Int
    OBVIOUS
  <2>2. u \in SUBSET Int /\ IsFiniteSet(u)
    <3> HIDE DEF D
    <3> QED
      BY <1>1, <2>1, FS_Subset
  <2> QED
    BY <2>2, Extremes
<1>3. G \in [D \X V -> V]
  OBVIOUS
<1>4. PICK it : IsFold(it, D, V, <<>>, G, c)
  <2>1. <<>> \in V
    OBVIOUS
  <2>2. Picks(c, D)
    BY <1>2 DEF Picks
  <2> HIDE DEF D, V, G, c
  <2> QED
    BY <1>1, <1>3, <2>1, <2>2, FoldExists
<1>5. Fold(it)
  <2>1. \A u \in SUBSET D : u # {} =>
          G[<<c[u], it[u \ {c[u]}]>>]
            = IF s[Max(u)] \in S THEN Append(it[u \ {Max(u)}], s[Max(u)]) ELSE it[u \ {Max(u)}]
    <3> SUFFICES ASSUME NEW u \in SUBSET D, u # {}
                 PROVE  G[<<Max(u), it[u \ {Max(u)}]>>]
                          = IF s[Max(u)] \in S THEN Append(it[u \ {Max(u)}], s[Max(u)])
                            ELSE it[u \ {Max(u)}]
      OBVIOUS
    <3>1. Max(u) \in D /\ it[u \ {Max(u)}] \in V
      BY <1>2, <1>4 DEF IsFold
    <3> HIDE DEF D, V
    <3> QED
      BY <3>1
  <2>2. \A u \in SUBSET D : c[u] = Max(u)
    OBVIOUS
  <2>3. \A u \in SUBSET D : it[u] =
          IF u = {} THEN <<>>
          ELSE IF s[Max(u)] \in S THEN Append(it[u \ {Max(u)}], s[Max(u)]) ELSE it[u \ {Max(u)}]
    <3> HIDE DEF D, V, G, c
    <3> QED
      BY <1>4, <2>1, <2>2 DEF IsFold
  <2>4. it \in [SUBSET D -> V]
    BY <1>4 DEF IsFold
  <2> HIDE DEF D, V, G, c
  <2> QED
    BY <2>3, <2>4
<1>6. PICK f : Fold(f) /\ Among(s, S) = f[D]
  <2> HIDE DEF Fold
  <2>1. Among(s, S) = (CHOOSE f : Fold(f))[D]
    BY <1>1 DEF Among, FoldLeft, MapThenFoldSet, Fold
  <2> QED
    BY <1>5, <2>1
<1> DEFINE g == [k \in 0..n |-> f[1..k]]
<1>7. g[0] = <<>> /\ g[n] = Among(s, S)
  <2>1. 1..0 = {} /\ {} \in SUBSET D
    OBVIOUS
  <2>2. f[{}] = <<>>
    <3> HIDE DEF D
    <3> QED
      BY <1>6, <2>1
  <2>3. g[0] = f[1..0] /\ g[n] = f[1..n]
    <3>1. 0 \in 0..n /\ n \in 0..n
      BY <1>1
    <3> HIDE DEF n
    <3> QED
      BY <3>1
  <2> QED
    BY <1>6, <2>1, <2>2, <2>3
<1>8. ASSUME NEW k \in 1..n
      PROVE  g[k] = IF s[k] \in S THEN Append(g[k - 1], s[k]) ELSE g[k - 1]
  <2>1. 1..k \in SUBSET D /\ 1..k # {} /\ k - 1 \in 0..n /\ k \in 0..n
    <3>1. n \in Nat
      BY <1>1
    <3> HIDE DEF n
    <3>2. 1..k \in SUBSET D
      BY <3>1
    <3>3. k \in 1..k /\ k - 1 \in 0..n /\ k \in 0..n
      BY <3>1
    <3> QED
      BY <3>2, <3>3
  <2>2. Max(1..k) = k
    <3>1. Max(1..k) \in 1..k /\ \A x \in 1..k : x <= Max(1..k)
      <4> HIDE DEF D
      <4> QED
        BY <1>2, <2>1
    <3> QED
      BY <3>1
  <2>3. (1..k) \ {k} = 1..(k - 1)
    OBVIOUS
  <2>4. f[1..k] = IF s[k] \in S THEN Append(f[1..(k - 1)], s[k]) ELSE f[1..(k - 1)]
    <3> HIDE DEF D
    <3> QED
      BY <1>6, <2>1, <2>2, <2>3
  <2> QED
    BY <2>1, <2>4
<1> HIDE DEF g
<1>9. \A k \in 0..n : g[k] \in V
  <2> DEFINE P == {k \in Nat : k <= n => g[k] \in V}
  <2>1. 0 \in P
    BY <1>7, EmptySeq
  <2>2. ASSUME NEW k \in Nat, k \in P PROVE k + 1 \in P
    <3> SUFFICES ASSUME k + 1 <= n PROVE g[k + 1] \in V
      OBVIOUS
    <3>1. k + 1 \in 1..n /\ g[k] \in V
      BY <1>1, <2>2
    <3>2. s[k + 1] \in T
      BY <3>1
    <3>3. g[k + 1] = IF s[k + 1] \in S THEN Append(g[k], s[k + 1]) ELSE g[k]
      BY <1>8, <3>1
    <3> QED
      BY <3>1, <3>2, <3>3
  <2>3. Nat \subseteq P
    <3> HIDE DEF P
    <3> QED
      BY <2>1, <2>2, Inductive
  <2> QED
    BY <2>3
<1>10. g = [k \in 0..n |-> g[k]]
  BY DEF g
<1> QED
  BY <1>7, <1>8, <1>9, <1>10 DEF Grows

LEMMA AmongEmpty ==
  ASSUME NEW S
  PROVE  Among(<<>>, S) = <<>>
<1>1. <<>> \in Seq({}) /\ Len(<<>>) = 0
  OBVIOUS
<1>2. PICK g \in [0..Len(<<>>) -> Seq({})] : Grows(g, <<>>, S)
  BY <1>1, AmongGrows
<1> QED
  BY <1>1, <1>2 DEF Grows

\* What is kept are the items of the sequence that are in the set.
LEMMA AmongOf ==
  ASSUME NEW T, NEW s \in Seq(T), NEW S
  PROVE  Among(s, S) \in Seq(T) /\ ToSet(Among(s, S)) = ToSet(s) \cap S
<1>1. Len(s) \in Nat /\ s \in [1..Len(s) -> T] /\ DOMAIN s = 1..Len(s)
  BY LenProperties
<1> DEFINE n == Len(s)
<1>2. PICK g \in [0..n -> Seq(T)] :
        /\ g[0] = <<>> /\ g[n] = Among(s, S)
        /\ \A k \in 1..n : g[k] = IF s[k] \in S THEN Append(g[k - 1], s[k]) ELSE g[k - 1]
  <2>1. PICK g \in [0..n -> Seq(T)] : Grows(g, s, S)
    BY AmongGrows
  <2> QED
    BY <2>1 DEF Grows
<1> HIDE DEF n
<1> DEFINE P == {k \in Nat : k <= n => ToSet(g[k]) = {s[i] : i \in 1..k} \cap S}
<1>3. 0 \in P
  BY <1>2 DEF ToSet
<1>4. ASSUME NEW k \in Nat, k \in P PROVE k + 1 \in P
  <2> SUFFICES ASSUME k + 1 <= n PROVE ToSet(g[k + 1]) = {s[i] : i \in 1..(k + 1)} \cap S
    OBVIOUS
  <2>1. k + 1 \in 1..n /\ k \in 0..n /\ (k + 1) - 1 = k /\ s[k + 1] \in T /\ g[k] \in Seq(T)
    BY <1>1 DEF n
  <2>2. g[k + 1] = IF s[k + 1] \in S THEN Append(g[k], s[k + 1]) ELSE g[k]
    <3>1. g[k + 1] = IF s[k + 1] \in S THEN Append(g[(k + 1) - 1], s[k + 1]) ELSE g[(k + 1) - 1]
      BY <1>2, <2>1
    <3> QED
      BY <2>1, <3>1
  <2>3. ToSet(g[k]) = {s[i] : i \in 1..k} \cap S
    BY <1>4, <2>1
  <2>4. {s[i] : i \in 1..(k + 1)} = {s[i] : i \in 1..k} \cup {s[k + 1]}
    <3>1. 1..(k + 1) = (1..k) \cup {k + 1}
      OBVIOUS
    <3> QED
      BY <3>1
  <2>5. ToSet(Append(g[k], s[k + 1])) = ToSet(g[k]) \cup {s[k + 1]}
    BY <2>1, ToSetAppend
  <2> QED
    BY <2>2, <2>3, <2>4, <2>5
<1>5. Nat \subseteq P
  <2> HIDE DEF P
  <2> QED
    BY <1>3, <1>4, Inductive
<1>6. n \in Nat /\ n \in 0..n
  BY <1>1 DEF n
<1>7. ToSet(g[n]) = {s[i] : i \in 1..n} \cap S
  BY <1>5, <1>6
<1>8. ToSet(s) = {s[i] : i \in 1..n}
  BY <1>1 DEF ToSet, n
<1> QED
  BY <1>2, <1>6, <1>7, <1>8

LEMMA AmongAppend ==
  ASSUME NEW T, NEW s \in Seq(T), NEW x \in T, NEW S
  PROVE  Among(Append(s, x), S) = IF x \in S THEN Append(Among(s, S), x) ELSE Among(s, S)
<1> DEFINE n == Len(s)  t == Append(s, x)
<1>1. n \in Nat /\ t \in Seq(T) /\ Len(t) = n + 1 /\ t[n + 1] = x /\ \A i \in 1..n : t[i] = s[i]
  BY LenProperties, AppendProperties
<1>2. PICK g \in [0..n -> Seq(T)] :
        /\ g[0] = <<>> /\ g[n] = Among(s, S)
        /\ \A k \in 1..n : g[k] = IF s[k] \in S THEN Append(g[k - 1], s[k]) ELSE g[k - 1]
  <2>1. PICK g \in [0..n -> Seq(T)] : Grows(g, s, S)
    BY AmongGrows
  <2> QED
    BY <2>1 DEF Grows
<1> HIDE DEF n, t
<1>3. PICK h \in [0..(n + 1) -> Seq(T)] :
        /\ h[0] = <<>> /\ h[n + 1] = Among(t, S)
        /\ \A k \in 1..(n + 1) : h[k] = IF t[k] \in S THEN Append(h[k - 1], t[k]) ELSE h[k - 1]
  <2>1. PICK h \in [0..Len(t) -> Seq(T)] : Grows(h, t, S)
    BY <1>1, AmongGrows
  <2> QED
    BY <1>1, <2>1 DEF Grows
<1> DEFINE P == {k \in Nat : k <= n => h[k] = g[k]}
<1>4. 0 \in P
  BY <1>2, <1>3
<1>5. ASSUME NEW k \in Nat, k \in P PROVE k + 1 \in P
  <2> SUFFICES ASSUME k + 1 <= n PROVE h[k + 1] = g[k + 1]
    OBVIOUS
  <2>1. k + 1 \in 1..n /\ k + 1 \in 1..(n + 1) /\ (k + 1) - 1 = k /\ t[k + 1] = s[k + 1]
    BY <1>1
  <2>2. h[k] = g[k]
    BY <1>1, <1>5
  <2> QED
    BY <1>2, <1>3, <2>1, <2>2
<1>6. Nat \subseteq P
  <2> HIDE DEF P
  <2> QED
    BY <1>4, <1>5, Inductive
<1>7. h[n] = g[n]
  BY <1>1, <1>6
<1>8. n + 1 \in 1..(n + 1) /\ (n + 1) - 1 = n
  BY <1>1
<1>9. Among(t, S) = IF x \in S THEN Append(Among(s, S), x) ELSE Among(s, S)
  BY <1>1, <1>2, <1>3, <1>7, <1>8
<1> QED
  BY <1>9 DEF t

\* A sequence that lies within the set is kept whole.
LEMMA AmongAll ==
  ASSUME NEW T, NEW S
  PROVE  \A s \in Seq(T) : ToSet(s) \subseteq S => Among(s, S) = s
<1> DEFINE F == {s \in Seq(T) : ToSet(s) \subseteq S => Among(s, S) = s}
<1>1. <<>> \in F
  BY AmongEmpty, EmptySeq
<1>2. ASSUME NEW s \in Seq(T), NEW x \in T, s \in F PROVE Append(s, x) \in F
  BY <1>2, ToSetAppend, AmongAppend, AppendProperties
<1>3. Seq(T) \subseteq F
  <2> HIDE DEF F
  <2> QED
    BY <1>1, <1>2, InductiveOnSeqs
<1> QED
  BY <1>3

-----------------------------------------------------------------------------
(* The inputs.  Only the evidence on a dish and the pages turned ever change, so that every *)
(* other input is the one that was passed.                                                  *)

Passed ==
  /\ "algo" \in DOMAIN input
  /\ Is("trend") => input \in Evidences
  /\ Is("trending") => input \in Metrics
  /\ Is("badges") => input \in BadgeRows
  /\ Is("reads") => input \in Reads
  /\ Is("search") => input \in Requests
  /\ Is("query") => input \in Queries
  /\ Is("text") => input \in Texts
  /\ Is("review") => input \in Reviews
  /\ Is("dna") => input \in Profiles

LEMMA PassedInit == Init => Passed
<1> SUFFICES ASSUME Init PROVE Passed
  OBVIOUS
<1>1. CASE input = [algo |-> "score", obs |-> <<>>]
  BY <1>1 DEF Passed, Is
<1>2. CASE input # [algo |-> "score", obs |-> <<>>]
  <2>1. input \in Evidences \cup Metrics \cup BadgeRows \cup Pagings \cup Reads \cup Requests
                  \cup Queries \cup Texts \cup Reviews \cup Profiles
    BY <1>2 DEF Init
  <2> QED
    BY <2>1, InputsAssumption DEF Passed, Is, IsFor, IsEvidence, IsMetric, IsBadged, IsRead,
                                   IsPaging, IsRequest, IsReviewed, IsProfile
<1> QED
  BY <1>1, <1>2

LEMMA PassedNext == Passed /\ [Next]_input => Passed'
<1> SUFFICES ASSUME Passed, [Next]_input PROVE Passed'
  OBVIOUS
<1>1. ASSUME Is("score") \/ Is("pages"), "algo" \in DOMAIN input', input'.algo = input.algo
      PROVE  Passed'
  BY <1>1 DEF Passed, Is
<1>2. CASE Observe
  <2>1. PICK o \in Mentioned : input' = [input EXCEPT !.obs = Append(@, o)]
    BY <1>2 DEF Observe
  <2>2. "algo" \in DOMAIN input' /\ input'.algo = input.algo
    BY <2>1 DEF Passed
  <2> QED
    BY <1>1, <1>2, <2>2 DEF Observe
<1>3. CASE HalfLife
  <2>1. "algo" \in DOMAIN input' /\ input'.algo = input.algo
    BY <1>3 DEF HalfLife, Passed
  <2> QED
    BY <1>1, <1>3, <2>1 DEF HalfLife
<1>4. CASE NextPage
  <2>1. "algo" \in DOMAIN input' /\ input'.algo = input.algo
    <3>1. PICK list : input' = [input EXCEPT
                        !.shown = @ \o Slice(list, input.page, input.size), !.page = @ + 1,
                        !.more = HasMore(input.page, input.size,
                                         TotalOf(input.list, input.rows, input.filter))]
      BY <1>4 DEF NextPage
    <3> QED
      BY <3>1 DEF Passed
  <2> QED
    BY <1>1, <1>4, <2>1 DEF NextPage
<1>5. CASE UNCHANGED input
  BY <1>5 DEF Passed, Is
<1> QED
  BY <1>2, <1>3, <1>4, <1>5 DEF Next

LEMMA PassedHolds == Spec => []Passed
BY PassedInit, PassedNext, PTL DEF Spec

-----------------------------------------------------------------------------
(* Slices. *)

\* A page of a list holds items of the list.
LEMMA SliceWithin ==
  ASSUME NEW T, NEW s \in Seq(T), NEW page \in Nat \ {0}, NEW size \in Nat \ {0}
  PROVE  Slice(s, page, size) \in Seq(T) /\ ToSet(Slice(s, page, size)) \subseteq ToSet(s)
<1> DEFINE m == (page - 1) * size + 1
           n == IF page * size > Len(s) THEN Len(s) ELSE page * size
<1>1. m \in Nat /\ m >= 1
  <2>1. page - 1 \in Nat
    OBVIOUS
  <2>2. \A a, b \in Nat : a * b \in Nat
    OBVIOUS
  <2>3. (page - 1) * size \in Nat
    BY <2>1, <2>2
  <2> QED
    BY <2>3
<1>2. n \in Nat /\ n <= Len(s)
  <2>1. Len(s) \in Nat /\ page * size \in Nat
    BY LenProperties
  <2> QED
    BY <2>1
<1> HIDE DEF m, n
<1>3. DOMAIN s = 1..Len(s) /\ \A i \in 1..Len(s) : s[i] \in T
  BY LenProperties
<1>4. \A i \in m..n : i \in 1..Len(s)
  BY <1>1, <1>2, LenProperties
<1>5. /\ SubSeq(s, m, n) \in Seq(T)
      /\ Len(SubSeq(s, m, n)) = IF m <= n THEN n - m + 1 ELSE 0
      /\ \A i \in 1..(n - m + 1) : SubSeq(s, m, n)[i] = s[m + i - 1]
  BY <1>1, <1>2, <1>3, <1>4, SubSeqProperties
<1>6. ToSet(SubSeq(s, m, n)) \subseteq ToSet(s)
  <2>1. DOMAIN SubSeq(s, m, n) = 1..Len(SubSeq(s, m, n))
    BY <1>5, LenProperties
  <2>2. \A i \in 1..Len(SubSeq(s, m, n)) : i \in 1..(n - m + 1) /\ m + i - 1 \in 1..Len(s)
    BY <1>1, <1>2, <1>5, LenProperties
  <2> QED
    BY <1>3, <1>5, <2>1, <2>2 DEF ToSet
<1> QED
  BY <1>5, <1>6 DEF Slice, m, n

LEMMA ConcatItems ==
  ASSUME NEW T, NEW s \in Seq(T), NEW t \in Seq(T)
  PROVE  ToSet(s \o t) = ToSet(s) \cup ToSet(t)
<1>1. s \o t \in Seq(T) /\ Len(s \o t) = Len(s) + Len(t) /\ Len(s) \in Nat /\ Len(t) \in Nat
  BY ConcatProperties, LenProperties
<1>2. /\ DOMAIN s = 1..Len(s) /\ DOMAIN t = 1..Len(t)
      /\ DOMAIN (s \o t) = 1..(Len(s) + Len(t))
  BY <1>1, LenProperties
<1>3. /\ \A i \in 1..Len(s) : (s \o t)[i] = s[i]
      /\ \A i \in (Len(s) + 1)..(Len(s) + Len(t)) : (s \o t)[i] = t[i - Len(s)]
  BY ConcatProperties, LenProperties
<1>4. ToSet(s \o t) \subseteq ToSet(s) \cup ToSet(t)
  <2> SUFFICES ASSUME NEW i \in 1..(Len(s) + Len(t)) PROVE (s \o t)[i] \in ToSet(s) \cup ToSet(t)
    BY <1>2 DEF ToSet
  <2>1. CASE i \in 1..Len(s)
    BY <1>2, <1>3, <2>1 DEF ToSet
  <2>2. CASE i \notin 1..Len(s)
    <3>1. i \in (Len(s) + 1)..(Len(s) + Len(t)) /\ i - Len(s) \in 1..Len(t)
      BY <1>1, <2>2
    <3> QED
      BY <1>2, <1>3, <3>1 DEF ToSet
  <2> QED
    BY <2>1, <2>2
<1>5. ToSet(s) \subseteq ToSet(s \o t)
  <2>1. \A i \in 1..Len(s) : i \in 1..(Len(s) + Len(t))
    BY <1>1
  <2> QED
    BY <1>2, <1>3, <2>1 DEF ToSet
<1>6. ToSet(t) \subseteq ToSet(s \o t)
  <2> SUFFICES ASSUME NEW i \in 1..Len(t) PROVE t[i] \in ToSet(s \o t)
    BY <1>2 DEF ToSet
  <2>1. /\ i + Len(s) \in (Len(s) + 1)..(Len(s) + Len(t)) /\ (i + Len(s)) - Len(s) = i
        /\ i + Len(s) \in 1..(Len(s) + Len(t))
    BY <1>1
  <2> QED
    BY <1>2, <1>3, <2>1 DEF ToSet
<1> QED
  BY <1>4, <1>5, <1>6

\* A page of places lists only places that the filters admit.
LEMMA PageAdmits ==
  ASSUME NEW rows, IsFiniteSet(rows), NEW f, NEW sort, NEW list \in Lists(rows, f, sort),
         NEW page \in Nat \ {0}, NEW size \in Nat \ {0}
  PROVE  LET found == DishPage(list, page, size)
         IN  /\ found.ranked \in Seq(Matching(rows, f)) /\ found.insufficient \in Seq(Matching(rows, f))
             /\ \A i \in DOMAIN (found.ranked \o found.insufficient) :
                  Admits(f, (found.ranked \o found.insufficient)[i])
<1> DEFINE M == Matching(rows, f)  s == Slice(list, page, size)
           good == Among(s, {r \in ToSet(s) : r.ranked})
           thin == Among(s, {r \in ToSet(s) : ~r.ranked})
<1>1. list \in SetToSeqs(M)
  BY DEF Lists, Orders
<1>2. IsFiniteSet(M) /\ M \subseteq rows /\ \A r \in M : Admits(f, r)
  <2>1. M \subseteq rows /\ \A r \in M : Admits(f, r)
    BY DEF Matching
  <2> QED
    BY <2>1, FS_Subset
<1>3. list \in Seq(M)
  <2> HIDE DEF M
  <2> QED
    BY <1>1, <1>2, ListsAll
<1>4. good \in Seq(M) /\ thin \in Seq(M)
  <2>1. s \in Seq(M)
    BY <1>3, SliceWithin
  <2> HIDE DEF s, M
  <2> QED
    BY <2>1, AmongOf
<1>5. \A i \in DOMAIN (good \o thin) : Admits(f, (good \o thin)[i])
  <2> HIDE DEF good, thin, M
  <2>1. good \o thin \in Seq(M)
    BY <1>4, ConcatProperties
  <2> QED
    BY <1>2, <2>1
<1> QED
  BY <1>4, <1>5 DEF DishPage

-----------------------------------------------------------------------------
(* Searches. *)

\* Filters merged with what the text says admit nothing that the filters set do not.
LEMMA MergedFiltersAdmit ==
  ASSUME NEW x, IsRequest(x), NEW parsed, NEW r
  PROVE  LET f == MergeFilters(x.filter, parsed)
         IN  /\ Admits(f, r) => Admits(x.filter, r)
             /\ f.page = x.filter.page /\ f.size = x.filter.size /\ f.dish = x.filter.dish
<1> DEFINE f == x.filter  g == MergeFilters(f, parsed)
<1>1. DOMAIN f = {"max", "min", "area", "trend", "radius", "located", "cuisine", "dietary",
                  "mood", "dish", "q", "sort", "page", "size"}
  BY DEF IsRequest
<1> HIDE DEF f
<1>2. /\ g.max = Or(f.max, parsed.max) /\ g.min = Or(f.min, parsed.min)
      /\ g.area = Or(f.area, parsed.area) /\ g.trend = f.trend /\ g.located = f.located
  BY <1>1 DEF MergeFilters
<1>3. f.radius # None => g.radius = f.radius
  BY <1>1 DEF MergeFilters
<1>4. g.page = f.page /\ g.size = f.size /\ g.dish = f.dish
  BY <1>1 DEF MergeFilters
<1> HIDE DEF g
<1>5. Admits(g, r) => Admits(f, r)
  BY <1>2, <1>3 DEF Admits, Or
<1> QED
  BY <1>4, <1>5 DEF f, g

\* What an answer says of a search with the filters f.
Obeys(answer, x) ==
  /\ \A i \in DOMAIN answer.restaurants : Admits(x.filter, answer.restaurants[i])
  /\ answer.intent # "dish" => answer.restaurants = <<>>
  /\ {d \in x.dishes : d.active /\ d.slug = x.filter.dish} # {} /\ answer.intent # "invalid"
       => answer.dishes = {x.filter.dish}

LEMMA AnswersObey ==
  ASSUME NEW x, IsRequest(x), NEW answer \in SearchAnswers(x.dishes, x.rows, x.filter)
  PROVE  Obeys(answer, x)
<1> DEFINE picked == {d \in x.dishes : d.active /\ d.slug = x.filter.dish}
           parsed == ParseQuery(x.filter.q)
           f == MergeFilters(x.filter, parsed)
           resolved == ResolveDish(x.dishes, f, parsed)
<1>1. CASE answer = Refused
  BY <1>1 DEF Obeys, Refused
<1>2. CASE answer # Refused
  <2>1. /\ f.page = x.filter.page /\ f.size = x.filter.size /\ f.dish = x.filter.dish
        /\ \A r : Admits(f, r) => Admits(x.filter, r)
    BY MergedFiltersAdmit
  <2>2. answer \in ResolvedAnswers(x.dishes, x.rows, f, parsed, resolved)
    BY <1>2 DEF SearchAnswers, ParsedAnswers, MergedAnswers
  <2>3. picked # {} => resolved = picked
    <3>1. picked # {} => ActiveDish(x.dishes, LAMBDA d : f.dish # None /\ d.slug = f.dish) = picked
      BY <2>1 DEF IsRequest, ActiveDish
    <3> HIDE DEF f, parsed, picked
    <3> QED
      BY <3>1 DEF ResolveDish
  <2> HIDE DEF f, parsed, resolved
  <2>4. CASE resolved # {}
    <3>1. PICK d \in resolved : answer \in DishAnswers(x.rows, d, f)
      BY <1>2, <2>2, <2>4 DEF ResolvedAnswers
    <3> DEFINE rows == {r \in x.rows : r.dish = d.slug}
    <3>2. PICK list \in Lists(rows, f, f.sort) :
            /\ answer.restaurants = DishPage(list, f.page, f.size).ranked
                                    \o DishPage(list, f.page, f.size).insufficient
            /\ answer.intent = "dish" /\ answer.dishes = {d.slug}
      <4>1. PICK list \in Lists(rows, f, f.sort) :
              answer = [intent |-> "dish",
                        restaurants |-> DishPage(list, f.page, f.size).ranked
                                        \o DishPage(list, f.page, f.size).insufficient,
                        dishes |-> {d.slug}, total |-> RankedTotal(rows)]
        <5> HIDE DEF Lists
        <5> QED
          BY <3>1 DEF DishAnswers
      <4> QED
        BY <4>1
    <3>3. IsFiniteSet(rows)
      <4>1. rows \subseteq x.rows /\ IsFiniteSet(x.rows)
        BY DEF IsRequest
      <4> QED
        BY <4>1, FS_Subset
    <3>4. f.page \in Nat \ {0} /\ f.size \in Nat \ {0}
      BY <2>1 DEF IsRequest
    <3>5. \A i \in DOMAIN answer.restaurants : Admits(f, answer.restaurants[i])
      <4> HIDE DEF rows
      <4>1. \A i \in DOMAIN (DishPage(list, f.page, f.size).ranked
                             \o DishPage(list, f.page, f.size).insufficient) :
              Admits(f, (DishPage(list, f.page, f.size).ranked
                         \o DishPage(list, f.page, f.size).insufficient)[i])
        BY <3>3, <3>4, PageAdmits
      <4> QED
        BY <3>2, <4>1
    <3>6. picked # {} => d.slug = x.filter.dish
      BY <2>3
    <3> QED
      BY <2>1, <3>2, <3>5, <3>6 DEF Obeys
  <2>5. CASE resolved = {}
    <3>1. answer.restaurants = <<>>
      <4>1. answer \in BrowseAnswers(x.dishes, x.rows, f, parsed)
        BY <1>2, <2>2, <2>5 DEF ResolvedAnswers
      <4> DEFINE found == SearchDishes({d \in x.dishes : \/ f.q = <<>> \/ Letters[f.q] < 2
                                                        \/ Similarity(d.name, f.q) > 30}, x.rows, f)
      <4>2. PICK s \in DishOrders(found, x.rows, f) :
              answer = [intent |-> IF f.q = <<>> THEN "browse" ELSE parsed.intent,
                        restaurants |-> <<>>, dishes |-> ToSet(Slice(s, f.page, f.size)),
                        total |-> Len(s)]
        BY <4>1 DEF BrowseAnswers
      <4> QED
        BY <4>2
    <3> QED
      BY <2>3, <2>5, <3>1 DEF Obeys
  <2> QED
    BY <2>4, <2>5
<1> QED
  BY <1>1, <1>2

LEMMA PageOfOne ==
  ASSUME NEW T, NEW s \in Seq(T)
  PROVE  /\ s # <<>> => Slice(s, 1, 1) = <<s[1]>>
         /\ Slice(<<>>, 1, 1) = <<>>
<1>1. Len(s) \in Nat /\ (s # <<>> => Len(s) >= 1)
  BY LenProperties, EmptySeq
<1>2. s # <<>> => Slice(s, 1, 1) = SubSeq(s, 1, 1)
  BY <1>1 DEF Slice
<1>3. Slice(<<>>, 1, 1) = SubSeq(<<>>, 1, 0)
  BY DEF Slice
<1>4. SubSeq(<<>>, 1, 0) = <<>>
  BY SubSeqEmpty
<1>5. s # <<>> => SubSeq(s, 1, 1) = <<s[1]>>
  <2> SUFFICES ASSUME s # <<>> PROVE SubSeq(s, 1, 1) = <<s[1]>>
    OBVIOUS
  <2>1. \A i \in 1..1 : s[i] \in T
    BY <1>1
  <2>2. SubSeq(s, 1, 1) \in Seq(T) /\ Len(SubSeq(s, 1, 1)) = 1 /\ SubSeq(s, 1, 1)[1] = s[1]
    BY <2>1, SubSeqProperties
  <2>3. <<s[1]>> \in Seq(T) /\ Len(<<s[1]>>) = 1
    BY <2>1
  <2>4. \A i \in 1..Len(SubSeq(s, 1, 1)) : SubSeq(s, 1, 1)[i] = <<s[1]>>[i]
    BY <2>2
  <2> QED
    BY <2>2, <2>3, <2>4, SeqEqual
<1> QED
  BY <1>2, <1>3, <1>4, <1>5

\* The dish that a misspelt search ends with is the first that typing it suggests.
LEMMA ClosestIsSuggested ==
  ASSUME NEW x, IsRequest(x), input = x
  PROVE  SuggestedFirst(ParseQuery(x.filter.q).dish)
<1> DEFINE term == ParseQuery(x.filter.q).dish
           sim(d) == Similarity(d.name, term)
           near == {d \in x.dishes : d.active /\ sim(d) > 30}
           R == {pair \in near \X near : sim(pair[1]) > sim(pair[2])}
           before(a, b) == Similarity(a.name, term) > Similarity(b.name, term)
           listed == Slice(CHOOSE s \in Orders(near, before) : TRUE, 1, 1)
           none == Slice(CHOOSE s \in Orders({}, before) : TRUE, 1, 1)
<1> SUFFICES ASSUME term # <<>>, Letters[term] >= 3, Closest(x.dishes, term) # {}
             PROVE  Suggest(x.dishes, {}, term, 1)[1] \in Closest(x.dishes, term)
  BY DEF SuggestedFirst
<1>1. \A d \in x.dishes : sim(d) \in Int
  BY DEF IsRequest
<1>2. IsFiniteSet(near)
  <2>1. near \subseteq x.dishes /\ IsFiniteSet(x.dishes)
    BY DEF IsRequest
  <2> HIDE DEF near
  <2> QED
    BY <2>1, FS_Subset
<1>3. \E s : s \in Orders(near, before)
  <2>1. near \subseteq x.dishes
    OBVIOUS
  <2>2. \A a, b \in near : <<a, b>> \in R <=> sim(a) > sim(b)
    <3> HIDE DEF near
    <3> QED
      OBVIOUS
  <2>3. IsOrder(R, near)
    <3> HIDE DEF near, R
    <3> QED
      BY <1>1, <2>1, <2>2 DEF IsOrder
  <2>4. PICK s : SortedBy(s, near, R)
    <3> HIDE DEF near, R
    <3> QED
      BY <1>2, <2>3, SortExists
  <2>5. s \in SetToSeqs(near) /\ \A i \in DOMAIN s : \A j \in 1..(i - 1) : ~before(s[i], s[j])
    <3>1. s \in SetToSeqs(near) /\ \A i \in DOMAIN s : \A j \in 1..(i - 1) : <<s[i], s[j]>> \notin R
      BY <2>4 DEF SortedBy
    <3>2. \A i \in DOMAIN s : \A j \in 1..(i - 1) : s[i] \in near /\ s[j] \in near
      <4> HIDE DEF near
      <4>1. DOMAIN s = 1..Len(s) /\ Len(s) \in Nat /\ \A i \in DOMAIN s : s[i] \in near
        BY <1>2, <3>1, ListsAll, LenProperties
      <4> QED
        BY <4>1
    <3> HIDE DEF near, R
    <3> QED
      BY <2>2, <3>1, <3>2
  <2> QED
    BY <2>5 DEF Orders
<1> DEFINE best == CHOOSE s \in Orders(near, before) : TRUE
<1>4. /\ best \in SetToSeqs(near)
      /\ \A i \in DOMAIN best : \A j \in 1..(i - 1) : ~before(best[i], best[j])
  <2>1. best \in Orders(near, before)
    <3> HIDE DEF near
    <3> QED
      BY <1>3
  <2> QED
    BY <2>1 DEF Orders
<1>5. none = <<>>
  <2>1. Orders({}, before) \subseteq SetToSeqs({})
    BY DEF Orders
  <2>2. Cardinality({}) = 0
    BY FS_EmptySet
  <2>3. \A t \in SetToSeqs({}) : t = <<>>
    BY <2>2 DEF SetToSeqs
  <2>4. <<>> \in Orders({}, before)
    <3>1. <<>> \in [1..0 -> {}] /\ DOMAIN <<>> = {}
      OBVIOUS
    <3> QED
      BY <2>2, <3>1 DEF Orders, SetToSeqs
  <2>5. (CHOOSE s \in Orders({}, before) : TRUE) = <<>>
    <3>1. (CHOOSE s \in Orders({}, before) : TRUE) \in Orders({}, before)
      BY <2>4
    <3> QED
      BY <2>1, <2>3, <3>1
  <2>6. <<>> \in Seq({})
    OBVIOUS
  <2>7. Slice(<<>>, 1, 1) = <<>>
    BY <2>6, PageOfOne
  <2> QED
    BY <2>5, <2>7
<1>6. best \in Seq(near) /\ DOMAIN best = 1..Len(best) /\ Len(best) \in Nat /\ ToSet(best) = near
  <2> HIDE DEF near, best
  <2> QED
    BY <1>2, <1>4, ListsAll, LenProperties
<1>7. PICK c \in x.dishes : c.active /\ sim(c) > 45
  BY DEF Closest, ActiveDish
<1>8. c \in near
  BY <1>1, <1>7
<1>9. 1 \in DOMAIN best /\ best[1] \in near /\ \A e \in near : sim(e) <= sim(best[1])
  <2>1. \A e \in near : \E i \in DOMAIN best : e = best[i]
    <3> HIDE DEF near, best
    <3> QED
      BY <1>6 DEF ToSet
  <2>2. 1 \in DOMAIN best /\ best[1] \in near
    <3> HIDE DEF near, best
    <3>1. PICK i \in DOMAIN best : c = best[i]
      BY <1>8, <2>1
    <3> QED
      BY <1>6, <3>1
  <2>3. ASSUME NEW e \in near PROVE ~(sim(e) > sim(best[1]))
    <3>1. PICK i \in DOMAIN best : e = best[i]
      BY <2>1
    <3>2. CASE i = 1
      <4>1. e = best[1] /\ sim(best[1]) \in Int
        BY <1>1, <2>2, <3>1, <3>2
      <4> HIDE DEF best, near
      <4> QED
        BY <4>1
    <3>3. CASE i # 1
      <4>1. 1 \in 1..(i - 1)
        <5> HIDE DEF best
        <5> QED
          BY <1>6, <3>3
      <4>2. ~before(best[i], best[1])
        <5> HIDE DEF best
        <5> QED
          BY <1>4, <4>1
      <4> QED
        BY <3>1, <4>2
    <3> QED
      BY <3>2, <3>3
  <2>4. \A e \in near : sim(e) \in Int
    BY <1>1
  <2> HIDE DEF best, near
  <2> QED
    BY <2>2, <2>3, <2>4
<1>10. Suggest(x.dishes, {}, term, 1) = listed \o none
  <2>1. ~(Letters[term] < 2)
    BY DEF IsRequest
  <2>2. {p \in {} : p.open /\ sim(p) > 30} = {}
    OBVIOUS
  <2> HIDE DEF term
  <2> QED
    BY <2>1, <2>2 DEF Suggest, ActiveDish
<1>11. listed = <<best[1]>>
  <2> HIDE DEF near
  <2>1. best # <<>>
    <3> HIDE DEF best
    <3> QED
      BY <1>9
  <2> QED
    BY <1>6, <2>1, PageOfOne
<1>12. Suggest(x.dishes, {}, term, 1)[1] = best[1]
  <2>1. Suggest(x.dishes, {}, term, 1) = <<best[1]>> \o <<>>
    <3> HIDE DEF listed, none, best
    <3> QED
      BY <1>5, <1>10, <1>11
  <2> HIDE DEF best
  <2> QED
    BY <2>1
<1>13. best[1] \in Closest(x.dishes, term)
  <2>1. best[1] \in x.dishes /\ best[1].active /\ sim(best[1]) >= sim(c)
    <3> HIDE DEF best
    <3> QED
      BY <1>8, <1>9
  <2>2. sim(best[1]) > 45
    <3> HIDE DEF best
    <3> QED
      BY <1>1, <1>7, <2>1
  <2>3. \A e \in x.dishes : e.active /\ sim(e) > 45 => sim(e) <= sim(best[1])
    <3>1. \A e \in x.dishes : e.active /\ sim(e) > 45 => e \in near
      BY <1>1
    <3> HIDE DEF best, near
    <3> QED
      BY <1>9, <3>1
  <2> HIDE DEF best
  <2> QED
    BY <2>1, <2>2, <2>3 DEF Closest, ActiveDish
<1> QED
  BY <1>12, <1>13

\* The filters that were set hold of everything a search answers with, for any catalogue, any
\* filters and any text; and the dish a misspelt search ends with is the first suggested
\* (_merge_filters, _resolve_dish, search, suggest).
THEOREM SearchObeysFiltersHolds == Spec => []SearchObeysFilters
<1>1. Passed => SearchObeysFilters
  <2> SUFFICES ASSUME Passed, Is("search") PROVE SearchObeysFilters
    BY DEF SearchObeysFilters
  <2>1. IsRequest(input)
    BY InputsAssumption DEF Passed
  <2>2. \A answer \in SearchAnswers(input.dishes, input.rows, input.filter) : Obeys(answer, input)
    BY <2>1, AnswersObey
  <2>3. SuggestedFirst(ParseQuery(input.filter.q).dish)
    BY <2>1, ClosestIsSuggested
  <2> QED
    BY <2>2, <2>3 DEF SearchObeysFilters, Obeys
<1> QED
  BY <1>1, PassedHolds, PTL

-----------------------------------------------------------------------------
(* Reviews. *)

\* What matches within a piece of a text matches in the text.
LEMMA MatchesInside ==
  ASSUME NEW T, NEW text \in Seq(T), NEW p \in Nat \ {0}, NEW q \in Int, q <= Len(text),
         NEW U, NEW a \in Seq(U), a # <<>>,
         NEW i \in DOMAIN SubSeq(text, p, q), Matches(a, SubSeq(text, p, q), i)
  PROVE  p + i - 1 \in DOMAIN text /\ Matches(a, text, p + i - 1)
<1> DEFINE words == SubSeq(text, p, q)  n == Len(a)  k0 == p + i - 1
<1>1. Len(text) \in Nat /\ DOMAIN text = 1..Len(text) /\ n \in Nat /\ n >= 1
  BY LenProperties, EmptySeq
<1>2. \A k \in p..q : text[k] \in T
  BY <1>1
<1>3. /\ words \in Seq(T) /\ Len(words) = IF p <= q THEN q - p + 1 ELSE 0
      /\ \A k \in 1..(q - p + 1) : words[k] = text[p + k - 1]
  BY <1>2, SubSeqProperties
<1>4. DOMAIN words = 1..Len(words) /\ Len(words) \in Nat /\ i \in 1..Len(words)
  BY <1>3, LenProperties
<1>5. /\ i + n - 1 <= Len(words)
      /\ \A k \in 1..(n - 1) : words[i + k - 1] = a[k]
      /\ words[i + n - 1] = a[n] \/ <<a[n], words[i + n - 1]>> \in Plurals
  BY DEF Matches
<1> HIDE DEF words, n
<1>6. k0 \in 1..Len(text) /\ k0 + n - 1 <= Len(text)
  BY <1>1, <1>3, <1>4, <1>5
<1>7. \A k \in 1..n : words[i + k - 1] = text[k0 + k - 1]
  <2> SUFFICES ASSUME NEW k \in 1..n PROVE words[i + k - 1] = text[k0 + k - 1]
    OBVIOUS
  <2>1. i + k - 1 \in 1..(q - p + 1)
    BY <1>1, <1>3, <1>4, <1>5
  <2>2. words[i + k - 1] = text[p + (i + k - 1) - 1]
    BY <1>3, <2>1
  <2>3. p + (i + k - 1) - 1 = k0 + k - 1
    BY <1>1, <1>4
  <2> QED
    BY <2>2, <2>3
<1>8. n \in 1..n /\ \A k \in 1..(n - 1) : k \in 1..n
  BY <1>1
<1>9. Matches(a, text, k0)
  BY <1>5, <1>6, <1>7, <1>8 DEF Matches, n
<1> QED
  BY <1>1, <1>6, <1>9

\* A registered alias that matches in a clause of a clean text is a quote of the text.
LEMMA ClauseIsQuoted ==
  ASSUME NEW x, IsReviewed(x), NEW k \in DOMAIN SplitClauses(x.text), NEW a \in DOMAIN x.aliases,
         NEW i \in DOMAIN (SplitClauses(x.text)[k]), Matches(a, SplitClauses(x.text)[k], i)
  PROVE  SnippetGrounded(a, x.text)
<1> DEFINE text == x.text  T == ToSet(text)  B == ClauseBounds(text)
           later == {j \in B : j > k}  q == Min(later) - 1
<1>1. text \in Seq(T) /\ T \cap Markup = {} /\ a \in Seq(ToSet(a)) /\ a # <<>>
  BY DEF IsReviewed
<1> HIDE DEF text, T
<1>2. Clean(text) = text
  <2>1. T \subseteq T \ Markup
    BY <1>1
  <2>2. Among(text, T \ Markup) = text
    BY <1>1, <2>1, AmongAll DEF T
  <2> QED
    BY <2>2 DEF Clean, T
<1>3. k \in B /\ k <= Len(text) /\ SplitClauses(text)[k] = SubSeq(text, k + 1, q)
  BY <1>2 DEF SplitClauses, Split, ClausesBetween, text
<1>4. Len(text) \in Nat /\ DOMAIN text = 1..Len(text)
  BY <1>1, LenProperties
<1>5. B \subseteq 0..(Len(text) + 1) /\ Len(text) + 1 \in B
  BY <1>4 DEF ClauseBounds
<1> HIDE DEF B
<1>6. k \in Nat /\ Len(text) + 1 \in later
  BY <1>3, <1>4, <1>5
<1>7. later \in SUBSET Int /\ IsFiniteSet(later)
  <2>1. later \subseteq 0..(Len(text) + 1)
    BY <1>5
  <2>2. IsFiniteSet(0..(Len(text) + 1))
    BY <1>4, FS_Interval
  <2>3. later \subseteq Int
    BY <2>1
  <2> HIDE DEF later
  <2> QED
    BY <2>1, <2>2, <2>3, FS_Subset
<1>8. q \in Int /\ q <= Len(text)
  <2>1. Min(later) \in later /\ Min(later) <= Len(text) + 1
    <3> HIDE DEF later
    <3> QED
      BY <1>6, <1>7, Extremes
  <2>2. Min(later) \in Int
    <3> HIDE DEF later
    <3> QED
      BY <1>7, <2>1
  <2> HIDE DEF later
  <2> QED
    BY <1>4, <2>1, <2>2
<1> HIDE DEF q, later
<1>9. i \in DOMAIN SubSeq(text, k + 1, q) /\ Matches(a, SubSeq(text, k + 1, q), i)
  BY <1>3 DEF text
<1>10. (k + 1) + i - 1 \in DOMAIN text /\ Matches(a, text, (k + 1) + i - 1)
  <2>1. k + 1 \in Nat \ {0}
    BY <1>6
  <2> QED
    BY <1>1, <1>8, <1>9, <2>1, MatchesInside
<1>11. SubSeq(a, 1, Len(a)) = a /\ Len(a) \in Nat /\ Len(a) >= 1 /\ DOMAIN a = 1..Len(a)
  BY <1>1, SubSeqFull, LenProperties, EmptySeq
<1>12. 1 \in DOMAIN a /\ Len(a) \in DOMAIN a /\ 10 * (Len(a) - 1 + 1) >= 9 * Len(a)
  BY <1>11
<1>13. SnippetGrounded(a, text)
  BY <1>10, <1>11, <1>12 DEF SnippetGrounded
<1> QED
  BY <1>13 DEF text

\* A dish that the extraction finds is named by a registered alias that the text quotes.
LEMMA FoundIsQuoted ==
  ASSUME NEW x, IsReviewed(x), NEW m \in HeuristicMentions(x.text, x.aliases)
  PROVE  /\ m.name = m.alias /\ m.alias \in DOMAIN x.aliases /\ SnippetGrounded(m.alias, x.text)
         /\ {"name", "alias"} \subseteq DOMAIN m
<1> DEFINE clauses == SplitClauses(x.text)
           credited(k) == Credited(clauses[k], x.aliases)
<1>1. PICK h \in ExtractDishMentions(x.text, x.aliases) :
        m = [name |-> h.alias, alias |-> h.alias, snippet |-> h.snippet, sentiment |-> h.sentiment,
             confidence |-> h.confidence, price |-> h.price,
             recommended |-> Recommendation(h.sentiment)]
  BY DEF HeuristicMentions
<1>2. PICK g \in Hits(clauses, x.aliases) : h = g[2]
  BY <1>1 DEF ExtractDishMentions, Strongest
<1>3. PICK k \in DOMAIN clauses : g \in Observed(k, clauses[k], x.aliases, credited(k))
  BY <1>2 DEF Hits
<1> DEFINE names(d) == {a \in credited(k) : x.aliases[a] = d}
<1>4. PICK d \in {x.aliases[a] : a \in credited(k)} :
        g = <<k, Observation(clauses[k], d, names(d), ScoreClause(clauses[k]), PricesIn(clauses[k]))>>
  BY <1>3 DEF Observed
<1>5. h.alias = CHOOSE a \in names(d) : \A b \in names(d) : Chars[b] <= Chars[a]
  <2> HIDE DEF names, clauses
  <2> QED
    BY <1>2, <1>4 DEF Observation
<1>6. names(d) # {} /\ names(d) \subseteq credited(k) /\ credited(k) \subseteq DOMAIN x.aliases
  BY <1>4 DEF Credited, Uncovered, Named
<1>7. \E a \in names(d) : \A b \in names(d) : Chars[b] <= Chars[a]
  <2> DEFINE S == names(d)  Up == {ss \in S \X S : Chars[ss[1]] < Chars[ss[2]]}
  <2>1. IsFiniteSet(S) /\ \A a \in S : Chars[a] \in Int
    <3>1. S \subseteq DOMAIN x.aliases
      BY <1>6
    <3> HIDE DEF S
    <3> QED
      BY <3>1, FS_Subset DEF IsReviewed
  <2>2. S # {}
    BY <1>6
  <2> HIDE DEF S
  <2>3. \A a, b \in S : <<a, b>> \in Up <=> Chars[a] < Chars[b]
    OBVIOUS
  <2> HIDE DEF Up
  <2>4. IsOrder(Up, S)
    BY <2>1, <2>3 DEF IsOrder
  <2>5. PICK a \in S : \A b \in S : <<a, b>> \notin Up
    BY <2>1, <2>2, <2>4, LastExists
  <2>6. \A b \in S : Chars[b] <= Chars[a]
    <3>1. \A b \in S : ~(Chars[a] < Chars[b])
      BY <2>3, <2>5
    <3> QED
      BY <2>1, <3>1
  <2> QED
    BY <2>6 DEF S
<1>8. h.alias \in names(d)
  <2> HIDE DEF names
  <2> QED
    BY <1>5, <1>7
<1>9. h.alias \in DOMAIN x.aliases /\ \E i \in DOMAIN clauses[k] : Matches(h.alias, clauses[k], i)
  BY <1>6, <1>8 DEF Credited, Uncovered, Named
<1>10. SnippetGrounded(h.alias, x.text)
  BY <1>9, ClauseIsQuoted
<1> QED
  BY <1>1, <1>9, <1>10

\* A mention that is kept is stored for the dish its names stand for.
LEMMA KeptIsStored ==
  ASSUME NEW n, {"name", "alias"} \subseteq DOMAIN n, NEW text, NEW aliases
  PROVE  ResolveMentionedDish(Ground(n, text), aliases) = ResolveMentionedDish(n, aliases)
<1>1. Ground(n, text).name = n.name /\ Ground(n, text).alias = n.alias
  BY DEF Ground
<1> QED
  BY <1>1 DEF ResolveMentionedDish

\* A dish that the extraction finds with enough confidence is stored under any model that does not
\* doubt it, and what is stored is in the text, by the name it is stored by or by the other name
\* the model gave, as long as no dish is created from a mention (_merge_with_heuristic,
\* enforce_grounding, _resolve_dish).
THEOREM ExtractionIsFloorHolds == ALLOW_CREATION = FALSE => (Spec => []ExtractionIsFloor)
<1> SUFFICES ASSUME ALLOW_CREATION = FALSE PROVE Spec => []ExtractionIsFloor
  OBVIOUS
<1>1. Passed => ExtractionIsFloor
  <2> SUFFICES ASSUME Passed, Is("review") PROVE ExtractionIsFloor
    BY DEF ExtractionIsFloor
  <2> DEFINE x == input  text == input.text  aliases == input.aliases
             fallback == HeuristicMentions(text, aliases)
             merged == MergeMentions(input.model, fallback)
             kept == EnforceGrounding(merged, text, {}, aliases)
             stored == {ResolveMentionedDish(m, aliases) : m \in kept}
             other(n) == IF n.alias \in DOMAIN aliases THEN n.name ELSE n.alias
  <2>1. IsReviewed(input)
    BY InputsAssumption DEF Passed
  <2>2. /\ None \notin DOMAIN aliases
        /\ \A n \in input.model : {"name", "alias"} \subseteq DOMAIN n /\ n.name # None /\ n.confidence \in Int
    BY <2>1 DEF IsReviewed
  <2>3. \A m \in fallback : /\ m.name = m.alias /\ m.alias \in DOMAIN aliases
                            /\ SnippetGrounded(m.alias, text) /\ {"name", "alias"} \subseteq DOMAIN m
    BY <2>1, FoundIsQuoted
  <2>4. merged \subseteq input.model \cup fallback
    BY DEF MergeMentions
  <2>5. \A n \in merged : Keeps(n, text, {}, aliases) => ResolveMentionedDish(n, aliases) \in stored
    <3> SUFFICES ASSUME NEW n \in merged, Keeps(n, text, {}, aliases)
                 PROVE  ResolveMentionedDish(n, aliases) \in stored
      OBVIOUS
    <3>1. {"name", "alias"} \subseteq DOMAIN n
      BY <2>2, <2>3, <2>4
    <3>2. Ground(n, text) \in kept
      BY DEF EnforceGrounding
    <3> HIDE DEF kept
    <3> QED
      BY <3>1, <3>2, KeptIsStored
  <2>6. \A d \in stored : \E n \in merged : Keeps(n, text, {}, aliases) /\ d = ResolveMentionedDish(n, aliases)
    <3> SUFFICES ASSUME NEW m \in kept
                 PROVE  \E n \in merged : /\ Keeps(n, text, {}, aliases)
                                          /\ ResolveMentionedDish(m, aliases) = ResolveMentionedDish(n, aliases)
      OBVIOUS
    <3>1. PICK n \in merged : Keeps(n, text, {}, aliases) /\ m = Ground(n, text)
      BY DEF EnforceGrounding
    <3>2. {"name", "alias"} \subseteq DOMAIN n
      BY <2>2, <2>3, <2>4
    <3> QED
      BY <3>1, <3>2, KeptIsStored
  <2> HIDE DEF merged, kept, stored
  <2>7. ASSUME NEW m \in fallback, m.confidence >= MIN_CONFIDENCE
        PROVE  \/ aliases[m.alias] \in stored
               \/ \E n \in input.model : Key(n) = m.alias /\ n.confidence < MIN_CONFIDENCE
    <3> SUFFICES ASSUME \A n \in input.model : Key(n) = m.alias => ~(n.confidence < MIN_CONFIDENCE)
                 PROVE  aliases[m.alias] \in stored
      OBVIOUS
    <3>1. /\ m.name = m.alias /\ m.alias \in DOMAIN aliases /\ m.alias # None
          /\ SnippetGrounded(m.alias, text) /\ Key(m) = m.alias
      BY <2>2, <2>3 DEF Key
    <3>2. CASE \E n \in input.model : Key(n) = m.alias
      <4>1. PICK n \in input.model : Key(n) = m.alias
        BY <3>2
      <4>2. n.confidence >= MIN_CONFIDENCE
        BY <4>1, <2>2, InputsAssumption
      <4>3. Keeps(n, text, {}, aliases) /\ ResolveMentionedDish(n, aliases) = aliases[m.alias]
        BY <2>2, <3>1, <4>1, <4>2 DEF Keeps, Resolved, Key, ResolveMentionedDish
      <4>4. n \in merged
        BY DEF merged, MergeMentions
      <4> QED
        BY <2>5, <4>3, <4>4
    <3>3. CASE ~\E n \in input.model : Key(n) = m.alias
      <4>1. m \in merged
        BY <3>1, <3>3 DEF merged, MergeMentions
      <4>2. Keeps(m, text, {}, aliases) /\ ResolveMentionedDish(m, aliases) = aliases[m.alias]
        BY <2>7, <3>1 DEF Keeps, Resolved, ResolveMentionedDish
      <4> QED
        BY <2>5, <4>1, <4>2
    <3> QED
      BY <3>2, <3>3
  <2>8. ASSUME NEW d \in stored
        PROVE  \/ \E a \in DOMAIN aliases : aliases[a] = d /\ SnippetGrounded(a, text)
               \/ \E n \in input.model : /\ ResolveMentionedDish(n, aliases) = d
                                         /\ other(n) # None /\ SnippetGrounded(other(n), text)
                                         /\ other(n) \in DOMAIN aliases => aliases[other(n)] # d
    <3>1. PICK n \in merged : Keeps(n, text, {}, aliases) /\ d = ResolveMentionedDish(n, aliases)
      BY <2>6
    <3>2. CASE n \in fallback
      BY <2>3, <3>1, <3>2 DEF ResolveMentionedDish
    <3>3. CASE n \in input.model
      <4>1. n.name # None /\ (n.alias \in DOMAIN aliases \/ n.name \in DOMAIN aliases)
        BY <2>2, <3>1, <3>3 DEF Keeps, Resolved
      <4>2. SnippetGrounded(n.name, text) \/ (n.alias # None /\ SnippetGrounded(n.alias, text))
        BY <3>1 DEF Keeps
      <4>3. CASE n.alias \in DOMAIN aliases
        <5>1. d = aliases[n.alias] /\ other(n) = n.name
          BY <3>1, <4>3 DEF ResolveMentionedDish
        <5> QED
          BY <3>1, <3>3, <4>1, <4>2, <4>3, <5>1
      <4>4. CASE n.alias \notin DOMAIN aliases
        <5>1. n.name \in DOMAIN aliases /\ d = aliases[n.name] /\ other(n) = n.alias
          BY <3>1, <4>1, <4>4 DEF ResolveMentionedDish
        <5> QED
          BY <3>1, <3>3, <4>2, <4>4, <5>1
      <4> QED
        BY <4>3, <4>4
    <3> QED
      BY <2>4, <3>2, <3>3
  <2> QED
    BY <2>7, <2>8 DEF ExtractionIsFloor, merged, kept, stored
<1> QED
  BY <1>1, PassedHolds, PTL

-----------------------------------------------------------------------------
(* Badges. *)

\* The ranked rows with at most, and with fewer than, c mentions.
UpTo(rows, c) == {i \in RankedRows(rows) : rows[i].mentions <= c}
Below(rows, c) == {i \in RankedRows(rows) : rows[i].mentions < c}

LEMMA RankedFacts ==
  ASSUME NEW x, IsBadged(x)
  PROVE  LET rows == x.rows
         IN  /\ RankedRows(rows) \subseteq Nat /\ IsFiniteSet(RankedRows(rows))
             /\ Cardinality(RankedRows(rows)) \in Nat
             /\ \A i \in RankedRows(rows) : /\ rows[i].mentions \in Int /\ rows[i].consistency \in Int
                                            /\ rows[i].value \in Int \cup {None}
             /\ \A c : /\ IsFiniteSet(UpTo(rows, c)) /\ IsFiniteSet(Below(rows, c))
                       /\ Cardinality(UpTo(rows, c)) \in Nat /\ Cardinality(Below(rows, c)) \in Nat
<1> DEFINE rows == x.rows  S == RankedRows(rows)
<1>1. DOMAIN rows = 1..Len(rows) /\ Len(rows) \in Nat
  BY LenProperties DEF IsBadged
<1>2. S \subseteq 1..Len(rows) /\ \A i \in S : rows[i] \in ToSet(rows)
  BY <1>1 DEF RankedRows, ToSet
<1>3. IsFiniteSet(S) /\ S \subseteq Nat
  <2>1. IsFiniteSet(1..Len(rows)) /\ 1..Len(rows) \subseteq Nat
    BY <1>1, FS_Interval
  <2> HIDE DEF S
  <2> QED
    BY <1>2, <2>1, FS_Subset
<1>4. \A i \in S : /\ rows[i].mentions \in Int /\ rows[i].consistency \in Int
                   /\ rows[i].value \in Int \cup {None}
  BY <1>2 DEF IsBadged
<1>5. \A c : UpTo(rows, c) \subseteq S /\ Below(rows, c) \subseteq S
  BY DEF UpTo, Below
<1> HIDE DEF S
<1> QED
  BY <1>3, <1>4, <1>5, FS_Subset, FS_CardinalityType DEF S

LEMMA FiniteImage ==
  ASSUME NEW S, IsFiniteSet(S), NEW f
  PROVE  IsFiniteSet({f[x] : x \in S})
<1> DEFINE g == [x \in S |-> f[x]]  T == {f[x] : x \in S}
<1>1. g \in Surjection(S, T)
  BY DEF Surjection
<1> HIDE DEF g, T
<1>2. IsFiniteSet(T)
  BY <1>1, FS_Surjection
<1> QED
  BY <1>2 DEF T

\* The k-th smallest count exists.
LEMMA KthCountFacts ==
  ASSUME NEW x, IsBadged(x), NEW k \in 1..Cardinality(RankedRows(x.rows))
  PROVE  /\ KthCount(x.rows, k) \in Int
         /\ Cardinality(Below(x.rows, KthCount(x.rows, k))) < k
<1> DEFINE rows == x.rows  S == RankedRows(rows)
           counts == {rows[i].mentions : i \in S}
           enough == {c \in counts : Cardinality(UpTo(rows, c)) >= k}
<1>1. /\ S \subseteq Nat /\ IsFiniteSet(S) /\ Cardinality(S) \in Nat
      /\ \A i \in S : rows[i].mentions \in Int
      /\ \A c : Cardinality(UpTo(rows, c)) \in Nat /\ Cardinality(Below(rows, c)) \in Nat
  BY RankedFacts
<1>2. k \in Nat /\ k >= 1 /\ k <= Cardinality(S)
  BY <1>1
<1>3. S # {}
  BY <1>2, FS_EmptySet
<1>4. counts \in SUBSET Int /\ IsFiniteSet(counts) /\ counts # {}
  <2>1. \A i \in S : rows[i].mentions \in Int
    BY <1>1
  <2>2. IsFiniteSet(counts)
    <3> DEFINE f == [i \in S |-> rows[i].mentions]
    <3>1. IsFiniteSet({f[i] : i \in S})
      BY <1>1, FiniteImage
    <3>2. {f[i] : i \in S} = counts
      OBVIOUS
    <3> QED
      BY <3>1, <3>2
  <2> HIDE DEF S
  <2> QED
    BY <1>3, <2>1, <2>2
<1>5. enough \in SUBSET Int /\ IsFiniteSet(enough) /\ enough # {}
  <2>1. Max(counts) \in counts /\ \A c \in counts : c <= Max(counts)
    <3> HIDE DEF counts
    <3> QED
      BY <1>4, Extremes
  <2>2. UpTo(rows, Max(counts)) = S
    <3>1. \A i \in S : rows[i].mentions <= Max(counts)
      <4>1. \A i \in S : rows[i].mentions \in counts
        OBVIOUS
      <4> HIDE DEF counts
      <4> QED
        BY <2>1, <4>1
    <3> HIDE DEF counts
    <3> QED
      BY <3>1 DEF UpTo
  <2>3. Max(counts) \in enough
    <3> HIDE DEF counts, S
    <3> QED
      BY <1>1, <1>2, <2>1, <2>2
  <2> HIDE DEF counts
  <2> QED
    BY <1>4, <2>3, FS_Subset
<1> DEFINE c == Min(enough)
<1>6. c \in enough /\ \A e \in enough : c <= e
  <2> HIDE DEF enough
  <2> QED
    BY <1>5, Extremes
<1>7. Cardinality(Below(rows, c)) < k
  <2> DEFINE less == {d \in counts : d < c}
  <2>1. CASE less = {}
    <3>1. Below(rows, c) = {}
      <4> HIDE DEF c
      <4> QED
        BY <2>1 DEF Below
    <3> HIDE DEF c
    <3> QED
      BY <1>2, <3>1, FS_EmptySet
  <2>2. CASE less # {}
    <3> HIDE DEF c
    <3>1. less \in SUBSET Int /\ IsFiniteSet(less)
      <4> HIDE DEF counts
      <4> QED
        BY <1>4, FS_Subset
    <3> DEFINE d == Max(less)
    <3>2. d \in less /\ \A e \in less : e <= d
      <4> HIDE DEF less
      <4> QED
        BY <2>2, <3>1, Extremes
    <3> HIDE DEF d
    <3>3. d \in counts /\ d < c /\ d \in Int /\ c \in Int
      <4>1. d \in counts /\ d < c /\ c \in counts
        BY <1>6, <3>2
      <4> HIDE DEF counts
      <4> QED
        BY <1>4, <4>1
    <3>4. d \notin enough
      <4> HIDE DEF enough
      <4> QED
        BY <1>6, <3>3
    <3>5. Cardinality(UpTo(rows, d)) < k
      <4>1. ~(Cardinality(UpTo(rows, d)) >= k)
        <5> HIDE DEF counts
        <5> QED
          BY <3>3, <3>4
      <4> QED
        BY <1>1, <1>2, <4>1
    <3>6. Below(rows, c) = UpTo(rows, d)
      <4>1. \A i \in S : rows[i].mentions < c => rows[i].mentions <= d
        <5>1. \A i \in S : rows[i].mentions < c => rows[i].mentions \in less
          OBVIOUS
        <5> HIDE DEF less
        <5> QED
          BY <3>2, <5>1
      <4>2. \A i \in S : rows[i].mentions <= d => rows[i].mentions < c
        BY <1>1, <3>3
      <4> QED
        BY <4>1, <4>2 DEF Below, UpTo
    <3> QED
      BY <3>5, <3>6
  <2> QED
    BY <2>1, <2>2
<1>8. KthCount(rows, k) \in counts /\ Cardinality(Below(rows, KthCount(rows, k))) < k
  <2> DEFINE Good(e) == /\ Cardinality({i \in RankedRows(rows) : rows[i].mentions < e}) < k
                        /\ Cardinality({i \in RankedRows(rows) : rows[i].mentions <= e}) >= k
  <2>1. c \in counts /\ Good(c)
    <3>1. c \in counts /\ Cardinality(UpTo(rows, c)) >= k
      <4> HIDE DEF c, counts
      <4> QED
        BY <1>6
    <3> HIDE DEF c, counts
    <3> QED
      BY <1>7, <3>1 DEF Below, UpTo
  <2>2. KthCount(rows, k) = CHOOSE e \in counts : Good(e)
    BY DEF KthCount
  <2>3. KthCount(rows, k) \in counts /\ Good(KthCount(rows, k))
    <3> HIDE DEF c, counts, Good
    <3> QED
      BY <2>1, <2>2
  <2> HIDE DEF counts
  <2> QED
    BY <2>3 DEF Below
<1> QED
  <2> HIDE DEF counts
  <2> QED
    BY <1>4, <1>8

\* The first of the best is one of the best.
LEMMA FirstBestIsBest ==
  ASSUME NEW best \in SUBSET Nat, IsFiniteSet(best), NEW i \in IF best = {} THEN {} ELSE {Min(best)}
  PROVE  i \in best
<1>1. best # {} /\ i = Min(best) /\ best \in SUBSET Int
  OBVIOUS
<1> QED
  BY <1>1, Extremes

\* Whatever the rows of a dish, a hidden gem is less mentioned than two thirds of the ranked
\* places, and the other two badges are held against every rival (assign_badges).
THEOREM BadgesEarnedHolds == Spec => []BadgesEarned
<1>1. Passed => BadgesEarned
  <2> SUFFICES ASSUME Passed, Is("badges") PROVE BadgesEarned
    BY DEF BadgesEarned
  <2> DEFINE rows == input.rows
             ranked == {i \in DOMAIN rows : rows[i].ranked}
             fewer(i) == {j \in ranked : rows[j].mentions < rows[i].mentions}
             n == Cardinality(ranked)
             valued == {i \in ranked : rows[i].value # None}
             often == {i \in ranked : rows[i].mentions >= CONSISTENT_MENTIONS}
             best == {i \in valued : \A j \in valued : rows[j].value <= rows[i].value}
             steady == {i \in often : \A j \in often : rows[j].consistency <= rows[i].consistency}
  <2>1. IsBadged(input)
    BY InputsAssumption DEF Passed
  <2>2. ranked = RankedRows(rows)
    BY DEF RankedRows
  <2>3. /\ ranked \subseteq Nat /\ IsFiniteSet(ranked) /\ n \in Nat
        /\ \A i \in ranked : rows[i].mentions \in Int
        /\ \A c : Cardinality(Below(rows, c)) \in Nat /\ IsFiniteSet(Below(rows, c))
    BY <2>1, <2>2, RankedFacts
  <2>4. HiddenGems(rows) \subseteq ranked
    BY <2>2 DEF HiddenGems
  <2>5. ASSUME NEW i \in HiddenGems(rows) PROVE n >= 3 /\ 3 * Cardinality(fewer(i)) < Max({3, n})
    <3> HIDE DEF ranked
    <3>1. n >= 3 /\ rows[i].mentions <= GemCutoff(rows)
      BY <2>2, <2>3 DEF HiddenGems
    <3> DEFINE k == n \div 3
    <3>2. k \in 1..n /\ 3 * k <= n
      <4> HIDE DEF n
      <4> QED
        BY <2>3, <3>1
    <3>3. GemCutoff(rows) = KthCount(rows, k)
      <4>1. AtLeast(1, k) = k
        <5> HIDE DEF n
        <5> QED
          BY <3>2 DEF AtLeast
      <4> QED
        BY <2>2, <4>1 DEF GemCutoff
    <3> HIDE DEF k
    <3> DEFINE c == KthCount(rows, k)
    <3>4. c \in Int /\ Cardinality(Below(rows, c)) < k
      BY <2>1, <2>2, <3>2, KthCountFacts
    <3> HIDE DEF c
    <3>5. fewer(i) \subseteq Below(rows, c)
      <4>1. i \in ranked /\ rows[i].mentions <= c
        BY <2>4, <3>1, <3>3 DEF c
      <4> QED
        BY <2>2, <2>3, <3>4, <4>1 DEF Below
    <3>6. Cardinality(fewer(i)) <= Cardinality(Below(rows, c)) /\ Cardinality(fewer(i)) \in Nat
      <4>1. IsFiniteSet(Below(rows, c))
        BY <2>3
      <4> HIDE DEF fewer
      <4> QED
        BY <3>5, <4>1, FS_Subset, FS_CardinalityType
    <3>7. Max({3, n}) >= n
      <4>1. {3, n} \in SUBSET Int /\ IsFiniteSet({3, n}) /\ n \in {3, n}
        <5>1. IsFiniteSet({3}) /\ {3, n} = {3} \cup {n}
          BY FS_Singleton
        <5>2. IsFiniteSet({3, n})
          BY <5>1, FS_AddElement
        <5> QED
          BY <2>3, <5>2
      <4>2. \A y \in {3, n} : y <= Max({3, n})
        BY <4>1, Extremes
      <4>3. Max({3, n}) \in {3, n}
        BY <4>1, Extremes
      <4> HIDE DEF n
      <4> QED
        BY <2>3, <4>2, <4>3
    <3>8. Max({3, n}) \in Int
      <4>1. {3, n} \in SUBSET Int /\ IsFiniteSet({3, n})
        <5>1. IsFiniteSet({3}) /\ {3, n} = {3} \cup {n}
          BY FS_Singleton
        <5>2. IsFiniteSet({3, n})
          BY <5>1, FS_AddElement
        <5> QED
          BY <2>3, <5>2
      <4>2. Max({3, n}) \in {3, n}
        BY <4>1, Extremes
      <4> QED
        BY <2>3, <4>2
    <3>9. Cardinality(Below(rows, c)) \in Nat
      BY <2>3
    <3> HIDE DEF n, fewer
    <3> QED
      BY <2>3, <3>1, <3>2, <3>4, <3>6, <3>7, <3>8, <3>9
  <2>6. ASSUME NEW i \in BestValue(rows), NEW j \in ranked, rows[j].value # None
        PROVE  rows[j].value <= rows[i].value
    <3>1. i \in IF best = {} THEN {} ELSE {Min(best)}
      BY <2>2 DEF BestValue, FirstBest
    <3>2. best \in SUBSET Nat /\ IsFiniteSet(best)
      <4>1. best \subseteq ranked
        OBVIOUS
      <4> HIDE DEF best, ranked
      <4> QED
        BY <2>3, <4>1, FS_Subset
    <3>3. i \in best
      <4> HIDE DEF best
      <4> QED
        BY <3>1, <3>2, FirstBestIsBest
    <3> QED
      BY <2>6, <3>3
  <2>7. ASSUME NEW i \in MostConsistent(rows), NEW j \in ranked,
               rows[j].mentions >= CONSISTENT_MENTIONS
        PROVE  rows[j].consistency <= rows[i].consistency
    <3>1. i \in IF steady = {} THEN {} ELSE {Min(steady)}
      BY <2>2 DEF MostConsistent, FirstBest
    <3>2. steady \in SUBSET Nat /\ IsFiniteSet(steady)
      <4>1. steady \subseteq ranked
        OBVIOUS
      <4> HIDE DEF steady, ranked
      <4> QED
        BY <2>3, <4>1, FS_Subset
    <3>3. i \in steady
      <4> HIDE DEF steady
      <4> QED
        BY <3>1, <3>2, FirstBestIsBest
    <3> QED
      BY <2>7, <3>3
  <2> QED
    BY <2>4, <2>5, <2>6, <2>7 DEF BadgesEarned
<1> QED
  BY <1>1, PassedHolds, PTL

-----------------------------------------------------------------------------
(* Sums. *)

\* it[u] sums what f gives the elements of u, in whatever order.
IsSum(it, D, f) ==
  /\ it \in [SUBSET D -> Int] /\ it[{}] = 0
  /\ \A u \in SUBSET D : \A x \in u : it[u] = f[x] + it[u \ {x}]

LEMMA SumOrderFree ==
  ASSUME NEW D, IsFiniteSet(D), NEW f \in [D -> Int], NEW it \in [SUBSET D -> Int],
         it[{}] = 0, NEW c, Picks(c, D),
         \A u \in SUBSET D : u # {} => it[u] = f[c[u]] + it[u \ {c[u]}]
  PROVE  IsSum(it, D, f)
<1> DEFINE Q(n) == \A u \in SUBSET D : Cardinality(u) <= n => \A x \in u : it[u] = f[x] + it[u \ {x}]
           P == {n \in Nat : Q(n)}
<1>0. \A u \in SUBSET D : IsFiniteSet(u) /\ Cardinality(u) \in Nat /\ (Cardinality(u) = 0 <=> u = {})
  BY FS_Subset, FS_CardinalityType, FS_EmptySet
<1>1. 0 \in P
  <2>1. ASSUME NEW u \in SUBSET D, Cardinality(u) <= 0 PROVE u = {}
    BY <1>0, <2>1
  <2> QED
    BY <2>1
<1>2. ASSUME NEW n \in Nat, n \in P PROVE n + 1 \in P
  <2> SUFFICES ASSUME NEW u \in SUBSET D, Cardinality(u) <= n + 1, NEW x \in u
               PROVE  it[u] = f[x] + it[u \ {x}]
    OBVIOUS
  <2> DEFINE y == c[u]
  <2>1. y \in u /\ it[u] = f[y] + it[u \ {y}]
    BY DEF Picks
  <2> HIDE DEF y
  <2>2. CASE x = y
    BY <2>1, <2>2
  <2>3. CASE x # y
    <3>1. Cardinality(u \ {y}) <= n /\ Cardinality(u \ {x}) <= n
      <4>1. /\ Cardinality(u \ {y}) = Cardinality(u) - 1
            /\ Cardinality(u \ {x}) = Cardinality(u) - 1
        BY <1>0, <2>1, FS_RemoveElement
      <4> QED
        BY <1>0, <4>1
    <3>2. it[u \ {y}] = f[x] + it[(u \ {y}) \ {x}]
      <4>1. u \ {y} \in SUBSET D /\ x \in u \ {y}
        BY <2>3
      <4> QED
        BY <1>2, <3>1, <4>1
    <3>3. it[u \ {x}] = f[y] + it[(u \ {x}) \ {y}]
      <4>1. u \ {x} \in SUBSET D /\ y \in u \ {x}
        BY <2>1, <2>3
      <4> QED
        BY <1>2, <3>1, <4>1
    <3>4. (u \ {y}) \ {x} = (u \ {x}) \ {y}
      OBVIOUS
    <3>5. f[x] \in Int /\ f[y] \in Int /\ it[(u \ {x}) \ {y}] \in Int
      BY <2>1
    <3> DEFINE a == f[x]  b == f[y]  w == it[(u \ {x}) \ {y}]  v == it[u \ {x}]
    <3>6. it[u] = b + (a + w) /\ v = b + w
      BY <2>1, <3>2, <3>3, <3>4
    <3>7. b + (a + w) = a + (b + w)
      <4> HIDE DEF a, b, w
      <4> QED
        BY <3>5 DEF a, b, w
    <3> QED
      BY <3>6, <3>7
  <2> QED
    BY <2>2, <2>3
<1>3. Nat \subseteq P
  <2> HIDE DEF P
  <2> QED
    BY <1>1, <1>2, Inductive
<1>4. \A u \in SUBSET D : \A x \in u : it[u] = f[x] + it[u \ {x}]
  <2> SUFFICES ASSUME NEW u \in SUBSET D PROVE \A x \in u : it[u] = f[x] + it[u \ {x}]
    OBVIOUS
  <2>1. Cardinality(u) \in Nat /\ Cardinality(u) <= Cardinality(u)
    BY <1>0
  <2>2. Q(Cardinality(u))
    <3> HIDE DEF Q
    <3> QED
      BY <1>3, <2>1
  <2> QED
    BY <2>1, <2>2
<1> QED
  BY <1>4 DEF IsSum

\* A sum over a finite set is one of the sums over its subsets.
LEMMA SumExists ==
  ASSUME NEW D, IsFiniteSet(D), NEW f \in [D -> Int]
  PROVE  \E it : IsSum(it, D, f) /\ SumFunction(f) = it[D]
<1> DEFINE G == [pair \in D \X Int |-> f[pair[1]] + pair[2]]
           c == [u \in SUBSET D |-> CHOOSE x \in u : TRUE]
           Fold(it) == it = [u \in SUBSET D |->
             IF u = {} THEN 0
             ELSE f[CHOOSE x \in u : TRUE] + it[u \ {CHOOSE x \in u : TRUE}]]
<1>1. Picks(c, D)
  BY DEF Picks
<1>2. G \in [D \X Int -> Int]
  OBVIOUS
<1>3. PICK it : IsFold(it, D, Int, 0, G, c)
  <2>1. 0 \in Int
    OBVIOUS
  <2> HIDE DEF G, c
  <2> QED
    BY <1>1, <1>2, <2>1, FoldExists
<1>4. \A u \in SUBSET D : u # {} => G[<<c[u], it[u \ {c[u]}]>>] = f[c[u]] + it[u \ {c[u]}]
  <2> SUFFICES ASSUME NEW u \in SUBSET D, u # {}
               PROVE  G[<<c[u], it[u \ {c[u]}]>>] = f[c[u]] + it[u \ {c[u]}]
    OBVIOUS
  <2>1. c[u] \in D /\ it[u \ {c[u]}] \in Int
    <3> HIDE DEF c, G
    <3> QED
      BY <1>1, <1>3 DEF Picks, IsFold
  <2> HIDE DEF c
  <2> QED
    BY <2>1
<1>5. /\ it \in [SUBSET D -> Int]
      /\ \A u \in SUBSET D : it[u] = IF u = {} THEN 0 ELSE f[c[u]] + it[u \ {c[u]}]
  <2> HIDE DEF G, c
  <2> QED
    BY <1>3, <1>4 DEF IsFold
<1>6. Fold(it)
  BY <1>5
<1>7. PICK jt : Fold(jt) /\ SumFunction(f) = jt[D]
  <2>1. SumFunction(f) = (CHOOSE jt : Fold(jt))[D]
    BY DEF SumFunction, SumFunctionOnSet, FoldFunctionOnSet, MapThenFoldSet, Fold
  <2> HIDE DEF Fold
  <2> QED
    BY <1>6, <2>1
<1>8. \A u \in SUBSET D : jt[u] = IF u = {} THEN 0 ELSE f[c[u]] + jt[u \ {c[u]}]
  BY <1>7
<1>9. DOMAIN jt = SUBSET D /\ jt = [u \in SUBSET D |-> jt[u]]
  BY <1>7
<1> HIDE DEF c, Fold
<1> DEFINE same == {u \in SUBSET D : jt[u] = it[u]}
           P == {n \in Nat : \A u \in SUBSET D : Cardinality(u) = n => jt[u] = it[u]}
<1>10. 0 \in P
  <2>1. \A u \in SUBSET D : Cardinality(u) = 0 => u = {}
    BY FS_Subset, FS_EmptySet
  <2> QED
    BY <1>5, <1>8, <2>1
<1>11. ASSUME NEW n \in Nat, n \in P PROVE n + 1 \in P
  <2> SUFFICES ASSUME NEW u \in SUBSET D, Cardinality(u) = n + 1 PROVE jt[u] = it[u]
    OBVIOUS
  <2>1. IsFiniteSet(u) /\ u # {}
    BY FS_Subset, FS_EmptySet
  <2>2. c[u] \in u
    BY <1>1, <2>1 DEF Picks
  <2>3. Cardinality(u \ {c[u]}) = n
    <3>1. \A y \in u : Cardinality(u \ {y}) = Cardinality(u) - 1
      BY <2>1, FS_RemoveElement
    <3> QED
      BY <2>2, <3>1
  <2>4. jt[u \ {c[u]}] = it[u \ {c[u]}]
    BY <1>11, <2>3
  <2> QED
    BY <1>5, <1>8, <2>1, <2>4
<1>12. Nat \subseteq P
  <2> HIDE DEF P
  <2> QED
    BY <1>10, <1>11, Inductive
<1>13. jt[D] = it[D]
  BY <1>12, FS_CardinalityType
<1>14. it[{}] = 0 /\ \A u \in SUBSET D : u # {} => it[u] = f[c[u]] + it[u \ {c[u]}]
  BY <1>5
<1>15. IsSum(it, D, f)
  BY <1>1, <1>5, <1>14, SumOrderFree
<1> QED
  BY <1>7, <1>13, <1>15

Agree(f, g, D) == \A i \in D : f[i] = g[i]

LEMMA SumStep ==
  ASSUME NEW D, NEW f, NEW it, IsSum(it, D, f), NEW u \in SUBSET D, NEW x \in D \ u
  PROVE  it[u \cup {x}] = f[x] + it[u] /\ it[u] \in Int
<1>1. u \cup {x} \in SUBSET D /\ x \in u \cup {x} /\ (u \cup {x}) \ {x} = u
  OBVIOUS
<1> DEFINE v == u \cup {x}
<1>2. v \in SUBSET D /\ x \in v /\ v \ {x} = u
  BY <1>1
<1> HIDE DEF v
<1>3. it[v] = f[x] + it[v \ {x}] /\ it[u] \in Int
  BY <1>2 DEF IsSum
<1> QED
  BY <1>2, <1>3 DEF v

LEMMA AgreeAt ==
  ASSUME NEW f, NEW g, NEW D, Agree(f, g, D), NEW x \in D
  PROVE  f[x] = g[x]
BY DEF Agree

\* Two sums of the same values agree.
LEMMA SumsAgree ==
  ASSUME NEW D, IsFiniteSet(D), NEW E, NEW f, NEW g, NEW it, NEW jt, IsSum(it, D, f), IsSum(jt, E, g),
         D \subseteq E, Agree(f, g, D)
  PROVE  it[D] = jt[D]
<1> DEFINE F == {u \in SUBSET D : it[u] = jt[u]}
<1>1. {} \in F
  BY DEF IsSum
<1>2. ASSUME NEW u \in SUBSET D, NEW x \in D \ u, u \in F PROVE u \cup {x} \in F
  <2>1. u \in SUBSET E /\ x \in E \ u
    OBVIOUS
  <2>2. it[u \cup {x}] = f[x] + it[u]
    BY SumStep
  <2>3. jt[u \cup {x}] = g[x] + jt[u]
    BY <2>1, SumStep
  <2>4. f[x] = g[x]
    BY AgreeAt
  <2> QED
    BY <1>2, <2>2, <2>3, <2>4
<1>3. D \in F
  <2> HIDE DEF F
  <2> QED
    BY <1>1, <1>2, InductiveOnSets
<1> QED
  BY <1>3

\* The sum of a function with the values of f on a subset of its domain.
LEMMA SumIs ==
  ASSUME NEW E, IsFiniteSet(E), NEW f, NEW it, IsSum(it, E, f), NEW D \in SUBSET E,
         NEW g \in [D -> Int], Agree(g, f, D)
  PROVE  SumFunction(g) = it[D]
<1>1. IsFiniteSet(D)
  BY FS_Subset
<1>2. PICK jt : IsSum(jt, D, g) /\ SumFunction(g) = jt[D]
  BY <1>1, SumExists
<1> QED
  BY <1>1, <1>2, SumsAgree

LEMMA SumType ==
  ASSUME NEW D, IsFiniteSet(D), NEW g \in [D -> Int]
  PROVE  SumFunction(g) \in Int
<1>1. PICK it : IsSum(it, D, g) /\ SumFunction(g) = it[D]
  BY SumExists
<1>2. it \in [SUBSET D -> Int] /\ D \in SUBSET D
  BY <1>1 DEF IsSum
<1> QED
  BY <1>1, <1>2

LEMMA SumOfNone ==
  ASSUME NEW g, DOMAIN g = {}, g \in [{} -> Int]
  PROVE  SumFunction(g) = 0
<1>1. IsFiniteSet({})
  BY FS_EmptySet
<1> QED
  BY <1>1, SumExists DEF IsSum

LEMMA TimesMore ==
  ASSUME NEW a \in Int, NEW n \in Int
  PROVE  a * (n + 1) = a * n + a
OBVIOUS

\* A sum lies between the number of its terms times their bounds.
LEMMA SumBetween ==
  ASSUME NEW D, IsFiniteSet(D), NEW g \in [D -> Int], NEW lo \in Int, NEW hi \in Int,
         \A i \in D : lo <= g[i] /\ g[i] <= hi
  PROVE  lo * Cardinality(D) <= SumFunction(g) /\ SumFunction(g) <= hi * Cardinality(D)
<1>1. PICK it : IsSum(it, D, g) /\ SumFunction(g) = it[D]
  BY SumExists
<1> DEFINE F == {u \in SUBSET D : lo * Cardinality(u) <= it[u] /\ it[u] <= hi * Cardinality(u)}
<1>2. {} \in F
  <2>1. Cardinality({}) = 0 /\ it[{}] = 0
    BY <1>1, FS_EmptySet DEF IsSum
  <2>2. lo * 0 = 0 /\ hi * 0 = 0
    OBVIOUS
  <2> QED
    BY <2>1, <2>2
<1>3. ASSUME NEW u \in SUBSET D, NEW x \in D \ u, u \in F PROVE u \cup {x} \in F
  <2>1. IsFiniteSet(u) /\ Cardinality(u) \in Nat /\ Cardinality(u \cup {x}) = Cardinality(u) + 1
    BY FS_Subset, FS_AddElement, FS_CardinalityType
  <2>2. it[u \cup {x}] = g[x] + it[u] /\ it[u] \in Int
    <3>1. u \cup {x} \in SUBSET D /\ x \in u \cup {x} /\ (u \cup {x}) \ {x} = u
      BY <1>3
    <3> QED
      BY <1>1, <3>1 DEF IsSum
  <2>3. /\ lo * (Cardinality(u) + 1) = lo * Cardinality(u) + lo
        /\ hi * (Cardinality(u) + 1) = hi * Cardinality(u) + hi
    BY <2>1, TimesMore
  <2>4. lo * Cardinality(u) \in Int /\ hi * Cardinality(u) \in Int
    BY <2>1
  <2>5. lo <= g[x] /\ g[x] <= hi /\ g[x] \in Int
    OBVIOUS
  <2>6. lo * Cardinality(u) <= it[u] /\ it[u] <= hi * Cardinality(u)
    BY <1>3
  <2> DEFINE a == lo * Cardinality(u)  b == hi * Cardinality(u)
  <2>7. a + lo <= g[x] + it[u] /\ g[x] + it[u] <= b + hi
    <3> HIDE DEF a, b
    <3> QED
      BY <2>2, <2>4, <2>5, <2>6 DEF a, b
  <2> QED
    BY <2>1, <2>2, <2>3, <2>7
<1>4. D \in F
  <2> HIDE DEF F
  <2> QED
    BY <1>2, <1>3, InductiveOnSets
<1> QED
  BY <1>1, <1>4

\* Counting by class: the members whose f is in P.
LEMMA SumOfClasses ==
  ASSUME NEW S, IsFiniteSet(S), NEW f, NEW P, IsFiniteSet(P)
  PROVE  SumFunction([p \in P |-> Cardinality({m \in S : f[m] = p})])
           = Cardinality({m \in S : f[m] \in P})
<1> DEFINE class(p) == {m \in S : f[m] = p}
           within(u) == {m \in S : f[m] \in u}
           g == [p \in P |-> Cardinality(class(p))]
           F == {u \in SUBSET P : \A it : IsSum(it, P, g) => it[u] = Cardinality(within(u))}
<1>1. \A p : IsFiniteSet(class(p)) /\ Cardinality(class(p)) \in Nat
  BY FS_Subset, FS_CardinalityType
<1>2. \A u : IsFiniteSet(within(u)) /\ Cardinality(within(u)) \in Nat
  BY FS_Subset, FS_CardinalityType
<1>3. g \in [P -> Int]
  <2> HIDE DEF class
  <2> QED
    BY <1>1
<1>4. {} \in F
  <2>1. within({}) = {}
    OBVIOUS
  <2> HIDE DEF within, g
  <2> QED
    BY <2>1, FS_EmptySet DEF IsSum
<1>5. ASSUME NEW u \in SUBSET P, NEW x \in P \ u, u \in F PROVE u \cup {x} \in F
  <2> SUFFICES ASSUME NEW it, IsSum(it, P, g) PROVE it[u \cup {x}] = Cardinality(within(u \cup {x}))
    OBVIOUS
  <2>1. it[u \cup {x}] = g[x] + it[u]
    <3>1. u \cup {x} \in SUBSET P /\ x \in u \cup {x} /\ (u \cup {x}) \ {x} = u
      BY <1>5
    <3> HIDE DEF g
    <3> QED
      BY <3>1 DEF IsSum
  <2>2. it[u] = Cardinality(within(u))
    <3> HIDE DEF within, g
    <3> QED
      BY <1>5
  <2>3. within(u \cup {x}) = within(u) \cup class(x) /\ within(u) \cap class(x) = {}
    OBVIOUS
  <2>4. g[x] = Cardinality(class(x))
    OBVIOUS
  <2>5. Cardinality(within(u) \cup class(x)) = Cardinality(within(u)) + Cardinality(class(x))
    <3> HIDE DEF within, class, g
    <3>1. Cardinality(within(u) \cup class(x))
            = Cardinality(within(u)) + Cardinality(class(x)) - Cardinality({})
      BY <1>1, <1>2, <2>3, FS_Union
    <3> QED
      BY <1>1, <1>2, <3>1, FS_EmptySet
  <2> HIDE DEF within, class, g
  <2>6. Cardinality(within(u \cup {x})) = Cardinality(within(u)) + Cardinality(class(x))
    BY <2>3, <2>5
  <2>7. it[u \cup {x}] = Cardinality(class(x)) + Cardinality(within(u))
    BY <2>1, <2>2, <2>4
  <2>8. Cardinality(class(x)) \in Nat /\ Cardinality(within(u)) \in Nat
    BY <1>1, <1>2
  <2> QED
    BY <2>6, <2>7, <2>8
<1>6. P \in F
  <2> HIDE DEF F
  <2> QED
    BY <1>4, <1>5, InductiveOnSets
<1>7. PICK it : IsSum(it, P, g) /\ SumFunction(g) = it[P]
  <2> HIDE DEF g
  <2> QED
    BY <1>3, SumExists
<1> HIDE DEF g, within
<1>8. SumFunction(g) = Cardinality(within(P))
  BY <1>6, <1>7
<1> QED
  BY <1>8 DEF g, within

LEMMA DivBetween ==
  ASSUME NEW s \in Int, NEW n \in Nat \ {0}, NEW lo \in Int, NEW hi \in Int,
         lo * n <= s, s <= hi * n
  PROVE  s \div n \in lo..hi
<1> DEFINE q == s \div n
<1>1. q \in Int /\ n * q <= s /\ s < n * q + n
  OBVIOUS
<1> HIDE DEF q
<1>2. n * q + n = n * (q + 1) /\ lo * n = n * lo /\ hi * n = n * hi
  BY <1>1
<1>3. \A a, b \in Int : a < b => n * a < n * b
  OBVIOUS
<1>4. ~(q + 1 <= lo)
  <2> SUFFICES ASSUME q + 1 <= lo PROVE FALSE
    OBVIOUS
  <2>1. n * (q + 1) <= n * lo
    BY <1>1, <1>3
  <2>2. n * q + n \in Int /\ n * lo \in Int
    BY <1>1
  <2> QED
    BY <1>1, <1>2, <2>1, <2>2
<1>5. ~(hi < q)
  <2> SUFFICES ASSUME hi < q PROVE FALSE
    OBVIOUS
  <2>1. n * hi < n * q
    BY <1>1, <1>3
  <2>2. n * q \in Int /\ n * hi \in Int
    BY <1>1
  <2> QED
    BY <1>1, <1>2, <2>1, <2>2
<1>6. s \div n \in Int
  OBVIOUS
<1> QED
  BY <1>1, <1>4, <1>5, <1>6 DEF q

-----------------------------------------------------------------------------
(* What is read of one dish. *)

LEMMA PageWhole ==
  ASSUME NEW T, NEW s \in Seq(T), NEW size \in Nat \ {0}
  PROVE  /\ Len(s) <= size => Slice(s, 1, size) = s
         /\ s # <<>> => s[1] \in ToSet(Slice(s, 1, size))
<1> DEFINE n == IF 1 * size > Len(s) THEN Len(s) ELSE 1 * size
<1>1. Len(s) \in Nat /\ DOMAIN s = 1..Len(s)
  BY LenProperties
<1>2. Slice(s, 1, size) = SubSeq(s, 1, n) /\ n \in Nat /\ n <= Len(s)
  <2>1. (1 - 1) * size + 1 = 1 /\ 1 * size = size
    OBVIOUS
  <2>2. n \in Nat /\ n <= Len(s)
    BY <1>1, <2>1
  <2>3. Slice(s, 1, size) = SubSeq(s, (1 - 1) * size + 1, n)
    BY DEF Slice
  <2> HIDE DEF n
  <2> QED
    BY <2>1, <2>2, <2>3
<1>3. Len(s) <= size => Slice(s, 1, size) = s
  <2>1. Len(s) <= size => n = Len(s)
    <3>1. 1 * size = size
      OBVIOUS
    <3>2. n = IF size > Len(s) THEN Len(s) ELSE size
      BY <3>1
    <3> HIDE DEF n
    <3> DEFINE l == Len(s)
    <3>3. l \in Nat /\ size \in Nat
      BY <1>1
    <3>4. n = IF size > l THEN l ELSE size
      BY <3>2
    <3> HIDE DEF l
    <3>5. l <= size => n = l
      BY <3>3, <3>4
    <3> QED
      BY <3>5 DEF l
  <2> HIDE DEF n
  <2> QED
    BY <1>2, <2>1, SubSeqFull
<1>4. s # <<>> => s[1] \in ToSet(Slice(s, 1, size))
  <2> SUFFICES ASSUME s # <<>> PROVE s[1] \in ToSet(SubSeq(s, 1, n))
    BY <1>2
  <2>1. n >= 1
    <3>1. Len(s) >= 1
      BY <1>1, EmptySeq
    <3> QED
      BY <1>1, <3>1
  <2> HIDE DEF n
  <2>2. \A i \in 1..n : s[i] \in T
    BY <1>1, <1>2
  <2>3. /\ SubSeq(s, 1, n) \in Seq(T) /\ Len(SubSeq(s, 1, n)) = n
        /\ \A i \in 1..(n - 1 + 1) : SubSeq(s, 1, n)[i] = s[1 + i - 1]
    BY <1>2, <2>1, <2>2, SubSeqProperties
  <2>4. DOMAIN SubSeq(s, 1, n) = 1..n /\ 1 \in 1..n /\ SubSeq(s, 1, n)[1] = s[1]
    BY <1>2, <2>1, <2>3, LenProperties
  <2> QED
    BY <2>4 DEF ToSet
<1> QED
  BY <1>3, <1>4

\* The items of a finite list are a finite set.
LEMMA ItemsFinite ==
  ASSUME NEW T, NEW s \in Seq(T)
  PROVE  IsFiniteSet(ToSet(s))
<1>1. DOMAIN s = 1..Len(s) /\ Len(s) \in Nat
  BY LenProperties
<1>2. IsFiniteSet(DOMAIN s)
  BY <1>1, FS_Interval
<1> QED
  BY <1>2, FiniteImage DEF ToSet

\* The mean score of ranked places lies between the lowest and the highest of them.
LEMMA MeanWithin ==
  ASSUME NEW S, IsFiniteSet(S), S # {}, NEW All, IsFiniteSet(All), S \subseteq All,
         \A r \in All : r.score \in Int
  PROVE  Average(S, LAMBDA r : r.score)
           \in Min({r.score : r \in All})..Max({r.score : r \in All})
<1> DEFINE scores == {r.score : r \in All}
           g == [r \in S |-> r.score]
<1>1. \A r \in S : r.score \in Int /\ r.score # None
  BY ScoringAssumption
<1>2. {r \in S : r.score # None} = S
  BY <1>1
<1>3. Average(S, LAMBDA r : r.score) = SumFunction(g) \div Cardinality(S)
  BY <1>2 DEF Average
<1>4. /\ Min(scores) \in Int /\ Max(scores) \in Int
      /\ \A r \in All : Min(scores) <= r.score /\ r.score <= Max(scores)
  <2> DEFINE f == [r \in All |-> r.score]
  <2>1. IsFiniteSet({f[r] : r \in All}) /\ {f[r] : r \in All} = scores
    <3>1. IsFiniteSet({f[r] : r \in All})
      <4> HIDE DEF f
      <4> QED
        BY FiniteImage
    <3> QED
      BY <3>1
  <2>2. scores \in SUBSET Int /\ scores # {} /\ \A r \in All : r.score \in scores
    OBVIOUS
  <2> HIDE DEF scores
  <2>3. /\ Max(scores) \in scores /\ \A y \in scores : y <= Max(scores)
        /\ Min(scores) \in scores /\ \A y \in scores : Min(scores) <= y
    BY <2>1, <2>2, Extremes
  <2> QED
    BY <2>2, <2>3
<1>5. g \in [S -> Int] /\ \A r \in S : Min(scores) <= g[r] /\ g[r] <= Max(scores)
  <2> HIDE DEF scores
  <2> QED
    BY <1>1, <1>4
<1>6. Cardinality(S) \in Nat \ {0}
  BY FS_CardinalityType, FS_EmptySet
<1> HIDE DEF g, scores
<1>7. /\ Min(scores) * Cardinality(S) <= SumFunction(g)
      /\ SumFunction(g) <= Max(scores) * Cardinality(S) /\ SumFunction(g) \in Int
  BY <1>4, <1>5, SumBetween, SumType
<1>8. SumFunction(g) \div Cardinality(S) \in Min(scores)..Max(scores)
  BY <1>4, <1>6, <1>7, DivBetween
<1> QED
  BY <1>3, <1>8 DEF scores

\* The first item of a list is one of its items.
LEMMA FirstIsItem ==
  ASSUME NEW T, NEW s \in Seq(T), s # <<>>
  PROVE  s[1] \in ToSet(s)
<1>1. 1 \in DOMAIN s
  BY LenProperties, EmptySeq
<1> QED
  BY <1>1 DEF ToSet

LEMMA FirstWithIsItem ==
  ASSUME NEW T, NEW ranked \in Seq(T), NEW badge, FirstWith(badge, ranked) # None
  PROVE  FirstWith(badge, ranked) \in ToSet(ranked)
<1> DEFINE holders == Among(ranked, {r \in ToSet(ranked) : badge \in r.badges})
<1>1. holders \in Seq(T) /\ ToSet(holders) \subseteq ToSet(ranked)
  BY AmongOf
<1>2. holders # <<>> /\ FirstWith(badge, ranked) = holders[1]
  BY DEF FirstWith
<1> HIDE DEF holders
<1> QED
  BY <1>1, <1>2, FirstIsItem

LEMMA HighlightIsItem ==
  ASSUME NEW T, NEW ranked \in Seq(T), NEW b \in DOMAIN Highlights(ranked), Highlights(ranked)[b] # None
  PROVE  Highlights(ranked)[b] \in ToSet(ranked)
<1>1. CASE b = "top"
  <2>1. ranked # <<>> /\ Highlights(ranked)[b] = ranked[1]
    BY <1>1 DEF Highlights
  <2> QED
    BY <2>1, FirstIsItem
<1>2. CASE b # "top"
  <2>1. \E badge : Highlights(ranked)[b] = FirstWith(badge, ranked)
    BY <1>2 DEF Highlights
  <2> QED
    BY <2>1, FirstWithIsItem
<1> QED
  BY <1>1, <1>2

\* The ranked half of a page holds ranked places of the list.
LEMMA PageIsRanked ==
  ASSUME NEW rows, IsFiniteSet(rows), NEW list \in Lists(rows, NoFilter, "score")
  PROVE  LET ranked == DishPage(list, 1, DETAIL_PAGE).ranked
         IN  /\ ranked \in Seq(Matching(rows, NoFilter))
             /\ \A r \in ToSet(ranked) : r \in Matching(rows, NoFilter) /\ r.ranked
<1> DEFINE M == Matching(rows, NoFilter)
           s == Slice(list, 1, DETAIL_PAGE)
           good == {r \in ToSet(s) : r.ranked}
<1>1. IsFiniteSet(M) /\ list \in SetToSeqs(M)
  <2>1. M \subseteq rows
    BY DEF Matching
  <2> HIDE DEF M
  <2>2. IsFiniteSet(M)
    BY <2>1, FS_Subset
  <2> QED
    BY <2>2 DEF M, Lists, Orders
<1> HIDE DEF M
<1>2. s \in Seq(M)
  <2>1. list \in Seq(M)
    BY <1>1, ListsAll
  <2>2. DETAIL_PAGE \in Nat \ {0} /\ 1 \in Nat \ {0}
    BY ListingAssumption
  <2> QED
    BY <2>1, <2>2, SliceWithin
<1> HIDE DEF s
<1>3. Among(s, good) \in Seq(M) /\ ToSet(Among(s, good)) = ToSet(s) \cap good
  BY <1>2, AmongOf
<1>4. ToSet(s) \subseteq M
  <2>1. DOMAIN s = 1..Len(s)
    BY <1>2, LenProperties
  <2> QED
    BY <1>2, <2>1 DEF ToSet
<1>5. DishPage(list, 1, DETAIL_PAGE).ranked = Among(s, good)
  BY DEF DishPage, s
<1> QED
  BY <1>3, <1>4, <1>5 DEF M

\* Every place that a small enough dish lists has its marker.
LEMMA MarkersShowAll ==
  ASSUME NEW rows, IsFiniteSet(rows), Cardinality(rows) <= MAP_LIMIT,
         NEW m \in Markers(rows, NoFilter)
  PROVE  ToSet(m) = Matching(rows, NoFilter)
<1> DEFINE M == Matching(rows, NoFilter)
<1>1. PICK s \in SetToSeqs(M) : m = Slice(s, 1, MAP_LIMIT)
  BY DEF Markers, Orders
<1>2. s \in SetToSeqs(M)
  OBVIOUS
<1>3. M \subseteq rows
  BY DEF Matching
<1> HIDE DEF M
<1>4. IsFiniteSet(M) /\ Cardinality(M) <= Cardinality(rows)
  BY <1>3, FS_Subset
<1>5. s \in Seq(M) /\ Len(s) = Cardinality(M) /\ ToSet(s) = M
  BY <1>2, <1>4, ListsAll
<1>6. Len(s) <= MAP_LIMIT /\ MAP_LIMIT \in Nat \ {0}
  <2>1. Cardinality(M) \in Nat /\ Cardinality(rows) \in Nat
    BY <1>4, FS_CardinalityType
  <2>2. MAP_LIMIT \in Nat \ {0}
    BY ListingAssumption
  <2> QED
    BY <1>4, <1>5, <2>1, <2>2
<1>7. m = s
  BY <1>1, <1>5, <1>6, PageWhole
<1> QED
  BY <1>5, <1>7 DEF M

\* Attributes on the good and on the bad side are said at most once by each mention.
LEMMA SidesApart ==
  ASSUME NEW mentions, IsFiniteSet(mentions), NEW a
  PROVE  LET good == AttributeCounts(mentions, TRUE)
             bad == AttributeCounts(mentions, FALSE)
             count(table) == IF a \in DOMAIN table THEN table[a] ELSE 0
         IN  count(good) + count(bad) <= Cardinality(Visible(mentions))
<1> DEFINE good == AttributeCounts(mentions, TRUE)
           bad == AttributeCounts(mentions, FALSE)
           count(table) == IF a \in DOMAIN table THEN table[a] ELSE 0
           V == Visible(mentions)
           up == {m \in V : (m.sentiment >= 0) = TRUE /\ a \in m.attributes}
           down == {m \in V : (m.sentiment >= 0) = FALSE /\ a \in m.attributes}
<1>1. V \subseteq mentions
  BY DEF Visible
<1>2. IsFiniteSet(V)
  <2> HIDE DEF V
  <2> QED
    BY <1>1, FS_Subset
<1>3. up \subseteq V /\ down \subseteq V /\ up \cap down = {} /\ up \cup down \subseteq V
  BY DEF up, down
<1>4. count(good) \in {0, Cardinality(up)}
  <2>1. {m \in {n \in V : (n.sentiment >= 0) = TRUE} : a \in m.attributes} = up
    OBVIOUS
  <2> QED
    BY <2>1 DEF AttributeCounts
<1>5. count(bad) \in {0, Cardinality(down)}
  <2>1. {m \in {n \in V : (n.sentiment >= 0) = FALSE} : a \in m.attributes} = down
    OBVIOUS
  <2> QED
    BY <2>1 DEF AttributeCounts
<1> HIDE DEF up, down, V, good, bad
<1>6. IsFiniteSet(up) /\ IsFiniteSet(down)
  BY <1>2, <1>3, FS_Subset
<1>7. /\ Cardinality(up) \in Nat /\ Cardinality(down) \in Nat /\ Cardinality(V) \in Nat
      /\ Cardinality(up) + Cardinality(down) <= Cardinality(V)
  <2>1. Cardinality(up) \in Nat /\ Cardinality(down) \in Nat /\ Cardinality(V) \in Nat
    BY <1>2, <1>6, FS_CardinalityType
  <2>2. Cardinality(up \cup down) = Cardinality(up) + Cardinality(down) - Cardinality(up \cap down)
    BY <1>6, FS_Union
  <2>3. Cardinality(up \cap down) = 0
    BY <1>3, FS_EmptySet
  <2>4. Cardinality(up \cup down) <= Cardinality(V)
    BY <1>2, <1>3, FS_Subset
  <2> QED
    BY <2>1, <2>2, <2>3, <2>4
<1>8. count(good) + count(bad) <= Cardinality(V)
  <2> HIDE DEF count
  <2> QED
    BY <1>4, <1>5, <1>7
<1> QED
  BY <1>8 DEF good, bad, V

\* The mentions of the recent periods are visible mentions.
LEMMA SignalsCount ==
  ASSUME NEW mentions, IsFiniteSet(mentions)
  PROVE  LET signals == RecentSignals(mentions, 1)
         IN  SumFunction([p \in DOMAIN signals |-> signals[p].mentions])
               <= Cardinality(Visible(mentions))
<1> DEFINE signals == RecentSignals(mentions, 1)
           V == Visible(mentions)
           dated == {m \in V : m.at # None /\ m.at >= 1}
           P == {m.at : m \in dated}
           f == [m \in dated |-> m.at]
           class(p) == {m \in dated : m.at = p}
<1>1. V \subseteq mentions /\ dated \subseteq V
  BY DEF Visible
<1>2. IsFiniteSet(V) /\ IsFiniteSet(dated) /\ Cardinality(dated) <= Cardinality(V)
  <2> HIDE DEF V, dated
  <2> QED
    BY <1>1, FS_Subset
<1>3. IsFiniteSet(P)
  <2> HIDE DEF dated
  <2>1. IsFiniteSet({f[m] : m \in dated})
    <3> HIDE DEF f
    <3> QED
      BY <1>2, FiniteImage
  <2>2. {f[m] : m \in dated} = P
    OBVIOUS
  <2> QED
    BY <2>1, <2>2
<1>4. DOMAIN signals = P /\ \A p \in P : signals[p].mentions = Cardinality(class(p))
  BY DEF RecentSignals
<1> HIDE DEF signals, dated, V
<1>5. \A p : class(p) = {m \in dated : f[m] = p}
  OBVIOUS
<1>6. [p \in DOMAIN signals |-> signals[p].mentions]
        = [p \in P |-> Cardinality({m \in dated : f[m] = p})]
  <2>1. \A p \in P : signals[p].mentions = Cardinality({m \in dated : f[m] = p})
    BY <1>4, <1>5
  <2> HIDE DEF P, f
  <2> QED
    BY <1>4, <2>1
<1>7. {m \in dated : f[m] \in P} = dated
  OBVIOUS
<1> HIDE DEF P, f
<1>8. SumFunction([p \in DOMAIN signals |-> signals[p].mentions]) = Cardinality(dated)
  <2>1. SumFunction([p \in P |-> Cardinality({m \in dated : f[m] = p})])
          = Cardinality({m \in dated : f[m] \in P})
    BY <1>2, <1>3, SumOfClasses
  <2> QED
    BY <1>6, <1>7, <2>1
<1> QED
  BY <1>2, <1>8 DEF signals, V

\* What the pages say of one dish agrees, for any number of mentions and for a dish of no more
\* places than the map has markers (get_dish_detail, get_dish_map, _dish_card).
THEOREM ReadsAgreeHolds ==
  (\A x \in Reads : Cardinality(x.rows) <= MAP_LIMIT) => (Spec => []ReadsAgree)
<1> SUFFICES ASSUME \A x \in Reads : Cardinality(x.rows) <= MAP_LIMIT PROVE Spec => []ReadsAgree
  OBVIOUS
<1>1. Passed => ReadsAgree
  <2> SUFFICES ASSUME Passed, Is("reads") PROVE ReadsAgree
    BY DEF ReadsAgree
  <2> DEFINE rows == input.rows
             mentions == input.mentions
             scores == {r.score : r \in {q \in rows : q.ranked}}
             card == DishCard(rows)
             signals == RecentSignals(mentions, 1)
             said == SumFunction([p \in DOMAIN signals |-> signals[p].mentions])
             good == AttributeCounts(mentions, TRUE)
             bad == AttributeCounts(mentions, FALSE)
             count(table, a) == IF a \in DOMAIN table THEN table[a] ELSE 0
  <2>1. /\ IsFiniteSet(rows) /\ IsFiniteSet(mentions) /\ Cardinality(rows) <= MAP_LIMIT
        /\ \A r \in rows : r.ranked \in BOOLEAN /\ (r.ranked => r.score \in Int)
    BY InputsAssumption DEF Passed, IsRead
  <2> SUFFICES ASSUME NEW d \in Details(rows, mentions)
               PROVE  /\ d.restaurants = card.restaurants
                      /\ d.status => card.status /\ d.score \in Min(scores)..Max(scores)
                      /\ \A b \in DOMAIN d.highlights : d.highlights[b] # None =>
                           \A m \in Markers(rows, NoFilter) :
                             d.highlights[b] \in ToSet(m) /\ d.highlights[b].ranked
                      /\ d.summary # None => d.summary.mentions = d.mentions
                      /\ said <= d.mentions
                      /\ \A a \in DOMAIN good \cup DOMAIN bad : count(good, a) + count(bad, a) <= d.mentions
                      /\ \A r \in rows : \A s \in Snippets(mentions, r.restaurant) :
                           ToSet(s) \subseteq Visible(mentions)
    BY DEF ReadsAgree
  <2>2. PICK list \in Lists(rows, NoFilter, "score") :
          LET ranked == DishPage(list, 1, DETAIL_PAGE).ranked
          IN  d = [score |-> Average(ToSet(Slice(ranked, 1, TOP)), LAMBDA r : r.score),
                   status |-> ranked # <<>>, highlights |-> Highlights(ranked),
                   mentions |-> Cardinality(Visible(mentions)), restaurants |-> RankedTotal(rows),
                   summary |-> Summary(mentions, rows)]
    BY DEF Details
  <2> DEFINE ranked == DishPage(list, 1, DETAIL_PAGE).ranked
             top == Slice(ranked, 1, TOP)
             All == {q \in rows : q.ranked}
  <2>3. /\ d.score = Average(ToSet(top), LAMBDA r : r.score) /\ d.status = (ranked # <<>>)
        /\ d.highlights = Highlights(ranked) /\ d.mentions = Cardinality(Visible(mentions))
        /\ d.restaurants = RankedTotal(rows) /\ d.summary = Summary(mentions, rows)
    BY <2>2
  <2>4. /\ ranked \in Seq(Matching(rows, NoFilter))
        /\ \A r \in ToSet(ranked) : r \in Matching(rows, NoFilter) /\ r.ranked
    BY <2>1, PageIsRanked
  <2>5. Matching(rows, NoFilter) \subseteq rows
    BY DEF Matching
  <2> HIDE DEF ranked
  <2>6. d.restaurants = card.restaurants
    BY <2>3 DEF RankedTotal, DishCard, CardRows
  <2>7. ASSUME d.status PROVE card.status /\ d.score \in Min(scores)..Max(scores)
    <3>1. ranked # <<>> /\ TOP \in Nat \ {0}
      BY <2>3, <2>7, ListingAssumption
    <3>2. top \in Seq(Matching(rows, NoFilter)) /\ ToSet(top) \subseteq ToSet(ranked)
      <4>1. 1 \in Nat \ {0}
        OBVIOUS
      <4> QED
        BY <2>4, <3>1, <4>1, SliceWithin
    <3>3. ranked[1] \in ToSet(top)
      BY <2>4, <3>1, PageWhole
    <3>4. ToSet(top) \subseteq All /\ ToSet(top) # {}
      BY <2>4, <2>5, <3>2, <3>3
    <3>5. card.status
      <4>1. CardRows(rows) # {}
        BY <3>4 DEF CardRows
      <4> QED
        BY <4>1 DEF DishCard
    <3>6. IsFiniteSet(ToSet(top))
      BY <3>2, ItemsFinite
    <3>7. IsFiniteSet(All) /\ \A r \in All : r.score \in Int
      <4>1. All \subseteq rows /\ \A r \in All : r.score \in Int
        BY <2>1
      <4> HIDE DEF All
      <4> QED
        BY <2>1, <4>1, FS_Subset
    <3> HIDE DEF top, All
    <3>8. Average(ToSet(top), LAMBDA r : r.score)
            \in Min({r.score : r \in All})..Max({r.score : r \in All})
      BY <3>4, <3>6, <3>7, MeanWithin
    <3> QED
      BY <2>3, <3>5, <3>8 DEF All
  <2>8. ASSUME NEW b \in DOMAIN d.highlights, d.highlights[b] # None, NEW m \in Markers(rows, NoFilter)
        PROVE  d.highlights[b] \in ToSet(m) /\ d.highlights[b].ranked
    <3>1. d.highlights[b] \in ToSet(ranked)
      BY <2>3, <2>4, <2>8, HighlightIsItem
    <3>2. ToSet(m) = Matching(rows, NoFilter)
      BY <2>1, MarkersShowAll
    <3> QED
      BY <2>4, <3>1, <3>2
  <2>9. d.summary # None => d.summary.mentions = d.mentions
    BY <2>3 DEF Summary
  <2>10. said <= d.mentions
    BY <2>1, <2>3, SignalsCount
  <2>11. ASSUME NEW a PROVE count(good, a) + count(bad, a) <= d.mentions
    BY <2>1, <2>3, SidesApart
  <2>12. ASSUME NEW r \in rows, NEW s \in Snippets(mentions, r.restaurant)
         PROVE  ToSet(s) \subseteq Visible(mentions)
    <3> DEFINE of == {m \in Visible(mentions) : m.restaurant = r.restaurant /\ m.snippet}
    <3>1. PICK t \in SetToSeqs(of) : s = Slice(t, 1, SNIPPETS)
      BY DEF Snippets, Orders
    <3>2. of \subseteq mentions /\ of \subseteq Visible(mentions)
      BY DEF Visible
    <3> HIDE DEF of
    <3>3. t \in Seq(of) /\ ToSet(t) = of
      <4>1. IsFiniteSet(of)
        BY <2>1, <3>2, FS_Subset
      <4> QED
        BY <4>1, ListsAll
    <3>4. SNIPPETS \in Nat \ {0} /\ 1 \in Nat \ {0}
      BY ListingAssumption
    <3> QED
      BY <3>1, <3>2, <3>3, <3>4, SliceWithin
  <2> QED
    BY <2>6, <2>7, <2>8, <2>9, <2>10, <2>11, <2>12
<1> QED
  BY <1>1, PassedHolds, PTL

-----------------------------------------------------------------------------
(* Trends. *)

\* The places of the observations in A, how many they are and how positive in all.
Ones(s, A) == {i \in DOMAIN s : s[i] \in A}
Tally(s, A) == Cardinality(Ones(s, A))
Sums(s, A) == SumFunction([i \in Ones(s, A) |-> s[i].positivity])

LEMMA TallyType ==
  ASSUME NEW T, \A o \in T : o.positivity \in Int, NEW s \in Seq(T), NEW A
  PROVE  /\ Ones(s, A) \subseteq 1..Len(s) /\ IsFiniteSet(Ones(s, A))
         /\ [i \in Ones(s, A) |-> s[i].positivity] \in [Ones(s, A) -> Int]
         /\ Tally(s, A) \in Nat /\ Sums(s, A) \in Int
<1>1. DOMAIN s = 1..Len(s) /\ Len(s) \in Nat /\ \A i \in DOMAIN s : s[i].positivity \in Int
  BY LenProperties
<1>2. Ones(s, A) \subseteq DOMAIN s
  BY DEF Ones
<1>3. IsFiniteSet(Ones(s, A))
  <2>1. IsFiniteSet(1..Len(s))
    BY <1>1, FS_Interval
  <2> QED
    BY <1>1, <1>2, <2>1, FS_Subset
<1>4. [i \in Ones(s, A) |-> s[i].positivity] \in [Ones(s, A) -> Int]
  BY <1>1, <1>2
<1> QED
  BY <1>1, <1>2, <1>3, <1>4, FS_CardinalityType, SumType DEF Tally, Sums

LEMMA TallyAppend ==
  ASSUME NEW T, \A o \in T : o.positivity \in Int, NEW s \in Seq(T), NEW x \in T, NEW A
  PROVE  /\ Tally(Append(s, x), A) = Tally(s, A) + (IF x \in A THEN 1 ELSE 0)
         /\ Sums(Append(s, x), A) = Sums(s, A) + (IF x \in A THEN x.positivity ELSE 0)
<1> DEFINE t == Append(s, x)  n == Len(s)  old == Ones(s, A)  new == Ones(t, A)
           f == [i \in new |-> t[i].positivity]  g == [i \in old |-> s[i].positivity]
<1>1. /\ t \in Seq(T) /\ n \in Nat /\ DOMAIN s = 1..n /\ DOMAIN t = 1..(n + 1)
      /\ t[n + 1] = x /\ \A i \in 1..n : t[i] = s[i]
  BY LenProperties, AppendProperties
<1> HIDE DEF t, n
<1>2. new = old \cup (IF x \in A THEN {n + 1} ELSE {}) /\ n + 1 \notin old
  <2>1. 1..(n + 1) = (1..n) \cup {n + 1} /\ n + 1 \notin 1..n
    BY <1>1
  <2> QED
    BY <1>1, <2>1 DEF Ones
<1>3. /\ IsFiniteSet(old) /\ IsFiniteSet(new) /\ f \in [new -> Int] /\ g \in [old -> Int]
      /\ Tally(s, A) \in Nat /\ Sums(s, A) \in Int /\ old \subseteq 1..n
  BY <1>1, TallyType DEF n
<1>4. /\ \A i \in old : f[i] = g[i]
      /\ x \in A => f[n + 1] = x.positivity
  BY <1>1, <1>2, <1>3
<1>5. Sums(s, A) = SumFunction(g) /\ Sums(t, A) = SumFunction(f)
  BY DEF Sums
<1>6. Tally(s, A) = Cardinality(old) /\ Tally(t, A) = Cardinality(new)
  BY DEF Tally
<1> HIDE DEF old, new, f, g
<1>7. PICK it : IsSum(it, new, f) /\ SumFunction(f) = it[new]
  BY <1>3, SumExists
<1>8. SumFunction(g) = it[old]
  <2>1. old \in SUBSET new
    BY <1>2
  <2>2. Agree(g, f, old)
    BY <1>4 DEF Agree
  <2>3. IsFiniteSet(new) /\ g \in [old -> Int] /\ IsSum(it, new, f)
    BY <1>3, <1>7
  <2> QED
    BY <2>1, <2>2, <2>3, SumIs
<1>9. CASE x \in A
  <2>1. new = old \cup {n + 1} /\ n + 1 \in new /\ new \ {n + 1} = old /\ new \in SUBSET new
    BY <1>2, <1>9
  <2>2. it[new] = f[n + 1] + it[old]
    BY <1>7, <2>1 DEF IsSum
  <2>3. Cardinality(new) = Cardinality(old) + 1
    BY <1>2, <1>3, <2>1, FS_AddElement
  <2>4. x.positivity \in Int
    OBVIOUS
  <2> QED
    BY <1>3, <1>4, <1>5, <1>6, <1>7, <1>8, <1>9, <2>2, <2>3, <2>4 DEF t
<1>10. CASE x \notin A
  <2>1. new = old
    BY <1>2, <1>10
  <2> QED
    BY <1>3, <1>5, <1>6, <1>7, <1>8, <1>10, <2>1 DEF t
<1> QED
  BY <1>9, <1>10

\* Leaving out other observations changes neither.
LEMMA TallyAmong ==
  ASSUME NEW T, \A o \in T : o.positivity \in Int, NEW S, NEW A \in SUBSET S
  PROVE  \A s \in Seq(T) : Tally(Among(s, S), A) = Tally(s, A) /\ Sums(Among(s, S), A) = Sums(s, A)
<1> DEFINE F == {s \in Seq(T) : /\ Tally(Among(s, S), A) = Tally(s, A)
                                /\ Sums(Among(s, S), A) = Sums(s, A)}
<1>1. <<>> \in F
  BY AmongEmpty, EmptySeq
<1>2. ASSUME NEW s \in Seq(T), NEW x \in T, s \in F PROVE Append(s, x) \in F
  <2>1. Append(s, x) \in Seq(T) /\ Among(s, S) \in Seq(T)
    BY AppendProperties, AmongOf
  <2>2. CASE x \in S
    <3>1. Among(Append(s, x), S) = Append(Among(s, S), x)
      BY <2>2, AmongAppend
    <3>2. /\ Tally(Append(s, x), A) = Tally(s, A) + (IF x \in A THEN 1 ELSE 0)
          /\ Sums(Append(s, x), A) = Sums(s, A) + (IF x \in A THEN x.positivity ELSE 0)
      BY TallyAppend
    <3>3. /\ Tally(Append(Among(s, S), x), A) = Tally(Among(s, S), A) + (IF x \in A THEN 1 ELSE 0)
          /\ Sums(Append(Among(s, S), x), A)
               = Sums(Among(s, S), A) + (IF x \in A THEN x.positivity ELSE 0)
      BY <2>1, TallyAppend
    <3> QED
      BY <1>2, <2>1, <3>1, <3>2, <3>3
  <2>3. CASE x \notin S
    <3>1. Among(Append(s, x), S) = Among(s, S)
      BY <2>3, AmongAppend
    <3>2. x \notin A
      BY <2>3
    <3>3. Tally(Append(s, x), A) = Tally(s, A) + 0 /\ Sums(Append(s, x), A) = Sums(s, A) + 0
      BY <3>2, TallyAppend
    <3>4. Tally(s, A) \in Nat /\ Sums(s, A) \in Int
      BY TallyType
    <3> QED
      BY <1>2, <2>1, <3>1, <3>3, <3>4
  <2> QED
    BY <2>2, <2>3
<1>3. Seq(T) \subseteq F
  <2> HIDE DEF F
  <2> QED
    BY <1>1, <1>2, InductiveOnSeqs
<1> QED
  BY <1>3

\* Opinions turned around sum to what is missing to a hundred each.
LEMMA SumTurned ==
  ASSUME NEW S, IsFiniteSet(S), NEW g \in [S -> Int], NEW h \in [S -> Int],
         \A i \in S : h[i] = 100 - g[i]
  PROVE  SumFunction(h) = 100 * Cardinality(S) - SumFunction(g)
<1>1. PICK it : IsSum(it, S, g) /\ SumFunction(g) = it[S]
  BY SumExists
<1>2. PICK jt : IsSum(jt, S, h) /\ SumFunction(h) = jt[S]
  BY SumExists
<1> DEFINE F == {u \in SUBSET S : jt[u] = 100 * Cardinality(u) - it[u]}
<1>3. {} \in F
  BY <1>1, <1>2, FS_EmptySet DEF IsSum
<1>4. ASSUME NEW u \in SUBSET S, NEW x \in S \ u, u \in F PROVE u \cup {x} \in F
  <2>1. IsFiniteSet(u) /\ Cardinality(u) \in Nat /\ Cardinality(u \cup {x}) = Cardinality(u) + 1
    BY FS_Subset, FS_AddElement, FS_CardinalityType
  <2>3. it[u \cup {x}] = g[x] + it[u] /\ it[u] \in Int
    BY <1>1, SumStep
  <2>6. jt[u \cup {x}] = h[x] + jt[u]
    BY <1>2, SumStep
  <2>4. jt[u] = 100 * Cardinality(u) - it[u]
    BY <1>4
  <2>5. g[x] \in Int /\ h[x] = 100 - g[x]
    OBVIOUS
  <2>7. jt[u \cup {x}] = 100 * Cardinality(u \cup {x}) - it[u \cup {x}]
    BY <2>1, <2>3, <2>4, <2>5, <2>6
  <2> QED
    BY <2>7
<1>5. S \in F
  <2> HIDE DEF F
  <2> QED
    BY <1>3, <1>4, InductiveOnSets
<1> QED
  BY <1>1, <1>2, <1>5

\* What Trend makes of the two windows: how many they hold and how positive they are in all.
Verdict(nr, nh, sr, sh) ==
  LET delta == sr * nh - sh * nr
      threshold == DELTA_THRESHOLD * nr * nh
      surge == nr * (HISTORICAL - RECENT) >= SURGE_RATIO * nh * RECENT /\ nr >= SURGE_MIN_RECENT
      result(direction, significant) == [direction |-> direction, significant |-> significant]
  IN  IF nr < MIN_OBSERVATIONS \/ nh < MIN_OBSERVATIONS THEN result(None, FALSE)
      ELSE IF delta >= threshold THEN result("rising", TRUE)
      ELSE IF delta <= -threshold THEN result("declining", TRUE)
      ELSE IF surge THEN result("rising", FALSE)
      ELSE result("stable", FALSE)

RecentOf(T) == {o \in T : o.age # None /\ o.age \in 0..RECENT}
OlderOf(T) == {o \in T : o.age # None /\ o.age \in (RECENT + 1)..HISTORICAL}

LEMMA TrendIs ==
  ASSUME NEW T, NEW s \in Seq(T)
  PROVE  /\ RecentOnes(s) = Ones(s, RecentOf(T)) /\ HistoricalOnes(s) = Ones(s, OlderOf(T))
         /\ Trend(s) = Verdict(Tally(s, RecentOf(T)), Tally(s, OlderOf(T)),
                               Sums(s, RecentOf(T)), Sums(s, OlderOf(T)))
<1>1. \A i \in DOMAIN s : s[i] \in T
  BY LenProperties
<1>2. RecentOnes(s) = Ones(s, RecentOf(T)) /\ HistoricalOnes(s) = Ones(s, OlderOf(T))
  BY <1>1 DEF RecentOnes, HistoricalOnes, Dated, Ones, RecentOf, OlderOf
<1> QED
  BY <1>2 DEF Trend, Verdict, Tally, Sums

\* Opinions turned around turn a clear trend around.
LEMMA VerdictTurned ==
  ASSUME NEW nr \in Nat, NEW nh \in Nat, NEW sr \in Int, NEW sh \in Int,
         Verdict(nr, nh, sr, sh).significant
  PROVE  LET there == Verdict(nr, nh, sr, sh)
             back == Verdict(nr, nh, 100 * nr - sr, 100 * nh - sh)
         IN  /\ back.significant
             /\ \/ there.direction = "rising" /\ back.direction = "declining"
                \/ there.direction = "declining" /\ back.direction = "rising"
<1> DEFINE delta == sr * nh - sh * nr
           threshold == DELTA_THRESHOLD * nr * nh
<1>1. MIN_OBSERVATIONS \in Nat \ {0} /\ DELTA_THRESHOLD \in Nat \ {0}
  BY ScoringAssumption
<1>2. nr >= MIN_OBSERVATIONS /\ nh >= MIN_OBSERVATIONS /\ (delta >= threshold \/ delta <= -threshold)
  <2> HIDE DEF delta, threshold
  <2> QED
    BY <1>1 DEF Verdict, delta, threshold
<1>3. (100 * nr - sr) * nh - (100 * nh - sh) * nr = -delta /\ delta \in Int
  <2>1. (100 * nr - sr) * nh = 100 * nr * nh - sr * nh
    OBVIOUS
  <2>2. (100 * nh - sh) * nr = 100 * nh * nr - sh * nr
    OBVIOUS
  <2>3. 100 * nr * nh = 100 * nh * nr /\ 100 * nr * nh \in Int /\ sr * nh \in Int /\ sh * nr \in Int
    OBVIOUS
  <2> QED
    BY <2>1, <2>2, <2>3
<1>4. threshold \in Int /\ threshold > 0
  <2>1. nr > 0 /\ nh > 0
    BY <1>1, <1>2
  <2>2. DELTA_THRESHOLD * nr > 0 /\ DELTA_THRESHOLD * nr \in Int
    BY <1>1, <2>1
  <2> QED
    BY <2>1, <2>2
<1> HIDE DEF delta, threshold
<1>5. CASE delta >= threshold
  <2>1. Verdict(nr, nh, sr, sh).direction = "rising"
    BY <1>1, <1>2, <1>5 DEF Verdict, delta, threshold
  <2>2. ~(-delta >= threshold) /\ -delta <= -threshold
    BY <1>3, <1>4, <1>5
  <2>3. Verdict(nr, nh, 100 * nr - sr, 100 * nh - sh) = [direction |-> "declining", significant |-> TRUE]
    BY <1>1, <1>2, <1>3, <2>2 DEF Verdict, threshold
  <2> QED
    BY <2>1, <2>3
<1>6. CASE ~(delta >= threshold)
  <2>1. Verdict(nr, nh, sr, sh).direction = "declining"
    BY <1>1, <1>2, <1>6 DEF Verdict, delta, threshold
  <2>2. -delta >= threshold
    BY <1>2, <1>3, <1>4, <1>6
  <2>3. Verdict(nr, nh, 100 * nr - sr, 100 * nh - sh) = [direction |-> "rising", significant |-> TRUE]
    BY <1>1, <1>2, <1>3, <2>2 DEF Verdict, threshold
  <2> QED
    BY <2>1, <2>3
<1> QED
  BY <1>5, <1>6

LEMMA TrendTurned ==
  ASSUME NEW T, \A o \in T : {"age", "positivity"} \subseteq DOMAIN o /\ o.positivity \in Int,
         NEW s \in Seq(T)
  PROVE  Trend([i \in DOMAIN s |-> [s[i] EXCEPT !.positivity = 100 - @]])
           = Verdict(Tally(s, RecentOf(T)), Tally(s, OlderOf(T)),
                     100 * Tally(s, RecentOf(T)) - Sums(s, RecentOf(T)),
                     100 * Tally(s, OlderOf(T)) - Sums(s, OlderOf(T)))
<1> DEFINE turned == [i \in DOMAIN s |-> [s[i] EXCEPT !.positivity = 100 - @]]
           g(A) == [i \in Ones(s, A) |-> s[i].positivity]
           h(A) == [i \in Ones(s, A) |-> turned[i].positivity]
<1>1. \A i \in DOMAIN s : s[i] \in T
  BY LenProperties
<1>2. \A i \in DOMAIN s : turned[i].age = s[i].age /\ turned[i].positivity = 100 - s[i].positivity
  BY <1>1
<1>3. DOMAIN turned = DOMAIN s
  OBVIOUS
<1> HIDE DEF turned
<1>4. RecentOnes(s) = Ones(s, RecentOf(T)) /\ HistoricalOnes(s) = Ones(s, OlderOf(T))
  BY TrendIs
<1>5. Dated(turned) = Dated(s)
  BY <1>2, <1>3 DEF Dated
<1>6. RecentOnes(turned) = RecentOnes(s) /\ HistoricalOnes(turned) = HistoricalOnes(s)
  BY <1>2, <1>5 DEF RecentOnes, HistoricalOnes, Dated
<1>7. \A A : SumFunction(h(A)) = 100 * Tally(s, A) - Sums(s, A)
  <2> TAKE A
  <2>1. IsFiniteSet(Ones(s, A)) /\ g(A) \in [Ones(s, A) -> Int] /\ Ones(s, A) \subseteq DOMAIN s
    BY TallyType DEF Ones
  <2>2. \A i \in Ones(s, A) : h(A)[i] = 100 - g(A)[i]
    BY <1>2, <2>1
  <2>3. h(A) \in [Ones(s, A) -> Int]
    <3>1. \A i \in Ones(s, A) : h(A)[i] \in Int
      BY <2>1, <2>2
    <3> QED
      BY <3>1
  <2>4. Sums(s, A) = SumFunction(g(A)) /\ Tally(s, A) = Cardinality(Ones(s, A))
    BY DEF Sums, Tally
  <2> HIDE DEF g, h
  <2> QED
    BY <2>1, <2>2, <2>3, <2>4, SumTurned
<1>8. Trend(turned) = Verdict(Cardinality(RecentOnes(s)), Cardinality(HistoricalOnes(s)),
                              SumFunction(h(RecentOf(T))), SumFunction(h(OlderOf(T))))
  BY <1>4, <1>6 DEF Trend, Verdict
<1> HIDE DEF h
<1>9. Trend(turned) = Verdict(Tally(s, RecentOf(T)), Tally(s, OlderOf(T)),
                              100 * Tally(s, RecentOf(T)) - Sums(s, RecentOf(T)),
                              100 * Tally(s, OlderOf(T)) - Sums(s, OlderOf(T)))
  BY <1>4, <1>7, <1>8 DEF Tally
<1> QED
  BY <1>9 DEF turned

\* Evidence from the recent window only has no trend.
LEMMA RecentOnly ==
  ASSUME NEW T, \A o \in T : o.positivity \in Int, NEW s \in Seq(T)
  PROVE  Trend(Among(s, {o \in ToSet(s) : o.age \in 0..RECENT})).direction = None
<1> DEFINE S == {o \in ToSet(s) : o.age \in 0..RECENT}
           u == Among(s, S)
<1>1. u \in Seq(T) /\ ToSet(u) \subseteq S
  BY AmongOf
<1>2. RECENT \in Int /\ MIN_OBSERVATIONS \in Nat \ {0}
  BY ScoringAssumption
<1>3. Ones(u, OlderOf(T)) = {}
  <2>1. \A i \in DOMAIN u : u[i] \in S
    BY <1>1 DEF ToSet
  <2>2. S \cap OlderOf(T) = {}
    BY <1>2 DEF OlderOf
  <2> HIDE DEF u, S
  <2> QED
    BY <2>1, <2>2 DEF Ones
<1>4. Tally(u, OlderOf(T)) = 0
  BY <1>3, FS_EmptySet DEF Tally
<1> HIDE DEF u
<1>5. Trend(u).direction = None
  BY <1>1, <1>2, <1>4, TrendIs DEF Verdict
<1> QED
  BY <1>5 DEF u

\* Undated evidence and evidence from outside the windows change nothing.
LEMMA PlacedOnly ==
  ASSUME NEW T, \A o \in T : o.positivity \in Int, NEW s \in Seq(T), ToSet(s) = T
  PROVE  Trend(Among(s, {o \in ToSet(s) : o.age \in 0..HISTORICAL})) = Trend(s)
<1> DEFINE S == {o \in ToSet(s) : o.age \in 0..HISTORICAL}
           u == Among(s, S)
<1>1. u \in Seq(T)
  BY AmongOf
<1>2. RecentOf(T) \subseteq S /\ OlderOf(T) \subseteq S
  BY ScoringAssumption DEF RecentOf, OlderOf
<1>3. \A A \in SUBSET S : Tally(u, A) = Tally(s, A) /\ Sums(u, A) = Sums(s, A)
  <2> HIDE DEF S
  <2> QED
    BY TallyAmong
<1> HIDE DEF u, S
<1>4. Trend(u) = Trend(s)
  BY <1>1, <1>2, <1>3, TrendIs
<1> QED
  BY <1>4 DEF u, S

\* Whatever the first n of an order leave out is not to come before any of them.
LEMMA FirstItems ==
  ASSUME NEW S, IsFiniteSet(S), NEW s \in SetToSeqs(S), NEW n \in Nat \ {0},
         NEW left \in S \ ToSet(Slice(s, 1, n))
  PROVE  /\ Len(Slice(s, 1, n)) = n /\ DOMAIN Slice(s, 1, n) = 1..n
         /\ \E j \in DOMAIN s : /\ s[j] = left
                                /\ \A i \in 1..n : /\ i \in 1..(j - 1) /\ i \in DOMAIN s
                                                   /\ Slice(s, 1, n)[i] = s[i]
<1>1. s \in Seq(S) /\ DOMAIN s = 1..Len(s) /\ Len(s) \in Nat /\ ToSet(s) = S
  BY ListsAll, LenProperties
<1>2. PICK j \in DOMAIN s : s[j] = left
  BY <1>1 DEF ToSet
<1>3. (1 - 1) * n + 1 = 1 /\ 1 * n = n
  OBVIOUS
<1> DEFINE m == IF n > Len(s) THEN Len(s) ELSE n
<1>4. Slice(s, 1, n) = SubSeq(s, 1, m) /\ m \in Nat /\ m <= Len(s)
  <2>1. m = IF 1 * n > Len(s) THEN Len(s) ELSE 1 * n
    BY <1>3
  <2>2. Slice(s, 1, n) = SubSeq(s, (1 - 1) * n + 1, m)
    BY <2>1 DEF Slice
  <2>3. m \in Nat /\ m <= Len(s)
    BY <1>1
  <2> HIDE DEF m
  <2> QED
    BY <1>3, <2>2, <2>3
<1>5. Len(SubSeq(s, 1, m)) = m /\ DOMAIN SubSeq(s, 1, m) = 1..m
      /\ \A i \in 1..m : SubSeq(s, 1, m)[i] = s[i]
  <2> HIDE DEF m
  <2>1. SubSeq(s, 1, m) = [i \in 1..m |-> s[i]]
    BY <1>1, <1>4
  <2> QED
    BY <1>1, <1>4, <2>1
<1>6. j > m
  <2> SUFFICES ASSUME j <= m PROVE FALSE
    BY <1>1, <1>4
  <2>1. j \in DOMAIN Slice(s, 1, n) /\ Slice(s, 1, n)[j] = left
    BY <1>1, <1>2, <1>4, <1>5
  <2> QED
    BY <2>1 DEF ToSet
<1>7. m = n
  <2>1. j <= Len(s) /\ j \in Nat
    BY <1>1
  <2>2. ~(n > Len(s))
    BY <1>1, <1>6, <2>1
  <2> QED
    BY <2>2
<1> HIDE DEF m
<1>8. \A i \in 1..n : i \in 1..(j - 1) /\ i \in DOMAIN s /\ Slice(s, 1, n)[i] = s[i]
  BY <1>1, <1>4, <1>5, <1>6, <1>7
<1> QED
  BY <1>2, <1>4, <1>5, <1>7, <1>8

\* A dish's trend is that of its two windows, opinions turned around turn it around, and the
\* trending list leaves out nothing that has more to show than what it lists (compute_trend,
\* list_trending).
THEOREM TrendHonestHolds == Spec => []TrendHonest
<1>1. Passed => TrendHonest
  <2> SUFFICES ASSUME Passed PROVE TrendHonest
    OBVIOUS
  <2>1. ASSUME Is("trend")
        PROVE  LET obs == input.obs
                   turned == [i \in DOMAIN obs |-> [obs[i] EXCEPT !.positivity = 100 - @]]
                   placed == Among(obs, {o \in ToSet(obs) : o.age \in 0..HISTORICAL})
                   recent == Among(obs, {o \in ToSet(obs) : o.age \in 0..RECENT})
                   opposite == [rising |-> "declining", declining |-> "rising"]
               IN  /\ Trend(recent).direction = None
                   /\ Trend(placed) = Trend(obs)
                   /\ Trend(obs).significant =>
                        /\ Trend(turned).direction = opposite[Trend(obs).direction]
                        /\ Trend(turned).significant
    <3> DEFINE obs == input.obs  T == ToSet(obs)
               turned == [i \in DOMAIN obs |-> [obs[i] EXCEPT !.positivity = 100 - @]]
               nr == Tally(obs, RecentOf(T))  nh == Tally(obs, OlderOf(T))
               sr == Sums(obs, RecentOf(T))  sh == Sums(obs, OlderOf(T))
    <3>1. /\ obs \in Seq(T)
          /\ \A o \in T : {"age", "positivity"} \subseteq DOMAIN o /\ o.positivity \in Int
      <4>1. IsEvidence(input)
        BY <2>1, InputsAssumption DEF Passed
      <4> QED
        BY <4>1 DEF IsEvidence
    <3> HIDE DEF obs, T
    <3>2. /\ Trend(Among(obs, {o \in ToSet(obs) : o.age \in 0..RECENT})).direction = None
          /\ Trend(Among(obs, {o \in ToSet(obs) : o.age \in 0..HISTORICAL})) = Trend(obs)
      BY <3>1, RecentOnly, PlacedOnly DEF T
    <3>3. nr \in Nat /\ nh \in Nat /\ sr \in Int /\ sh \in Int
      BY <3>1, TallyType
    <3>4. Trend(obs) = Verdict(nr, nh, sr, sh)
      BY <3>1, TrendIs
    <3>5. Trend(turned) = Verdict(nr, nh, 100 * nr - sr, 100 * nh - sh)
      BY <3>1, TrendTurned
    <3>6. ASSUME Trend(obs).significant
          PROVE  /\ Trend(turned).significant
                 /\ \/ Trend(obs).direction = "rising" /\ Trend(turned).direction = "declining"
                    \/ Trend(obs).direction = "declining" /\ Trend(turned).direction = "rising"
      <4> HIDE DEF nr, nh, sr, sh, turned
      <4> QED
        <5>1. Verdict(nr, nh, sr, sh).significant
          BY <3>4, <3>6
        <5> DEFINE there == Verdict(nr, nh, sr, sh)
                   back == Verdict(nr, nh, 100 * nr - sr, 100 * nh - sh)
        <5>2. /\ back.significant
              /\ \/ there.direction = "rising" /\ back.direction = "declining"
                 \/ there.direction = "declining" /\ back.direction = "rising"
          BY <3>3, <5>1, VerdictTurned
        <5> HIDE DEF there, back
        <5> QED
          BY <3>4, <3>5, <5>2 DEF there, back
    <3> HIDE DEF turned, nr, nh, sr, sh
    <3>7. Trend(obs).significant =>
            /\ Trend(turned).direction = [rising |-> "declining", declining |-> "rising"][Trend(obs).direction]
            /\ Trend(turned).significant
      BY <3>6
    <3> QED
      BY <3>2, <3>7 DEF obs, turned
  <2>2. ASSUME Is("trending"), NEW n \in 1..Cardinality(input.metrics),
               NEW t \in Trending(input.metrics, "rising", n),
               NEW left \in {m \in input.metrics : m.direction = "rising"} \ ToSet(t)
        PROVE  /\ Len(t) = n
               /\ \A i \in DOMAIN t : \/ t[i].significant /\ ~left.significant
                                      \/ /\ t[i].significant = left.significant
                                         /\ left.delta # None =>
                                              t[i].delta # None /\ Abs(t[i].delta) >= Abs(left.delta)
    <3> DEFINE S == {m \in input.metrics : m.direction = "rising"}
    <3>1. /\ IsFiniteSet(input.metrics)
          /\ \A m \in input.metrics : m.significant \in BOOLEAN /\ m.delta \in Int \cup {None}
      <4>1. IsMetric(input)
        BY <2>2, InputsAssumption DEF Passed
      <4> QED
        BY <4>1 DEF IsMetric
    <3>2. n \in Nat \ {0} /\ IsFiniteSet(S)
      BY <2>2, <3>1, FS_Subset, FS_CardinalityType
    <3>3. PICK s \in SetToSeqs(S) :
            /\ t = Slice(s, 1, n)
            /\ \A i \in DOMAIN s : \A j \in 1..(i - 1) :
                 ~(\/ s[i].significant /\ ~s[j].significant
                   \/ /\ s[i].significant = s[j].significant
                      /\ Descending(Size(s[i].delta), Size(s[j].delta)))
      BY <2>2 DEF Trending, Orders
    <3>4. left \in S /\ left \in input.metrics /\ left \notin ToSet(t)
      BY <2>2
    <3>5. \A i \in DOMAIN s : s[i] \in input.metrics
      <4>1. s \in [1..Cardinality(S) -> S]
        BY <3>2, <3>3, ListsAll
      <4> QED
        BY <4>1
    <3> HIDE DEF S
    <3>6. /\ Len(t) = n /\ DOMAIN t = 1..n
          /\ \E j \in DOMAIN s : s[j] = left /\ \A i \in 1..n : i \in 1..(j - 1) /\ i \in DOMAIN s /\ t[i] = s[i]
      BY <3>2, <3>3, <3>4, FirstItems
    <3>7. PICK j \in DOMAIN s : s[j] = left /\ \A i \in 1..n : i \in 1..(j - 1) /\ i \in DOMAIN s /\ t[i] = s[i]
      BY <3>6
    <3>8. ASSUME NEW i \in DOMAIN t
          PROVE  \/ t[i].significant /\ ~left.significant
                 \/ /\ t[i].significant = left.significant
                    /\ left.delta # None => t[i].delta # None /\ Abs(t[i].delta) >= Abs(left.delta)
      <4>1. /\ ~(left.significant /\ ~t[i].significant)
            /\ ~(/\ left.significant = t[i].significant
                 /\ Descending(Size(left.delta), Size(t[i].delta)))
        BY <3>3, <3>6, <3>7
      <4>2. /\ left.significant \in BOOLEAN /\ t[i].significant \in BOOLEAN
            /\ left.delta \in Int \cup {None} /\ t[i].delta \in Int \cup {None}
        BY <3>1, <3>4, <3>5, <3>6, <3>7
      <4>3. None \notin Int
        BY ScoringAssumption
      <4> DEFINE a == left.delta  b == t[i].delta
      <4>4. ASSUME ~Descending(Size(a), Size(b)), a # None PROVE b # None /\ Abs(b) >= Abs(a)
        <5> HIDE DEF a, b
        <5>1. a \in Int /\ b \in Int \cup {None}
          BY <4>2, <4>4 DEF a, b
        <5>2. Abs(a) \in Int /\ Abs(a) # None
          BY <4>3, <5>1 DEF Abs
        <5>3. Size(a) = Abs(a) /\ Size(b) # None /\ ~(Abs(a) > Size(b))
          BY <4>4, <5>2 DEF Descending, Size
        <5>4. b # None /\ Size(b) = Abs(b)
          BY <5>3 DEF Size
        <5>5. Abs(b) \in Int
          BY <5>1, <5>4 DEF Abs
        <5> QED
          BY <5>2, <5>3, <5>4, <5>5
      <4> QED
        BY <4>1, <4>2, <4>4
    <3> QED
      BY <3>6, <3>8
  <2> QED
    BY <2>1, <2>2 DEF TrendHonest
<1> QED
  BY <1>1, PassedHolds, PTL

-----------------------------------------------------------------------------
(* The chips of a restaurant. *)

\* An image is as large as its set when no two members meet in it.
LEMMA SameSize ==
  ASSUME NEW S, IsFiniteSet(S), NEW f, \A x, y \in S : f[x] = f[y] => x = y
  PROVE  IsFiniteSet({f[x] : x \in S}) /\ Cardinality({f[x] : x \in S}) = Cardinality(S)
<1> DEFINE g == [x \in S |-> f[x]]  T == {f[x] : x \in S}
<1>1. g \in Bijection(S, T)
  BY DEF Bijection, Injection, Surjection, IsInjective
<1> HIDE DEF g, T
<1>2. IsFiniteSet(T) /\ Cardinality(T) = Cardinality(S)
  BY <1>1, FS_Bijection DEF ExistsBijection
<1> QED
  BY <1>2 DEF T

\* How many labels of S are more talked about than x, or as much and better liked.
Ahead(x, y) ==
  \/ x.mentions > y.mentions
  \/ x.mentions = y.mentions /\ x.sentiment > y.sentiment
AheadOf(S, x) == {y \in S : Ahead(y, x)}
AreLabels(S) == \A l \in S : l.mentions \in Nat /\ l.sentiment \in Int

LEMMA PlaceIsUnique ==
  ASSUME NEW S, IsFiniteSet(S), AreLabels(S), NoTies(S), NEW x \in S, NEW y \in S,
         Cardinality(AheadOf(S, x)) = Cardinality(AheadOf(S, y))
  PROVE  x = y
<1>1. ASSUME NEW a \in S, NEW b \in S, Ahead(a, b)
      PROVE  Cardinality(AheadOf(S, a)) < Cardinality(AheadOf(S, b))
  <2>1. AheadOf(S, a) \cup {a} \subseteq AheadOf(S, b) /\ a \notin AheadOf(S, a)
    BY <1>1 DEF AheadOf, Ahead, AreLabels
  <2>2. IsFiniteSet(AheadOf(S, a)) /\ IsFiniteSet(AheadOf(S, b))
    BY FS_Subset DEF AheadOf
  <2>3. /\ Cardinality(AheadOf(S, a)) \in Nat /\ Cardinality(AheadOf(S, b)) \in Nat
        /\ Cardinality(AheadOf(S, a) \cup {a}) = Cardinality(AheadOf(S, a)) + 1
    BY <2>1, <2>2, FS_CardinalityType, FS_AddElement
  <2>4. Cardinality(AheadOf(S, a) \cup {a}) <= Cardinality(AheadOf(S, b))
    BY <2>1, <2>2, FS_Subset
  <2> QED
    BY <2>3, <2>4
<1>2. \A a \in S : Cardinality(AheadOf(S, a)) \in Nat
  <2> TAKE a \in S
  <2>1. IsFiniteSet(AheadOf(S, a))
    BY FS_Subset DEF AheadOf
  <2> QED
    BY <2>1, FS_CardinalityType
<1>3. ~Ahead(x, y) /\ ~Ahead(y, x)
  <2>1. \A a, b \in S : Ahead(a, b) => Cardinality(AheadOf(S, a)) < Cardinality(AheadOf(S, b))
    BY <1>1
  <2>2. \A m \in Nat : ~(m < m)
    OBVIOUS
  <2> QED
    BY <1>2, <2>1, <2>2
<1>4. x.mentions = y.mentions /\ x.sentiment = y.sentiment
  BY <1>3 DEF Ahead, AreLabels
<1> QED
  BY <1>4 DEF NoTies

\* Every place below their number is the place of some label.
LEMMA PlaceIsTaken ==
  ASSUME NEW S, IsFiniteSet(S), AreLabels(S), NoTies(S), NEW k \in 0..(Cardinality(S) - 1)
  PROVE  \E x \in S : Cardinality(AheadOf(S, x)) = k
<1> DEFINE n == Cardinality(S)
           place == [x \in S |-> Cardinality(AheadOf(S, x))]
           places == {place[x] : x \in S}
<1>1. n \in Nat
  BY FS_CardinalityType
<1>2. \A x \in S : place[x] \in 0..(n - 1)
  <2> TAKE x \in S
  <2>1. AheadOf(S, x) \subseteq S \ {x}
    BY DEF AheadOf, Ahead, AreLabels
  <2>2. IsFiniteSet(S \ {x}) /\ Cardinality(S \ {x}) = n - 1
    BY FS_RemoveElement
  <2>3. Cardinality(AheadOf(S, x)) \in Nat /\ Cardinality(AheadOf(S, x)) <= n - 1
    BY <2>1, <2>2, FS_Subset, FS_CardinalityType
  <2> HIDE DEF n
  <2> QED
    BY <1>1, <2>3
<1>3. \A x, y \in S : place[x] = place[y] => x = y
  BY PlaceIsUnique
<1> HIDE DEF place
<1>4. IsFiniteSet(places) /\ Cardinality(places) = n
  BY <1>3, SameSize
<1>5. places \subseteq 0..(n - 1)
  BY <1>2
<1>6. IsFiniteSet(0..(n - 1)) /\ Cardinality(0..(n - 1)) = n
  <2> HIDE DEF n
  <2>1. IsFiniteSet(0..(n - 1)) /\ Cardinality(0..(n - 1)) = IF 0 > n - 1 THEN 0 ELSE n - 1 - 0 + 1
    BY <1>1, FS_Interval
  <2> QED
    BY <1>1, <2>1
<1>7. places = 0..(n - 1)
  <2> HIDE DEF places, n
  <2> QED
    BY <1>4, <1>5, <1>6, FS_Subset
<1> QED
  BY <1>7 DEF place

\* The order of TopLabels, and the position of the label that it puts in place k.
Above(s, i, j) ==
  \/ s[i].mentions > s[j].mentions
  \/ /\ s[i].mentions = s[j].mentions
     /\ \/ s[i].sentiment > s[j].sentiment
        \/ s[i].sentiment = s[j].sentiment /\ i < j
Placed(s, k) == CHOOSE i \in DOMAIN s : Cardinality({j \in DOMAIN s : Above(s, j, i)}) = k - 1

\* Sorted puts the label with k - 1 others ahead of it in place k.
LEMMA SortedPlaces ==
  ASSUME NEW S, IsFiniteSet(S), AreLabels(S), NoTies(S), NEW s \in SetToSeqs(S),
         NEW k \in 1..Cardinality(S)
  PROVE  s[Placed(s, k)] \in S /\ Cardinality(AheadOf(S, s[Placed(s, k)])) = k - 1
<1> DEFINE ahead(i) == {j \in DOMAIN s : Above(s, j, i)}
<1>1. /\ s \in [1..Cardinality(S) -> S] /\ DOMAIN s = 1..Cardinality(S) /\ Cardinality(S) \in Nat
      /\ ToSet(s) = S /\ \A i, j \in DOMAIN s : i # j => s[i] # s[j]
  BY ListsAll
<1>2. \A i, j \in DOMAIN s : Above(s, j, i) <=> Ahead(s[j], s[i])
  <2> TAKE i, j \in DOMAIN s
  <2>1. s[i] \in S /\ s[j] \in S /\ i \in Int /\ j \in Int
    BY <1>1
  <2>2. CASE i = j
    BY <2>1, <2>2 DEF Above, Ahead, AreLabels
  <2>3. CASE i # j
    <3>1. ~(s[j].mentions = s[i].mentions /\ s[j].sentiment = s[i].sentiment)
      BY <1>1, <2>1, <2>3 DEF NoTies
    <3> QED
      BY <2>1, <3>1 DEF Above, Ahead, AreLabels
  <2> QED
    BY <2>2, <2>3
<1>3. ASSUME NEW i \in DOMAIN s PROVE Cardinality(ahead(i)) = Cardinality(AheadOf(S, s[i]))
  <2>1. AheadOf(S, s[i]) = {s[j] : j \in ahead(i)}
    <3>1. \A y \in S : \E j \in DOMAIN s : s[j] = y
      BY <1>1 DEF ToSet
    <3> QED
      BY <1>1, <1>2, <3>1 DEF AheadOf
  <2>2. IsFiniteSet(ahead(i)) /\ \A a, b \in ahead(i) : s[a] = s[b] => a = b
    <3>1. IsFiniteSet(DOMAIN s)
      BY <1>1, FS_Interval
    <3>2. ahead(i) \subseteq DOMAIN s
      OBVIOUS
    <3> QED
      BY <1>1, <3>1, <3>2, FS_Subset
  <2> HIDE DEF ahead
  <2> QED
    BY <2>1, <2>2, SameSize
<1>4. \E i \in DOMAIN s : Cardinality(ahead(i)) = k - 1
  <2>1. k - 1 \in 0..(Cardinality(S) - 1)
    BY <1>1
  <2>2. PICK x \in S : Cardinality(AheadOf(S, x)) = k - 1
    BY <2>1, PlaceIsTaken
  <2>3. PICK i \in DOMAIN s : s[i] = x
    BY <1>1 DEF ToSet
  <2> QED
    BY <1>3, <2>2, <2>3
<1> DEFINE at == CHOOSE i \in DOMAIN s : Cardinality(ahead(i)) = k - 1
<1>5. at \in DOMAIN s /\ Cardinality(ahead(at)) = k - 1
  <2> HIDE DEF ahead
  <2> QED
    BY <1>4
<1> HIDE DEF at
<1>6. s[at] \in S /\ Cardinality(AheadOf(S, s[at])) = k - 1
  <2>1. Cardinality(ahead(at)) = Cardinality(AheadOf(S, s[at]))
    BY <1>3, <1>5
  <2> QED
    BY <1>1, <1>5, <2>1
<1> QED
  BY <1>6 DEF at, ahead, Placed

\* The best labels do not depend on the order they came in.
LEMMA TopIsOrderFree ==
  ASSUME NEW S, IsFiniteSet(S), AreLabels(S), NoTies(S), NEW s \in SetToSeqs(S), NEW t \in SetToSeqs(S),
         NEW n
  PROVE  TopLabels(s, n) = TopLabels(t, n)
<1> DEFINE sorted(u) == [k \in DOMAIN u |-> u[Placed(u, k)]]
<1>1. /\ DOMAIN s = 1..Cardinality(S) /\ DOMAIN t = 1..Cardinality(S)
      /\ Len(s) = Len(t)
  BY ListsAll
<1>2. ASSUME NEW u \in SetToSeqs(S), NEW k \in 1..Cardinality(S)
      PROVE  u[Placed(u, k)] \in S /\ Cardinality(AheadOf(S, u[Placed(u, k)])) = k - 1
  BY SortedPlaces
<1>3. sorted(s) = sorted(t)
  <2>1. \A k \in 1..Cardinality(S) : s[Placed(s, k)] = t[Placed(t, k)]
    BY <1>2, PlaceIsUnique
  <2> QED
    BY <1>1, <2>1
<1>4. \A u : TopLabels(u, n) = SubSeq(sorted(u), 1, Min({n, Len(u)}))
  BY DEF TopLabels, Sorted, Placed, Above
<1> HIDE DEF sorted
<1> QED
  BY <1>1, <1>3, <1>4

\* The chips of a restaurant do not depend on the order in which the database returns its dishes,
\* unless two of them tie (build_food_dna).
THEOREM DnaOrderFreeHolds == Spec => []DnaOrderFree
<1>1. Passed => DnaOrderFree
  <2> SUFFICES ASSUME Passed, Is("dna"), NoTies(ToSet(input.data.labels)),
                      NEW labels \in SetToSeqs(ToSet(input.data.labels))
               PROVE  BuildFoodDna([input.data EXCEPT !.labels = labels]) = BuildFoodDna(input.data)
    BY DEF DnaOrderFree
  <2> DEFINE d == input.data  e == [d EXCEPT !.labels = labels]  S == ToSet(d.labels)
  <2>1. IsProfile(input)
    BY InputsAssumption DEF Passed
  <2>2. IsFiniteSet(S) /\ d.labels \in SetToSeqs(S) /\ AreLabels(S) /\ NoTies(S)
    BY <2>1 DEF IsProfile, AreLabels
  <2>3. /\ e.labels = labels /\ e.mentions = d.mentions /\ e.attributes = d.attributes
        /\ e.price = d.price /\ e.median = d.median /\ e.consistency = d.consistency
        /\ e.aspects = d.aspects /\ e.trend = d.trend /\ e.cuisine = d.cuisine
    BY <2>1 DEF IsProfile
  <2>4. ToSet(e.labels) = S /\ labels \in SetToSeqs(S)
    BY <2>2, <2>3, ListsAll
  <2> HIDE DEF d, e, S
  <2>5. TopLabels(e.labels, 3) = TopLabels(d.labels, 3)
    BY <2>2, <2>3, <2>4, TopIsOrderFree
  <2>6. Strong(e) = Strong(d)
    BY <2>3, <2>4 DEF Strong, S
  <2>7. Signatures(e) = Signatures(d)
    BY <2>5, <2>6 DEF Signatures
  <2>8. /\ AttributeChips(e) = AttributeChips(d) /\ PriceChip(e) = PriceChip(d)
        /\ ConsistencyChip(e) = ConsistencyChip(d) /\ AspectChips(e) = AspectChips(d)
        /\ TrendChip(e) = TrendChip(d) /\ CuisineChip(e) = CuisineChip(d)
    <3>1. AttributeChips(e) = AttributeChips(d)
      BY <2>3 DEF AttributeChips
    <3>2. PriceChip(e) = PriceChip(d)
      BY <2>3 DEF PriceChip
    <3>3. ConsistencyChip(e) = ConsistencyChip(d)
      BY <2>3 DEF ConsistencyChip
    <3>4. AspectChips(e) = AspectChips(d)
      BY <2>3 DEF AspectChips
    <3>5. TrendChip(e) = TrendChip(d) /\ CuisineChip(e) = CuisineChip(d)
      BY <2>3, <2>7 DEF TrendChip, CuisineChip
    <3> QED
      BY <3>1, <3>2, <3>3, <3>4, <3>5
  <2>9. BuildFoodDna(e) = BuildFoodDna(d)
    BY <2>3, <2>7, <2>8 DEF BuildFoodDna
  <2> QED
    BY <2>9 DEF d, e
<1> QED
  BY <1>1, PassedHolds, PTL

-----------------------------------------------------------------------------
(* The pages of a list. *)

\* In the order R of S the members of D come first, each in a place of its own.
Leads(R, S, D) ==
  /\ D \subseteq S
  /\ \A a \in D, b \in S \ D : <<a, b>> \in R
  /\ \A a, b \in D : a # b => <<a, b>> \in R \/ <<b, a>> \in R
  /\ IsOrder(R, D)
FirstOf(R, D, x) == {y \in D : <<y, x>> \in R}

\* Where s has the members of D, they are in the places that R gives them.
Placing(s, R, D) ==
  \A k \in DOMAIN s : IF k <= Cardinality(D)
                      THEN s[k] \in D /\ Cardinality(FirstOf(R, D, s[k])) = k - 1
                      ELSE s[k] \notin D

\* A set of positions that holds all before each of its members.
LEMMA PrefixIs ==
  ASSUME NEW n \in Nat, NEW I \in SUBSET (1..n), \A k \in I : \A j \in 1..n : j < k => j \in I
  PROVE  Cardinality(I) \in Nat /\ I = 1..Cardinality(I)
<1>1. IsFiniteSet(1..n) /\ IsFiniteSet(I)
  <2>1. IsFiniteSet(1..n)
    BY FS_Interval
  <2> QED
    BY <2>1, FS_Subset
<1>2. CASE I = {}
  BY <1>2, FS_EmptySet
<1>3. CASE I # {}
  <2> DEFINE m == Max(I)
  <2>1. m \in I /\ \A k \in I : k <= m
    <3>1. I \subseteq Int
      OBVIOUS
    <3> QED
      BY <1>1, <1>3, <3>1, Extremes
  <2> HIDE DEF m
  <2>5. m \in 1..n
    BY <2>1
  <2>6. \A k \in 1..m : k \in I
    <3> TAKE k \in 1..m
    <3>1. k \in 1..n /\ (k < m \/ k = m)
      BY <2>5
    <3> QED
      BY <2>1, <3>1
  <2>7. \A k \in I : k \in 1..m
    BY <2>1, <2>5
  <2>2. I = 1..m /\ m \in Nat
    <3>1. I \subseteq 1..m
      BY <2>7
    <3>2. 1..m \subseteq I
      BY <2>6
    <3>3. m \in Nat
      BY <2>5
    <3> QED
      BY <3>1, <3>2, <3>3
  <2>3. Cardinality(1..m) = IF 1 > m THEN 0 ELSE m - 1 + 1
    BY <2>2, FS_Interval
  <2>4. Cardinality(1..m) = m
    BY <2>2, <2>3
  <2> QED
    BY <2>2, <2>4
<1> QED
  BY <1>2, <1>3

\* Every order of S has the leading members in their places.
LEMMA OrderPlaces ==
  ASSUME NEW S, IsFiniteSet(S), NEW R, NEW D, Leads(R, S, D), NEW s, SortedBy(s, S, R)
  PROVE  Placing(s, R, D)
<1> DEFINE n == Cardinality(S)
           I == {k \in 1..n : s[k] \in D}
<1>1. /\ s \in [1..n -> S] /\ DOMAIN s = 1..n /\ n \in Nat
      /\ \A i, j \in DOMAIN s : i # j => s[i] # s[j]
      /\ ToSet(s) = S
  BY ListsAll DEF SortedBy
<1>2. \A i \in DOMAIN s : \A j \in 1..(i - 1) : <<s[i], s[j]>> \notin R
  BY DEF SortedBy
<1> HIDE DEF n
<1>3. \A k \in I : \A j \in 1..n : j < k => j \in I
  <2> SUFFICES ASSUME NEW k \in I, NEW j \in 1..n, j < k, j \notin I PROVE FALSE
    OBVIOUS
  <2>1. s[k] \in D /\ s[j] \in S \ D
    BY <1>1
  <2>2. k \in DOMAIN s /\ j \in 1..(k - 1)
    BY <1>1
  <2> QED
    BY <1>2, <2>1, <2>2 DEF Leads
<1>4. D = {s[k] : k \in I} /\ IsFiniteSet(I)
  <2>1. \A y \in D : \E k \in 1..n : s[k] = y
    BY <1>1 DEF ToSet, Leads
  <2>2. IsFiniteSet(1..n) /\ I \subseteq 1..n
    BY <1>1, FS_Interval
  <2> QED
    BY <2>1, <2>2, FS_Subset
<1>5. Cardinality(D) = Cardinality(I)
  <2>1. \A a, b \in I : s[a] = s[b] => a = b
    BY <1>1
  <2> HIDE DEF I
  <2> QED
    BY <1>4, <2>1, SameSize
<1>6. Cardinality(D) \in Nat /\ I = 1..Cardinality(D)
  <2>1. I \in SUBSET (1..n)
    OBVIOUS
  <2> HIDE DEF I
  <2> QED
    BY <1>1, <1>3, <1>5, <2>1, PrefixIs
<1>7. ASSUME NEW k \in I PROVE Cardinality(FirstOf(R, D, s[k])) = k - 1
  <2>1. k \in 1..n /\ s[k] \in D
    OBVIOUS
  <2>2. FirstOf(R, D, s[k]) = {s[j] : j \in 1..(k - 1)}
    <3>1. ASSUME NEW y \in D, <<y, s[k]>> \in R PROVE \E j \in 1..(k - 1) : s[j] = y
      <4>1. PICK j \in I : s[j] = y
        BY <1>4
      <4>2. j # k
        BY <2>1, <3>1, <4>1 DEF Leads, IsOrder
      <4>3. ~(k < j)
        <5> SUFFICES ASSUME k < j PROVE FALSE
          OBVIOUS
        <5>1. j \in DOMAIN s /\ k \in 1..(j - 1)
          BY <1>1
        <5> QED
          BY <1>2, <3>1, <4>1, <5>1
      <4> QED
        BY <4>1, <4>2, <4>3
    <3>2. ASSUME NEW j \in 1..(k - 1) PROVE s[j] \in D /\ <<s[j], s[k]>> \in R
      <4>1. j \in 1..n /\ j # k
        BY <1>1
      <4>2. j \in I
        BY <1>3, <4>1
      <4>3. s[j] \in D /\ s[j] # s[k]
        BY <1>1, <4>1, <4>2
      <4>4. <<s[k], s[j]>> \notin R
        BY <1>1, <1>2
      <4> QED
        BY <2>1, <4>3, <4>4 DEF Leads
    <3> QED
      BY <3>1, <3>2 DEF FirstOf
  <2>3. IsFiniteSet(1..(k - 1)) /\ Cardinality(1..(k - 1)) = k - 1
    <3>1. Cardinality(1..(k - 1)) = (IF 1 > k - 1 THEN 0 ELSE k - 1 - 1 + 1) /\ IsFiniteSet(1..(k - 1))
      BY FS_Interval
    <3> QED
      BY <3>1
  <2>4. \A a, b \in 1..(k - 1) : s[a] = s[b] => a = b
    BY <1>1
  <2> DEFINE J == 1..(k - 1)
  <2>5. FirstOf(R, D, s[k]) = {s[j] : j \in J} /\ IsFiniteSet(J) /\ Cardinality(J) = k - 1
    BY <2>2, <2>3
  <2>6. \A a, b \in J : s[a] = s[b] => a = b
    BY <2>4
  <2> HIDE DEF I, J
  <2>7. Cardinality({s[j] : j \in J}) = Cardinality(J)
    BY <2>5, <2>6, SameSize
  <2> QED
    BY <2>5, <2>7
<1>8. ASSUME NEW k \in DOMAIN s
      PROVE  IF k <= Cardinality(D) THEN s[k] \in D /\ Cardinality(FirstOf(R, D, s[k])) = k - 1
             ELSE s[k] \notin D
  <2>1. k \in 1..n
    BY <1>1
  <2>2. k <= Cardinality(D) <=> k \in I
    <3> HIDE DEF I
    <3> QED
      BY <1>6, <2>1
  <2>3. s[k] \in D <=> k \in I
    BY <2>1
  <2> HIDE DEF I
  <2> QED
    BY <1>7, <2>2, <2>3
<1> QED
  BY <1>8 DEF Placing

\* Keeping the members of D from a sequence that starts with them.
LEMMA AmongPrefix ==
  ASSUME NEW T, NEW s \in Seq(T), NEW D, NEW d \in 0..Len(s),
         \A k \in 1..Len(s) : s[k] \in D <=> k <= d
  PROVE  Among(s, D) = SubSeq(s, 1, d)
<1> DEFINE n == Len(s)
<1>1. n \in Nat /\ s \in [1..n -> T] /\ DOMAIN s = 1..n
  BY LenProperties
<1>2. PICK g \in [0..n -> Seq(T)] :
        /\ g[0] = <<>> /\ g[n] = Among(s, D)
        /\ \A k \in 1..n : g[k] = IF s[k] \in D THEN Append(g[k - 1], s[k]) ELSE g[k - 1]
  <2>1. PICK g \in [0..n -> Seq(T)] : Grows(g, s, D)
    BY AmongGrows
  <2> QED
    BY <2>1 DEF Grows
<1> HIDE DEF n
<1> DEFINE upto(k) == IF k <= d THEN k ELSE d
           P == {k \in Nat : k <= n => g[k] = SubSeq(s, 1, upto(k))}
<1>3. 0 \in P
  <2>1. upto(0) = 0
    BY <1>1 DEF n
  <2>2. SubSeq(s, 1, 0) = <<>>
    OBVIOUS
  <2> QED
    BY <1>2, <2>1, <2>2
<1>4. ASSUME NEW k \in Nat, k \in P PROVE k + 1 \in P
  <2> SUFFICES ASSUME k + 1 <= n PROVE g[k + 1] = SubSeq(s, 1, upto(k + 1))
    OBVIOUS
  <2>1. k + 1 \in 1..n /\ k \in 0..n /\ (k + 1) - 1 = k /\ d \in Nat /\ k <= n
    BY <1>1 DEF n
  <2>2. g[k + 1] = IF s[k + 1] \in D THEN Append(g[k], s[k + 1]) ELSE g[k]
    <3>1. g[k + 1] = IF s[k + 1] \in D THEN Append(g[(k + 1) - 1], s[k + 1]) ELSE g[(k + 1) - 1]
      BY <1>2, <2>1
    <3> QED
      BY <2>1, <3>1
  <2>3. s[k + 1] \in D <=> k + 1 <= d
    BY <2>1 DEF n
  <2>4. g[k] = SubSeq(s, 1, upto(k))
    BY <1>4, <2>1
  <2>5. CASE k + 1 <= d
    <3>1. upto(k) = k /\ upto(k + 1) = k + 1
      BY <2>1, <2>5
    <3>2. SubSeq(s, 1, k + 1) = Append(SubSeq(s, 1, k), s[k + 1])
      <4>1. k + 1 <= Len(s) /\ Len(s) \in Nat
        BY <1>1, <2>1 DEF n
      <4>2. SubSeq(s, 1, k + 1) = [i \in 1..(k + 1) |-> s[i]]
        BY <2>1, <4>1
      <4>3. SubSeq(s, 1, k) = [i \in 1..k |-> s[i]]
        BY <2>1, <4>1
      <4>4. Len(SubSeq(s, 1, k)) = k
        BY <2>1, <4>3
      <4>5. Append(SubSeq(s, 1, k), s[k + 1])
              = [i \in 1..(k + 1) |-> IF i = k + 1 THEN s[k + 1] ELSE SubSeq(s, 1, k)[i]]
        BY <4>4
      <4>6. \A i \in 1..(k + 1) : i # k + 1 => SubSeq(s, 1, k)[i] = s[i]
        BY <2>1, <4>3
      <4> QED
        BY <4>2, <4>5, <4>6
    <3> QED
      BY <2>2, <2>3, <2>4, <2>5, <3>1, <3>2
  <2>6. CASE ~(k + 1 <= d)
    <3>1. upto(k) = upto(k + 1)
      BY <2>1, <2>6
    <3> QED
      BY <2>2, <2>3, <2>4, <2>6, <3>1
  <2> QED
    BY <2>5, <2>6
<1>5. Nat \subseteq P
  <2> HIDE DEF P
  <2> QED
    BY <1>3, <1>4, Inductive
<1>6. upto(n) = d /\ n \in Nat
  <2>1. d \in Nat /\ d <= n
    BY <1>1 DEF n
  <2> QED
    BY <1>1, <2>1
<1>7. g[n] = SubSeq(s, 1, upto(n))
  BY <1>1, <1>5
<1> QED
  BY <1>2, <1>6, <1>7

\* What was shown lists the leading members in order, once it is long enough.
LEMMA PlacedIsSorted ==
  ASSUME NEW S, IsFiniteSet(S), NEW R, NEW D, Leads(R, S, D), NEW s \in Seq(S), Placing(s, R, D),
         Cardinality(D) <= Len(s)
  PROVE  SortedBy(Among(s, D), D, R)
<1> DEFINE d == Cardinality(D)  t == Among(s, D)
           rank == [x \in D |-> Cardinality(FirstOf(R, D, x))]
<1>1. IsFiniteSet(D) /\ d \in Nat /\ Len(s) \in Nat /\ DOMAIN s = 1..Len(s) /\ D \subseteq S
  BY FS_Subset, FS_CardinalityType, LenProperties DEF Leads
<1> HIDE DEF d
<1>2. \A k \in 1..Len(s) : /\ s[k] \in D <=> k <= d
                           /\ k <= d => rank[s[k]] = k - 1
  BY <1>1 DEF Placing, d
<1>3. t = [k \in 1..d |-> s[k]] /\ DOMAIN t = 1..d
  <2>1. d \in 0..Len(s)
    BY <1>1 DEF d
  <2>2. t = SubSeq(s, 1, d)
    BY <1>2, <2>1, AmongPrefix
  <2> HIDE DEF t
  <2> QED
    BY <1>1, <2>1, <2>2
<1> HIDE DEF t
<1>4. \A k \in 1..d : t[k] \in D /\ rank[t[k]] = k - 1
  <2> TAKE k \in 1..d
  <2>1. d <= Len(s)
    BY DEF d
  <2>2. k \in 1..Len(s) /\ k <= d /\ t[k] = s[k]
    BY <1>1, <1>3, <2>1
  <2> HIDE DEF rank
  <2> QED
    BY <1>2, <2>2
<1>5. t \in SetToSeqs(D)
  <2>1. t \in [1..d -> D]
    BY <1>3, <1>4
  <2>2. \A i, j \in 1..d : i # j => t[i] # t[j]
    <3> SUFFICES ASSUME NEW i \in 1..d, NEW j \in 1..d, t[i] = t[j] PROVE i = j
      OBVIOUS
    <3>1. rank[t[i]] = i - 1 /\ rank[t[j]] = j - 1 /\ i \in Int /\ j \in Int
      BY <1>1, <1>4
    <3> HIDE DEF rank
    <3> QED
      BY <3>1
  <2> QED
    BY <2>1, <2>2 DEF SetToSeqs, d
<1>6. ASSUME NEW a \in D, NEW b \in D, <<a, b>> \in R PROVE rank[a] < rank[b]
  <2>1. FirstOf(R, D, a) \cup {a} \subseteq FirstOf(R, D, b) /\ a \notin FirstOf(R, D, a)
    BY <1>6 DEF FirstOf, Leads, IsOrder
  <2>2. IsFiniteSet(FirstOf(R, D, a)) /\ IsFiniteSet(FirstOf(R, D, b))
    BY <1>1, FS_Subset DEF FirstOf
  <2>3. /\ Cardinality(FirstOf(R, D, a)) \in Nat /\ Cardinality(FirstOf(R, D, b)) \in Nat
        /\ Cardinality(FirstOf(R, D, a) \cup {a}) = Cardinality(FirstOf(R, D, a)) + 1
    BY <2>1, <2>2, FS_CardinalityType, FS_AddElement
  <2>4. Cardinality(FirstOf(R, D, a) \cup {a}) <= Cardinality(FirstOf(R, D, b))
    BY <2>1, <2>2, FS_Subset
  <2> QED
    BY <2>3, <2>4
<1> HIDE DEF rank
<1>7. ASSUME NEW i \in DOMAIN t, NEW j \in 1..(i - 1) PROVE <<t[i], t[j]>> \notin R
  <2>1. i \in 1..d /\ j \in 1..d /\ j < i
    BY <1>1, <1>3
  <2>2. rank[t[i]] = i - 1 /\ rank[t[j]] = j - 1 /\ t[i] \in D /\ t[j] \in D
    BY <1>4, <2>1
  <2> QED
    BY <1>6, <2>1, <2>2
<1> QED
  BY <1>5, <1>7 DEF SortedBy, t

\* What a list is of, its order, and the rows that a reader is due.
Listable(list, rows, f) ==
  CASE list = "dish"    -> Matching(rows, f)
    [] list = "menu"    -> rows
    [] list = "reviews" -> {v \in rows : v.published /\ ~v.duplicate}
    [] list = "places"  -> {p \in rows : /\ p.open
                                         /\ f.area = None \/ p.area = f.area
                                         /\ f.cuisine = None \/ f.cuisine \in p.cuisines}
Comes(list, a, b) ==
  CASE list = "reviews" -> Newest(a.at, b.at)
    [] list = "places"  -> \/ Descending(a.score, b.score)
                           \/ a.score = b.score /\ a.name < b.name
    [] OTHER            -> ByScore(a, b)
OrderOf(list, S) == {p \in S \X S : Comes(list, p[1], p[2])}
RankedOnly(list) == list \in {"dish", "menu"}
DueOf(list, S) == {r \in S : RankedOnly(list) => r.ranked}
Apart(list, D) == \A a, b \in D : RankKey(list, a) = RankKey(list, b) => a = b
Kinds == {"dish", "menu", "reviews", "places"}

LEMMA ListsAre ==
  ASSUME NEW list \in Kinds, NEW rows, IsFiniteSet(rows), NEW f, NEW s
  PROVE  /\ IsFiniteSet(Listable(list, rows, f)) /\ Listable(list, rows, f) \subseteq rows
         /\ s \in ListsOf(list, rows, f)
              <=> SortedBy(s, Listable(list, rows, f), OrderOf(list, Listable(list, rows, f)))
<1> DEFINE S == Listable(list, rows, f)
<1>1. S \subseteq rows
  BY DEF Listable, Kinds, Matching
<1>2. IsFiniteSet(S)
  <2> HIDE DEF S
  <2> QED
    BY <1>1, FS_Subset
<1>3. s \in ListsOf(list, rows, f)
        <=> /\ s \in SetToSeqs(S)
            /\ \A i \in DOMAIN s : \A j \in 1..(i - 1) : ~Comes(list, s[i], s[j])
  <2>1. CASE list = "dish"
    <3>1. S = Matching(rows, f) /\ ListsOf(list, rows, f) = Lists(rows, f, "score")
      BY <2>1 DEF Listable, ListsOf
    <3>2. \A a, b : Before("score", f.located, a, b) <=> Comes(list, a, b)
      BY <2>1 DEF Before, Comes
    <3> HIDE DEF S
    <3> QED
      BY <3>1, <3>2 DEF Lists, Orders
  <2>2. CASE list = "menu"
    <3>1. S = rows /\ ListsOf(list, rows, f) = RestaurantDishes(rows)
      BY <2>2 DEF Listable, ListsOf
    <3>2. \A a, b : ByScore(a, b) <=> Comes(list, a, b)
      BY <2>2 DEF Comes
    <3> HIDE DEF S
    <3> QED
      BY <3>1, <3>2 DEF RestaurantDishes, Orders
  <2>3. CASE list = "reviews"
    <3>1. S = {v \in rows : v.published /\ ~v.duplicate} /\ ListsOf(list, rows, f) = RestaurantReviews(rows)
      BY <2>3 DEF Listable, ListsOf
    <3>2. \A a, b : Newest(a.at, b.at) <=> Comes(list, a, b)
      BY <2>3 DEF Comes
    <3> HIDE DEF S
    <3> QED
      BY <3>1, <3>2 DEF RestaurantReviews, Orders
  <2>4. CASE list = "places"
    <3>1. /\ S = {p \in rows : /\ p.open
                               /\ f.area = None \/ p.area = f.area
                               /\ f.cuisine = None \/ f.cuisine \in p.cuisines}
          /\ ListsOf(list, rows, f) = Restaurants(rows, f)
      BY <2>4 DEF Listable, ListsOf
    <3>2. \A a, b : Comes(list, a, b) <=> \/ Descending(a.score, b.score)
                                          \/ a.score = b.score /\ a.name < b.name
      BY <2>4 DEF Comes
    <3> HIDE DEF S
    <3> QED
      BY <3>1, <3>2 DEF Restaurants, Orders
  <2> QED
    BY <2>1, <2>2, <2>3, <2>4 DEF Kinds
<1>4. ASSUME s \in SetToSeqs(S)
      PROVE  \A i \in DOMAIN s : \A j \in 1..(i - 1) :
               Comes(list, s[i], s[j]) <=> <<s[i], s[j]>> \in OrderOf(list, S)
  <2> HIDE DEF S
  <2>1. \A i \in DOMAIN s : \A j \in 1..(i - 1) : s[i] \in S /\ s[j] \in S
    BY <1>2, <1>4, ListsAll, LenProperties
  <2> QED
    BY <2>1 DEF OrderOf
<1> HIDE DEF S
<1>5. s \in ListsOf(list, rows, f) <=> SortedBy(s, S, OrderOf(list, S))
  BY <1>3, <1>4 DEF SortedBy
<1> QED
  BY <1>1, <1>2, <1>5 DEF S

\* The rows that are due come first.
LEMMA DueLeads ==
  ASSUME NEW list \in Kinds, NEW S,
         \A r \in S : CASE list = "reviews" -> r.at \in Int \cup {None}
                        [] list = "places"  -> r.score \in Int \cup {None} /\ r.name \in Int
                        [] OTHER            -> r.ranked \in BOOLEAN /\ (r.ranked => r.score \in Int),
         Apart(list, DueOf(list, S))
  PROVE  Leads(OrderOf(list, S), S, DueOf(list, S))
<1> DEFINE D == DueOf(list, S)  R == OrderOf(list, S)
<1>1. None \notin Int
  BY ScoringAssumption
<1>2. D \subseteq S /\ \A a, b \in S : <<a, b>> \in R <=> Comes(list, a, b)
  BY DEF DueOf, OrderOf
<1>3. CASE list \in {"dish", "menu"}
  <2>1. \A r \in S : r.ranked \in BOOLEAN /\ (r.ranked => r.score \in Int)
    BY <1>3
  <2>2. \A r \in S : r \in D <=> r.ranked
    BY <1>3 DEF DueOf, RankedOnly
  <2>3. \A a, b \in S : Comes(list, a, b) <=> \/ a.ranked /\ ~b.ranked
                                              \/ a.ranked = b.ranked /\ Descending(a.score, b.score)
    BY <1>3 DEF Comes, ByScore
  <2>4. \A a, b \in D : a.score = b.score => a = b
    BY <1>3 DEF Apart, RankKey
  <2> HIDE DEF D, R
  <2>5. \A r \in D : r \in S /\ r.ranked = TRUE /\ r.score \in Int /\ r.score # None
    BY <1>1, <1>2, <2>1, <2>2
  <2>6. \A a, b \in D : <<a, b>> \in R <=> a.score > b.score
    BY <1>2, <2>3, <2>5 DEF Descending
  <2>7. \A a \in D, b \in S \ D : <<a, b>> \in R
    BY <1>2, <2>2, <2>3, <2>5
  <2>8. \A a, b \in D : a # b => <<a, b>> \in R \/ <<b, a>> \in R
    BY <2>4, <2>5, <2>6
  <2>9. IsOrder(R, D)
    BY <2>5, <2>6 DEF IsOrder
  <2> QED
    BY <1>2, <2>7, <2>8, <2>9 DEF Leads, D, R
<1>4. CASE list = "reviews"
  <2>1. \A r \in S : r.at \in Int \cup {None}
    BY <1>4
  <2>2. D = S
    BY <1>4 DEF DueOf, RankedOnly
  <2>3. \A a, b \in S : Comes(list, a, b) <=> Newest(a.at, b.at)
    BY <1>4 DEF Comes
  <2>4. \A a, b \in D : a.at = b.at => a = b
    BY <1>4 DEF Apart, RankKey
  <2> HIDE DEF D, R
  <2>5. \A a, b \in D : <<a, b>> \in R <=> b.at # None /\ (a.at = None \/ a.at > b.at)
    BY <1>2, <2>3 DEF Newest
  <2>6. \A r \in D : r.at \in Int \/ r.at = None
    BY <2>1, <2>2
  <2>7. \A a, b \in D : a # b => <<a, b>> \in R \/ <<b, a>> \in R
    BY <1>1, <2>4, <2>5, <2>6
  <2>8. IsOrder(R, D)
    BY <1>1, <2>5, <2>6 DEF IsOrder
  <2> QED
    BY <2>2, <2>7, <2>8 DEF Leads, D, R
<1>5. CASE list = "places"
  <2>1. \A r \in S : r.score \in Int \cup {None} /\ r.name \in Int
    BY <1>5
  <2>2. D = S
    BY <1>5 DEF DueOf, RankedOnly
  <2>3. \A a, b \in S : Comes(list, a, b) <=> \/ Descending(a.score, b.score)
                                              \/ a.score = b.score /\ a.name < b.name
    BY <1>5 DEF Comes
  <2>4. \A a, b \in D : a.score = b.score /\ a.name = b.name => a = b
    BY <1>5 DEF Apart, RankKey
  <2> HIDE DEF D, R
  <2>5. \A a, b \in D : <<a, b>> \in R <=> \/ a.score # None /\ (b.score = None \/ a.score > b.score)
                                           \/ a.score = b.score /\ a.name < b.name
    BY <1>2, <2>3 DEF Descending
  <2>6. \A r \in D : (r.score \in Int \/ r.score = None) /\ r.name \in Int
    BY <2>1, <2>2
  <2>7. \A a, b \in D : a # b => <<a, b>> \in R \/ <<b, a>> \in R
    BY <1>1, <2>4, <2>5, <2>6
  <2>8. IsOrder(R, D)
    BY <1>1, <2>5, <2>6 DEF IsOrder
  <2> QED
    BY <2>2, <2>7, <2>8 DEF Leads, D, R
<1> QED
  BY <1>3, <1>4, <1>5 DEF Kinds

\* As much of a list of n as `read' rows from its start.
HaveRead(shown, n, read) == Len(shown) = IF read > n THEN n ELSE read

\* t shows what was shown and then the rows of s, which has n of those of T.
Continues(t, T, shown, s, n, read) ==
  /\ t \in Seq(T) /\ HaveRead(t, n, read)
  /\ DOMAIN t = 1..Len(t) /\ Len(t) <= n
  /\ \A k \in DOMAIN t : t[k] = IF k \in DOMAIN shown THEN shown[k] ELSE s[k]

\* A reader who has seen the pages before one, of any order of the list, and now sees that one.
LEMMA NextPlaces ==
  ASSUME NEW T, NEW n \in Nat, NEW shown \in Seq(T), NEW s \in Seq(T), Len(s) = n,
         NEW page \in Nat \ {0}, NEW size \in Nat \ {0},
         HaveRead(shown, n, (page - 1) * size)
  PROVE  Continues(shown \o Slice(s, page, size), T, shown, s, n, page * size)
<1> DEFINE a == (page - 1) * size
           b == page * size
           m == IF b > n THEN n ELSE b
           u == Slice(s, page, size)
           t == shown \o u
<1>1. a \in Nat /\ b = a + size
  <2>1. page - 1 \in Nat /\ size \in Nat
    OBVIOUS
  <2>2. \A x, y \in Nat : x * y \in Nat
    OBVIOUS
  <2>3. (page - 1) * size = page * size - size
    OBVIOUS
  <2>4. page * size \in Nat
    BY <2>1, <2>2
  <2> QED
    BY <2>1, <2>2, <2>3, <2>4
<1>2. u = SubSeq(s, a + 1, m)
  BY DEF Slice
<1>3. Len(shown) = IF a > n THEN n ELSE a
  BY DEF HaveRead
<1>4. shown \in Seq(T) /\ DOMAIN shown = 1..Len(shown) /\ DOMAIN s = 1..n
  BY LenProperties
<1>5. b \in Nat /\ m \in Nat /\ m <= n /\ (m = n \/ m = b)
  <2> HIDE DEF a, b
  <2> QED
    BY <1>1
<1> HIDE DEF a, b, u, t
<1>6. CASE a >= n
  <2>1. m = n
    BY <1>1, <1>6
  <2>2. u = <<>>
    <3>1. SubSeq(s, a + 1, m) = [i \in 1..(m - a) |-> s[a + i]]
      BY <1>1, <1>5
    <3>2. 1..(m - a) = {}
      BY <1>1, <1>5, <1>6, <2>1
    <3> QED
      BY <1>1, <1>2, <1>5, <1>6, <2>1
  <2>3. t = shown
    BY <1>4, <2>2 DEF t
  <2>4. Len(shown) = n
    BY <1>1, <1>3, <1>6
  <2> QED
    BY <1>4, <1>5, <2>1, <2>3, <2>4 DEF t, u, b, HaveRead, Continues
<1>7. CASE ~(a >= n)
  <2>1. Len(shown) = a /\ a < m /\ a + 1 <= m
    BY <1>1, <1>3, <1>5, <1>7
  <2> HIDE DEF m
  <2>2. u \in Seq(T) /\ Len(u) = m - a /\ \A i \in 1..(m - a) : u[i] = s[a + i]
    <3>1. u \in Seq(T) /\ Len(u) = m - (a + 1) + 1
          /\ \A i \in 1..(m - (a + 1) + 1) : u[i] = s[(a + 1) + i - 1]
      BY <1>1, <1>2, <1>5, <2>1, SubSeqProperties
    <3>2. m - (a + 1) + 1 = m - a /\ \A i \in 1..(m - a) : (a + 1) + i - 1 = a + i
      BY <1>1, <1>5
    <3> QED
      BY <3>1, <3>2
  <2>3. t \in Seq(T) /\ Len(t) = Len(shown) + Len(u) /\ DOMAIN t = 1..Len(t)
        /\ \A k \in 1..(Len(shown) + Len(u)) : t[k] = IF k <= Len(shown) THEN shown[k]
                                                      ELSE u[k - Len(shown)]
    BY <1>4, <2>2, ConcatProperties, LenProperties DEF t
  <2>4. Len(t) = m
    BY <1>1, <1>5, <2>1, <2>2, <2>3
  <2>5. ASSUME NEW k \in DOMAIN t PROVE t[k] = IF k \in DOMAIN shown THEN shown[k] ELSE s[k]
    <3>1. k \in 1..m /\ m = Len(shown) + Len(u)
      BY <2>3, <2>4
    <3>2. CASE k <= a
      BY <1>4, <2>1, <2>3, <3>1, <3>2
    <3>3. CASE ~(k <= a)
      <4>1. k - a \in 1..(m - a) /\ a + (k - a) = k /\ k \notin DOMAIN shown
        BY <1>1, <1>4, <1>5, <2>1, <3>1, <3>3
      <4>2. u[k - a] = s[k]
        BY <2>2, <4>1
      <4> QED
        BY <2>1, <2>3, <3>1, <3>3, <4>1, <4>2
    <3> QED
      BY <3>2, <3>3
  <2> QED
    BY <1>5, <2>3, <2>4, <2>5 DEF t, u, m, b, HaveRead, Continues
<1> QED
  BY <1>6, <1>7

\* What holds while a reader turns the pages: what was shown is as long as the pages read, its due
\* rows are in the places the order gives them, and the list ends after the last due row.
PagesInv ==
  Is("pages") =>
    LET S == Listable(input.list, input.rows, input.filter)
        D == DueOf(input.list, S)
        read == (input.page - 1) * input.size
    IN  /\ IsListed(input)
        /\ input.page \in Nat \ {0} /\ input.more \in BOOLEAN
        /\ input.shown \in Seq(S)
        /\ HaveRead(input.shown, Cardinality(S), read)
        /\ Apart(input.list, D) => Placing(input.shown, OrderOf(input.list, S), D)
        /\ ~input.more => /\ ListsOf(input.list, input.rows, input.filter) # {}
                          /\ Cardinality(D) <= Len(input.shown)

LEMMA PagesInit == Init => PagesInv
<1> SUFFICES ASSUME Init, Is("pages") PROVE PagesInv
  BY DEF PagesInv
<1>1. input \in Pagings
  <2>1. Passed
    BY PassedInit
  <2>2. input # [algo |-> "score", obs |-> <<>>]
    BY DEF Is
  <2> QED
    BY <2>2, InputsAssumption DEF Init, Is, IsFor, IsEvidence, IsMetric, IsBadged, IsRead, IsRequest,
                                  IsReviewed, IsProfile
<1>2. IsListed(input) /\ input.page = 1 /\ input.shown = <<>> /\ input.more = TRUE
  BY <1>1, InputsAssumption DEF IsPaging
<1> DEFINE S == Listable(input.list, input.rows, input.filter)
<1>3. Cardinality(S) \in Nat
  <2>1. IsFiniteSet(S)
    BY <1>2, ListsAre DEF IsListed, Kinds
  <2> QED
    BY <2>1, FS_CardinalityType
<1> HIDE DEF S
<1>4. (input.page - 1) * input.size = 0
  <2>1. input.size \in Nat
    BY <1>2 DEF IsListed
  <2>2. input.page - 1 = 0 /\ \A x \in Nat : 0 * x = 0
    BY <1>2
  <2> QED
    BY <2>1, <2>2
<1>5. input.shown \in Seq(S) /\ Len(input.shown) = 0 /\ DOMAIN input.shown = {}
  BY <1>2
<1>6. \A R, D : Placing(input.shown, R, D)
  BY <1>5 DEF Placing
<1>7. HaveRead(input.shown, Cardinality(S), (input.page - 1) * input.size)
  BY <1>3, <1>4, <1>5 DEF HaveRead
<1>8. input.page \in Nat \ {0} /\ input.more
  <2>1. input.page = 1 /\ 1 \in Nat \ {0}
    BY <1>2
  <2>2. input.more
    BY <1>2, Zenon
  <2> QED
    BY <2>1, <2>2
<1>9. input.more \in BOOLEAN
  BY <1>2, Zenon
<1> QED
  BY <1>2, <1>5, <1>6, <1>7, <1>8, <1>9 DEF PagesInv, S

LEMMA PagesNext == Passed /\ PagesInv /\ [Next]_input => PagesInv'
<1> SUFFICES ASSUME Passed, PagesInv, [Next]_input, Is("pages")' PROVE PagesInv'
  BY DEF PagesInv
<1>1. CASE UNCHANGED input
  BY <1>1 DEF PagesInv, Is
<1>2. CASE Observe
  <2>1. PICK o \in Mentioned : input' = [input EXCEPT !.obs = Append(@, o)]
    BY <1>2 DEF Observe
  <2>2. input'.algo = input.algo
    BY <2>1 DEF Passed
  <2> QED
    BY <1>2, <2>2 DEF Observe, Is
<1>3. CASE HalfLife
  <2>1. input'.algo = input.algo
    BY <1>3 DEF HalfLife, Passed
  <2> QED
    BY <1>3, <2>1 DEF HalfLife, Is
<1>4. CASE NextPage
  <2> DEFINE list == input.list  rows == input.rows  f == input.filter  size == input.size
             S == Listable(list, rows, f)  D == DueOf(list, S)  n == Cardinality(S)
             total == TotalOf(list, rows, f)
  <2>1. /\ IsListed(input) /\ input.page \in Nat \ {0} /\ input.shown \in Seq(S)
        /\ HaveRead(input.shown, n, (input.page - 1) * size)
        /\ Apart(list, D) => Placing(input.shown, OrderOf(list, S), D)
    BY <1>4 DEF NextPage, PagesInv
  <2>2. PICK s \in ListsOf(list, rows, f) :
          input' = [input EXCEPT !.shown = @ \o Slice(s, input.page, size), !.page = @ + 1,
                                 !.more = HasMore(input.page, size, total)]
    BY <1>4 DEF NextPage
  <2>3. /\ list \in Kinds /\ IsFiniteSet(rows) /\ size \in Nat \ {0}
        /\ {"list", "rows", "filter", "size", "page", "shown", "more"} \subseteq DOMAIN input
    BY <2>1 DEF IsListed, Kinds
  <2>4. /\ input'.list = list /\ input'.rows = rows /\ input'.filter = f /\ input'.size = size
        /\ input'.page = input.page + 1 /\ input'.more = HasMore(input.page, size, total)
        /\ input'.shown = input.shown \o Slice(s, input.page, size) /\ DOMAIN input' = DOMAIN input
    BY <2>2, <2>3
  <2>5. IsListed(input')
    BY <2>1, <2>4 DEF IsListed
  <2>6. IsFiniteSet(S) /\ S \subseteq rows /\ SortedBy(s, S, OrderOf(list, S)) /\ n \in Nat
    <3>1. s \in ListsOf(list, rows, f)
      OBVIOUS
    <3> QED
      BY <2>3, <3>1, ListsAre, FS_CardinalityType
  <2>7. s \in Seq(S) /\ Len(s) = n
    BY <2>6, ListsAll DEF SortedBy
  <2> DEFINE t == input.shown \o Slice(s, input.page, size)
  <2>8. /\ t \in Seq(S) /\ HaveRead(t, n, input.page * size)
        /\ DOMAIN t = 1..Len(t) /\ Len(t) <= n
        /\ \A k \in DOMAIN t : t[k] = IF k \in DOMAIN input.shown THEN input.shown[k] ELSE s[k]
    <3> DEFINE page == input.page  shown == input.shown
    <3>1. /\ n \in Nat /\ shown \in Seq(S) /\ s \in Seq(S) /\ Len(s) = n
          /\ page \in Nat \ {0} /\ size \in Nat \ {0}
          /\ HaveRead(shown, n, (page - 1) * size)
      BY <2>1, <2>3, <2>6, <2>7
    <3> HIDE DEF list, rows, f, size, S, n, page, shown
    <3>2. Continues(shown \o Slice(s, page, size), S, shown, s, n, page * size)
      BY <3>1, NextPlaces
    <3> QED
      BY <3>2 DEF page, shown, Continues
  <2>9. ASSUME Apart(list, D) PROVE Placing(t, OrderOf(list, S), D)
    <3>1. Leads(OrderOf(list, S), S, D)
      <4>1. \A r \in S : CASE list = "reviews" -> r.at \in Int \cup {None}
                           [] list = "places"  -> r.score \in Int \cup {None} /\ r.name \in Int
                           [] OTHER            -> r.ranked \in BOOLEAN /\ (r.ranked => r.score \in Int)
        BY <2>1, <2>6 DEF IsListed
      <4> HIDE DEF list, S
      <4> QED
        BY <2>3, <2>9, <4>1, DueLeads
    <3> HIDE DEF list, rows, f, size, S, D, t
    <3>2. Placing(s, OrderOf(list, S), D)
      BY <2>6, <3>1, OrderPlaces
    <3>3. Placing(input.shown, OrderOf(list, S), D)
      BY <2>1, <2>9
    <3>4. DOMAIN s = 1..n /\ \A k \in DOMAIN t : k \in DOMAIN s
      BY <2>7, <2>8, LenProperties
    <3> QED
      BY <2>8, <3>2, <3>3, <3>4 DEF Placing
  <2>10. ListsOf(list, rows, f) # {}
    BY <2>2
  <2>11. Cardinality(D) \in Nat /\ Cardinality(D) <= n /\ Cardinality(D) <= total /\ total \in Nat
    <3>1. D \subseteq S
      BY DEF DueOf
    <3>2. IsFiniteSet(D) /\ Cardinality(D) \in Nat /\ Cardinality(D) <= n
      <4> HIDE DEF S, D
      <4> QED
        BY <2>6, <3>1, FS_Subset, FS_CardinalityType
    <3>3. CASE list = "dish"
      <4> DEFINE every == {r \in rows : r.ranked}
      <4>1. D \subseteq every /\ total = Cardinality(every)
        BY <2>6, <3>3 DEF DueOf, RankedOnly, TotalOf, RankedTotal
      <4>2. IsFiniteSet(every)
        BY <2>3, FS_Subset
      <4> HIDE DEF every, D, total
      <4> QED
        BY <3>2, <4>1, <4>2, FS_Subset, FS_CardinalityType
    <3>4. CASE list = "menu"
      <4>1. total = Cardinality(rows) /\ S = rows
        BY <3>4 DEF TotalOf, Listable
      <4> QED
        BY <2>6, <3>2, <4>1
    <3>5. CASE list \notin {"dish", "menu"}
      <4> DEFINE some == CHOOSE u \in ListsOf(list, rows, f) : TRUE
      <4>1. some \in ListsOf(list, rows, f)
        BY <2>2
      <4>2. total = Len(some)
        BY <3>5 DEF TotalOf
      <4> HIDE DEF some, list, rows, f, total
      <4>3. SortedBy(some, S, OrderOf(list, S))
        BY <2>3, <4>1, ListsAre
      <4>4. Len(some) = n
        BY <2>6, <4>3, ListsAll DEF SortedBy
      <4> QED
        BY <2>6, <3>2, <4>2, <4>4
    <3> QED
      BY <3>3, <3>4, <3>5
  <2>12. ASSUME ~HasMore(input.page, size, total) PROVE Cardinality(D) <= Len(t)
    <3>1. input.page * size \in Nat
      <4>1. \A x, y \in Nat : x * y \in Nat
        OBVIOUS
      <4> QED
        BY <2>1, <2>3, <4>1
    <3>2. ~(input.page * size < total)
      BY <2>12 DEF HasMore
    <3> DEFINE b == input.page * size
    <3> HIDE DEF b, n, total, D, t
    <3> QED
      BY <2>6, <2>8, <2>11, <3>1, <3>2 DEF b, HaveRead
  <2>13. input.page + 1 \in Nat \ {0} /\ (input.page + 1) - 1 = input.page
    BY <2>1
  <2>14. HasMore(input.page, size, total) \in BOOLEAN
    BY DEF HasMore
  <2> HIDE DEF total
  <2> QED
    BY <2>4, <2>5, <2>8, <2>9, <2>10, <2>12, <2>13, <2>14 DEF PagesInv
<1> QED
  BY <1>1, <1>2, <1>3, <1>4 DEF Next

LEMMA PagesHold == Spec => []PagesInv
<1>1. Passed /\ PagesInv /\ [Next]_input => PagesInv'
  BY PagesNext
<1> QED
  BY <1>1, PagesInit, PassedHolds, PTL DEF Spec

\* A reader who turns the pages of a list to the end has seen what it is of, in its order and each
\* once, whatever the sizes of the pages and wherever the database breaks ties among the rows that
\* are not due (list_dish_restaurants, list_restaurant_dishes, list_restaurant_reviews,
\* list_restaurants).
THEOREM PagesReachAllHolds == Spec => []PagesReachAll
<1>1. PagesInv => PagesReachAll
  <2> SUFFICES ASSUME PagesInv, Is("pages"), ~input.more PROVE PagesReachAll
    BY DEF PagesReachAll
  <2> DEFINE list == input.list  rows == input.rows  f == input.filter
             S == Listable(list, rows, f)  D == DueOf(list, S)
             some == CHOOSE s \in ListsOf(list, rows, f) : TRUE
             due == {r \in ToSet(some) : list \in {"dish", "menu"} => r.ranked}
             apart == \A a, b \in due : RankKey(list, a) = RankKey(list, b) => a = b
  <2>1. /\ list \in Kinds /\ IsFiniteSet(rows) /\ input.shown \in Seq(S)
        /\ Apart(list, D) => Placing(input.shown, OrderOf(list, S), D)
        /\ ListsOf(list, rows, f) # {} /\ Cardinality(D) <= Len(input.shown)
        /\ \A r \in rows : CASE list = "reviews" -> r.at \in Int \cup {None}
                              [] list = "places"  -> r.score \in Int \cup {None} /\ r.name \in Int
                              [] OTHER -> r.ranked \in BOOLEAN /\ (r.ranked => r.score \in Int)
    BY DEF PagesInv, IsListed, Kinds
  <2>2. IsFiniteSet(S) /\ S \subseteq rows
    BY <2>1, ListsAre
  <2>3. ToSet(some) = S
    <3>1. some \in ListsOf(list, rows, f)
      BY <2>1
    <3> HIDE DEF some, list, rows, f
    <3>2. SortedBy(some, S, OrderOf(list, S))
      BY <2>1, <3>1, ListsAre
    <3> QED
      BY <2>2, <3>2, ListsAll DEF SortedBy
  <2>4. due = D
    BY <2>3 DEF DueOf, RankedOnly
  <2>5. ASSUME apart PROVE Among(input.shown, due) \in ListsOf(list, due, f)
    <3>1. Apart(list, D)
      BY <2>4, <2>5 DEF Apart
    <3> HIDE DEF due, some, S, list, rows, f
    <3>2. Leads(OrderOf(list, S), S, D)
      <4>1. \A r \in S : CASE list = "reviews" -> r.at \in Int \cup {None}
                           [] list = "places"  -> r.score \in Int \cup {None} /\ r.name \in Int
                           [] OTHER            -> r.ranked \in BOOLEAN /\ (r.ranked => r.score \in Int)
        BY <2>1, <2>2
      <4> HIDE DEF D
      <4> QED
        BY <2>1, <3>1, <4>1, DueLeads DEF D
    <3> HIDE DEF D
    <3>3. SortedBy(Among(input.shown, D), D, OrderOf(list, S))
      BY <2>1, <2>2, <3>1, <3>2, PlacedIsSorted
    <3>4. D \subseteq S /\ Listable(list, D, f) = D /\ IsFiniteSet(D)
      <4>1. D \subseteq S
        BY DEF D, DueOf
      <4>2. Listable(list, D, f) = D
        BY <2>1, <4>1 DEF S, Listable, Matching, Kinds
      <4> QED
        BY <2>2, <4>1, <4>2, FS_Subset
    <3>5. SortedBy(Among(input.shown, D), D, OrderOf(list, D))
      <4> DEFINE t == Among(input.shown, D)
      <4>1. t \in SetToSeqs(D) /\ \A i \in DOMAIN t : \A j \in 1..(i - 1) : <<t[i], t[j]>> \notin OrderOf(list, S)
        BY <3>3 DEF SortedBy
      <4>2. OrderOf(list, D) \subseteq OrderOf(list, S)
        BY <3>4 DEF OrderOf
      <4> HIDE DEF t
      <4>3. SortedBy(t, D, OrderOf(list, D))
        BY <4>1, <4>2 DEF SortedBy
      <4> QED
        BY <4>3 DEF t
    <3>6. Among(input.shown, D) \in ListsOf(list, D, f)
      BY <2>1, <3>4, <3>5, ListsAre
    <3> QED
      BY <2>4, <3>6
  <2> QED
    BY <2>5 DEF PagesReachAll
<1> QED
  BY <1>1, PagesHold, PTL

-----------------------------------------------------------------------------
(* Scores. *)

IsDoubling(f, n) == f[0] = 1 /\ \A k \in 1..n : f[k] = 2 * f[k - 1]

LEMMA DoublingExists ==
  ASSUME NEW n \in Nat
  PROVE  \E f \in [0..n -> Nat \ {0}] : IsDoubling(f, n)
<1> DEFINE P == {m \in Nat : \E f \in [0..m -> Nat \ {0}] : IsDoubling(f, m)}
<1>1. 0 \in P
  <2>1. [k \in 0..0 |-> 1] \in [0..0 -> Nat \ {0}] /\ IsDoubling([k \in 0..0 |-> 1], 0)
    BY DEF IsDoubling
  <2> QED
    BY <2>1
<1>2. ASSUME NEW m \in Nat, m \in P PROVE m + 1 \in P
  <2>1. PICK f \in [0..m -> Nat \ {0}] : IsDoubling(f, m)
    BY <1>2
  <2> DEFINE g == [k \in 0..(m + 1) |-> IF k = m + 1 THEN 2 * f[m] ELSE f[k]]
  <2>2. \A k \in 0..m : f[k] \in Nat \ {0}
    OBVIOUS
  <2>3. m \in 0..m /\ 0 \in 0..(m + 1) /\ m + 1 \in 0..(m + 1) /\ 0 # m + 1
    OBVIOUS
  <2>4. g \in [0..(m + 1) -> Nat \ {0}]
    <3>1. ASSUME NEW k \in 0..(m + 1) PROVE g[k] \in Nat \ {0}
      <4>1. k = m + 1 \/ k \in 0..m
        OBVIOUS
      <4>2. 2 * f[m] \in Nat \ {0}
        BY <2>2, <2>3
      <4> QED
        BY <2>2, <4>1, <4>2
    <3> QED
      BY <3>1
  <2>5. g[0] = 1
    BY <2>1, <2>3 DEF IsDoubling
  <2>6. ASSUME NEW k \in 1..(m + 1) PROVE g[k] = 2 * g[k - 1]
    <3>1. k \in 0..(m + 1) /\ k - 1 \in 0..(m + 1) /\ k - 1 # m + 1 /\ (k = m + 1 \/ k \in 1..m)
      OBVIOUS
    <3>2. CASE k = m + 1
      <4>1. k - 1 = m
        BY <3>2
      <4> QED
        BY <3>1, <3>2, <4>1
    <3>3. CASE k # m + 1
      <4>1. k \in 1..m
        BY <3>1, <3>3
      <4>2. f[k] = 2 * f[k - 1]
        BY <2>1, <4>1 DEF IsDoubling
      <4> QED
        BY <3>1, <3>3, <4>2
    <3> QED
      BY <3>2, <3>3
  <2> HIDE DEF g
  <2>7. IsDoubling(g, m + 1)
    BY <2>5, <2>6 DEF IsDoubling
  <2>8. m + 1 \in Nat
    OBVIOUS
  <2> QED
    BY <2>4, <2>7, <2>8
<1>3. Nat \subseteq P
  <2> HIDE DEF P
  <2> QED
    BY <1>1, <1>2, Inductive
<1> QED
  BY <1>3

LEMMA DoubledType == Doubled \in [0..OLDEST -> Nat \ {0}]
<1>1. OLDEST \in Nat
  BY ScoringAssumption
<1>2. PICK f \in [0..OLDEST -> Nat \ {0}] : IsDoubling(f, OLDEST)
  BY <1>1, DoublingExists
<1> DEFINE Solves(g) == g = [n \in 0..OLDEST |-> IF n = 0 THEN 1 ELSE 2 * g[n - 1]]
<1>3. Solves(f)
  <2>1. ASSUME NEW n \in 0..OLDEST PROVE f[n] = IF n = 0 THEN 1 ELSE 2 * f[n - 1]
    <3>1. n = 0 \/ n \in 1..OLDEST
      BY <1>1
    <3> QED
      BY <1>2, <3>1 DEF IsDoubling
  <2> QED
    BY <2>1
<1>4. Solves(Doubled)
  <2>1. Doubled = CHOOSE g : Solves(g)
    BY DEF Doubled
  <2> HIDE DEF Solves
  <2> QED
    BY <1>3, <2>1
<1>5. DOMAIN Doubled = 0..OLDEST /\ \A n \in 0..OLDEST : Doubled[n] = IF n = 0 THEN 1 ELSE 2 * Doubled[n - 1]
  BY <1>4
<1> DEFINE P == {n \in Nat : n <= OLDEST => Doubled[n] \in Nat \ {0}}
<1>6. 0 \in P
  BY <1>1, <1>5
<1>7. ASSUME NEW n \in Nat, n \in P PROVE n + 1 \in P
  <2> SUFFICES ASSUME n + 1 <= OLDEST PROVE Doubled[n + 1] \in Nat \ {0}
    OBVIOUS
  <2>1. n + 1 \in 0..OLDEST /\ n + 1 # 0 /\ (n + 1) - 1 = n /\ Doubled[n] \in Nat \ {0}
    BY <1>1, <1>7
  <2>2. Doubled[n + 1] = 2 * Doubled[n]
    BY <1>5, <2>1
  <2> QED
    BY <2>1, <2>2
<1>8. Nat \subseteq P
  <2> HIDE DEF P
  <2> QED
    BY <1>6, <1>7, Inductive
<1>9. Doubled = [n \in 0..OLDEST |-> Doubled[n]] /\ \A n \in 0..OLDEST : Doubled[n] \in Nat \ {0}
  BY <1>1, <1>4, <1>5, <1>8
<1> QED
  BY <1>9

LEMMA ClampType ==
  ASSUME NEW x \in Int
  PROVE  Clamp(x) \in 0..100
BY DEF Clamp, AtLeast, AtMost

LEMMA TimesNat ==
  ASSUME NEW a \in Nat, NEW b \in Nat
  PROVE  a * b \in Nat /\ (a > 0 /\ b > 0 => a * b > 0)
OBVIOUS

LEMMA ObservationFacts ==
  ASSUME NEW o \in Observations
  PROVE  /\ AgeOf(o) \in Nat /\ Decay(AgeOf(o)) \in Nat \ {0} /\ Fresh \in Nat \ {0}
         /\ Clamp(o.confidence) \in 0..100 /\ SourceQuality(o) \in 0..100
         /\ Undecayed(o) \in Nat /\ Weight(o) \in Nat /\ o.positivity \in 0..100
<1>1. o.positivity \in 0..100 /\ o.confidence \in Int /\ o.source \in Sources /\ o.age \in Int \cup {None}
  BY DEF Observations
<1>2. OLDEST \in Nat /\ YEAR \in Nat /\ Quality \in [Sources -> 0..100]
  BY ScoringAssumption
<1>3. AgeOf(o) \in Nat
  BY <1>1, <1>2 DEF AgeOf, AtLeast
<1>4. OLDEST - AtMost(OLDEST, AgeOf(o)) \in 0..OLDEST
  BY <1>2, <1>3 DEF AtMost
<1>5. Decay(AgeOf(o)) \in Nat \ {0} /\ Fresh \in Nat \ {0}
  BY <1>2, <1>4, DoubledType DEF Decay, Fresh
<1>6. Clamp(o.confidence) \in 0..100 /\ SourceQuality(o) \in 0..100
  BY <1>1, <1>2, ClampType DEF SourceQuality
<1>7. Undecayed(o) \in Nat
  <2> DEFINE a == Clamp(o.confidence)  b == SourceQuality(o)
  <2>1. a \in Nat /\ b \in Nat
    BY <1>6
  <2> HIDE DEF a, b
  <2>2. a * b \in Nat
    BY <2>1, TimesNat
  <2> QED
    BY <2>2 DEF Undecayed, a, b
<1>8. Weight(o) \in Nat
  BY <1>5, <1>7, TimesNat DEF Weight
<1> QED
  BY <1>1, <1>3, <1>5, <1>6, <1>7, <1>8

\* A sum of naturals, and one in which every term counts.
LEMMA SumNat ==
  ASSUME NEW D, IsFiniteSet(D), NEW g \in [D -> Nat]
  PROVE  /\ SumFunction(g) \in Nat
         /\ D # {} /\ (\A i \in D : g[i] > 0) => SumFunction(g) > 0
<1>1. g \in [D -> Int] /\ Cardinality(D) \in Nat
  BY FS_CardinalityType
<1>2. PICK it : IsSum(it, D, g) /\ SumFunction(g) = it[D]
  BY <1>1, SumExists
<1> DEFINE F == {u \in SUBSET D : it[u] \in Nat /\ (u # {} /\ (\A i \in D : g[i] > 0) => it[u] > 0)}
<1>3. {} \in F
  BY <1>2 DEF IsSum
<1>4. ASSUME NEW u \in SUBSET D, NEW x \in D \ u, u \in F PROVE u \cup {x} \in F
  <2>1. it[u \cup {x}] = g[x] + it[u]
    BY <1>2, SumStep
  <2>2. it[u] \in Nat /\ g[x] \in Nat
    BY <1>4
  <2> QED
    BY <2>1, <2>2
<1>5. D \in F
  <2> HIDE DEF F
  <2> QED
    BY <1>3, <1>4, InductiveOnSets
<1> QED
  BY <1>2, <1>5

\* A sum with one term more.
LEMMA SumMore ==
  ASSUME NEW D, IsFiniteSet(D), NEW x, x \notin D, NEW g \in [D \cup {x} -> Int], NEW h \in [D -> Int],
         Agree(h, g, D)
  PROVE  SumFunction(g) = SumFunction(h) + g[x]
<1> DEFINE E == D \cup {x}
<1>1. IsFiniteSet(E) /\ D \in SUBSET E /\ x \in E \ D /\ g \in [E -> Int]
  BY FS_AddElement
<1>2. PICK it : IsSum(it, E, g) /\ SumFunction(g) = it[E]
  <2> HIDE DEF E
  <2> QED
    BY <1>1, SumExists
<1>3. SumFunction(h) = it[D]
  <2> HIDE DEF E
  <2> QED
    BY <1>1, <1>2, SumIs
<1>4. it[D \cup {x}] = g[x] + it[D] /\ it[D] \in Int
  <2> HIDE DEF E
  <2> QED
    BY <1>1, <1>2, SumStep
<1>5. g[x] \in Int
  BY <1>1
<1> QED
  BY <1>2, <1>3, <1>4, <1>5

LEMMA SquareGrows ==
  ASSUME NEW n \in Nat, NEW q \in Int, NEW x \in Int, NEW y \in 0..100,
         x * x <= n * q, n = 0 => x = 0 /\ q = 0, 0 <= q
  PROVE  (x + y) * (x + y) <= (n + 1) * (q + y * y)
<1>1. (x + y) * (x + y) = x * x + 2 * (x * y) + y * y
  OBVIOUS
<1>2. (n + 1) * (q + y * y) = n * q + q + n * (y * y) + y * y
  OBVIOUS
<1> DEFINE z == q + n * (y * y) - 2 * (x * y)
<1>3. x * x \in Int /\ x * y \in Int /\ y * y \in Int /\ n * (y * y) \in Int /\ n * q \in Int /\ z \in Int
  OBVIOUS
<1>4. 0 <= z
  <2>1. CASE n = 0
    <3>1. x * y = 0 /\ n * (y * y) = 0
      BY <2>1
    <3> QED
      BY <2>1, <3>1
  <2>2. CASE n # 0
    <3>1. n * z = n * q + (n * y) * (n * y) - 2 * (x * (n * y))
      <4>1. n * (n * (y * y)) = (n * y) * (n * y)
        OBVIOUS
      <4>2. n * (2 * (x * y)) = 2 * (x * (n * y))
        OBVIOUS
      <4>3. n * z = n * q + n * (n * (y * y)) - n * (2 * (x * y))
        OBVIOUS
      <4> QED
        BY <4>1, <4>2, <4>3
    <3> DEFINE w == n * y
    <3>2. w \in Int /\ n * z = n * q + w * w - 2 * (x * w)
      BY <3>1
    <3> HIDE DEF w, z
    <3>3. (x - w) * (x - w) = x * x - 2 * (x * w) + w * w
      BY <3>2
    <3>4. 0 <= (x - w) * (x - w)
      <4>1. \A k \in Int : 0 <= k * k
        OBVIOUS
      <4>2. x - w \in Int
        BY <3>2
      <4> QED
        BY <4>1, <4>2
    <3>5. x * w \in Int /\ w * w \in Int
      BY <3>2
    <3>6. 0 <= n * z
      BY <1>3, <3>2, <3>3, <3>4, <3>5
    <3>7. z \in Int /\ n > 0
      BY <1>3, <2>2
    <3>8. \A a \in Nat, b \in Int : a > 0 /\ 0 <= a * b => 0 <= b
      OBVIOUS
    <3> QED
      BY <3>6, <3>7, <3>8
  <2> QED
    BY <2>1, <2>2
<1> QED
  BY <1>1, <1>2, <1>3, <1>4

\* No mean of squares is below the square of the mean.
LEMMA SumOfSquares ==
  ASSUME NEW D, IsFiniteSet(D), NEW p \in [D -> 0..100], NEW q \in [D -> Int],
         \A i \in D : q[i] = p[i] * p[i]
  PROVE  /\ SumFunction(p) \in Int /\ SumFunction(q) \in Int
         /\ SumFunction(p) * SumFunction(p) <= Cardinality(D) * SumFunction(q)
         /\ SumFunction(q) <= 100 * SumFunction(p)
<1>1. p \in [D -> Int]
  OBVIOUS
<1>2. PICK it : IsSum(it, D, p) /\ SumFunction(p) = it[D]
  BY <1>1, SumExists
<1>3. PICK jt : IsSum(jt, D, q) /\ SumFunction(q) = jt[D]
  BY SumExists
<1> DEFINE Square(n, x, y) == /\ x * x <= n * y /\ 0 <= y /\ y <= 100 * x
                              /\ n = 0 => x = 0 /\ y = 0
           F == {u \in SUBSET D : Square(Cardinality(u), it[u], jt[u])}
<1>4. {} \in F
  <2>1. it[{}] = 0 /\ jt[{}] = 0 /\ Cardinality({}) = 0
    BY <1>2, <1>3, FS_EmptySet DEF IsSum
  <2> QED
    BY <2>1
<1>5. ASSUME NEW u \in SUBSET D, NEW z \in D \ u, u \in F PROVE u \cup {z} \in F
  <2> DEFINE n == Cardinality(u)  x == it[u]  y == jt[u]  v == p[z]
  <2>1. it[u \cup {z}] = p[z] + it[u] /\ it[u] \in Int
    BY <1>2, SumStep
  <2>2. jt[u \cup {z}] = q[z] + jt[u] /\ jt[u] \in Int
    BY <1>3, SumStep
  <2>3. Cardinality(u \cup {z}) = n + 1 /\ n \in Nat
    <3>1. IsFiniteSet(u)
      BY FS_Subset
    <3> QED
      BY <3>1, FS_AddElement, FS_CardinalityType
  <2>4. Square(n, x, y)
    BY <1>5
  <2>5. x \in Int /\ y \in Int /\ v \in 0..100 /\ q[z] = v * v
    BY <2>1, <2>2
  <2> HIDE DEF n, x, y, v
  <2>6. x * x <= n * y /\ 0 <= y /\ y <= 100 * x /\ (n = 0 => x = 0 /\ y = 0)
    BY <2>4
  <2>7. (x + v) * (x + v) <= (n + 1) * (y + v * v)
    BY <2>3, <2>5, <2>6, SquareGrows
  <2>8. 0 <= v * v /\ v * v <= 100 * v /\ v * v \in Int /\ v \in Int
    BY <2>5
  <2>9. Square(n + 1, v + x, v * v + y)
    <3>1. v + x = x + v /\ v * v + y = y + v * v /\ n + 1 # 0
      BY <2>3, <2>5, <2>8
    <3>2. 0 <= y + v * v /\ y + v * v <= 100 * (x + v)
      BY <2>5, <2>6, <2>8
    <3> QED
      BY <2>7, <3>1, <3>2
  <2>10. it[u \cup {z}] = v + x /\ jt[u \cup {z}] = v * v + y
    BY <2>1, <2>2, <2>5 DEF x, y, v
  <2> HIDE DEF Square
  <2> QED
    BY <2>3, <2>9, <2>10
<1>6. D \in F
  <2> HIDE DEF F
  <2> QED
    BY <1>4, <1>5, InductiveOnSets
<1>7. it[D] \in Int /\ jt[D] \in Int
  BY <1>2, <1>3 DEF IsSum
<1> QED
  BY <1>2, <1>3, <1>6, <1>7

LEMMA RootExists ==
  ASSUME NEW n \in Nat \ {0}, NEW v \in Int, 0 <= v, v <= 2500 * (n * n)
  PROVE  \E r \in 0..50 : r * r * n * n <= v /\ v < (r + 1) * (r + 1) * n * n
<1> DEFINE R == {r \in 0..50 : r * r * n * n <= v}
           m == Max(R)
<1>1. 0 \in R
  <2>1. 0 * 0 * n * n = 0
    OBVIOUS
  <2> QED
    BY <2>1
<1>2. m \in R /\ \A r \in R : r <= m
  <2>1. IsFiniteSet(0..50)
    <3> DEFINE a == 0  b == 50
    <3>1. a \in Int /\ b \in Int
      OBVIOUS
    <3> HIDE DEF a, b
    <3>2. IsFiniteSet(a..b)
      BY <3>1, FS_Interval
    <3> QED
      BY <3>2 DEF a, b
  <2>2. IsFiniteSet(R) /\ R \in SUBSET Int
    BY <2>1, FS_Subset
  <2> HIDE DEF R
  <2> QED
    BY <1>1, <2>2, Extremes
<1> HIDE DEF m
<1>3. m \in 0..50 /\ m * m * n * n <= v
  BY <1>2
<1>4. CASE m = 50
  <2>1. (m + 1) * (m + 1) * n * n = 2601 * (n * n)
    BY <1>4
  <2>2. n * n \in Nat /\ n * n > 0
    OBVIOUS
  <2>3. v < 2601 * (n * n)
    <3> DEFINE w == n * n
    <3> HIDE DEF w
    <3>1. w \in Nat /\ w > 0 /\ v <= 2500 * w
      BY <2>2 DEF w
    <3>2. v < 2601 * w
      BY <3>1
    <3> QED
      BY <3>2 DEF w
  <2> QED
    BY <1>3, <2>1, <2>3
<1>5. CASE m # 50
  <2>1. m + 1 \in 0..50 /\ m + 1 \notin R
    BY <1>2, <1>3, <1>5
  <2>2. ~((m + 1) * (m + 1) * n * n <= v)
    BY <2>1
  <2>3. (m + 1) * (m + 1) * n * n \in Int
    BY <1>3
  <2>4. v < (m + 1) * (m + 1) * n * n
    BY <2>2, <2>3
  <2> QED
    BY <1>3, <2>4
<1> QED
  BY <1>4, <1>5

\* The deviation of what was said exists, and is half the scale at most.
LEMMA SpreadType ==
  ASSUME NEW obs \in Seq(Observations), obs # <<>>
  PROVE  Spread(obs) \in 0..50
<1> DEFINE n == Len(obs)  D == DOMAIN obs
           p == [i \in D |-> obs[i].positivity]
           q == [i \in D |-> obs[i].positivity * obs[i].positivity]
           x == SumFunction(p)  y == SumFunction(q)
           v == n * y - x * x
<1>1. D = 1..n /\ n \in Nat \ {0} /\ \A i \in D : obs[i] \in Observations
  BY LenProperties, EmptySeq
<1>2. IsFiniteSet(D) /\ Cardinality(D) = n
  <2>1. IsFiniteSet(1..n) /\ Cardinality(1..n) = IF 1 > n THEN 0 ELSE n - 1 + 1
    BY <1>1, FS_Interval
  <2> HIDE DEF n, D
  <2> QED
    BY <1>1, <2>1
<1>3. p \in [D -> 0..100] /\ q \in [D -> Int] /\ \A i \in D : q[i] = p[i] * p[i]
  <2>1. \A i \in D : obs[i].positivity \in 0..100
    BY <1>1, ObservationFacts
  <2>2. \A i \in D : obs[i].positivity * obs[i].positivity \in Int
    <3>1. TAKE i \in D
    <3> DEFINE u == obs[i].positivity
    <3>2. u \in 0..100
      BY <2>1, <3>1, Zenon
    <3> HIDE DEF u
    <3>3. u * u \in Int
      BY <3>2
    <3> QED
      BY <3>3 DEF u
  <2> QED
    BY <2>1, <2>2
<1> HIDE DEF D, p, q
<1>4. x \in Int /\ y \in Int /\ x * x <= n * y /\ y <= 100 * x
  BY <1>2, <1>3, SumOfSquares
<1>5. Spread(obs) = CHOOSE r \in 0..50 : r * r * n * n <= v /\ v < (r + 1) * (r + 1) * n * n
  BY DEF Spread, Total, D, p, q
<1> HIDE DEF n, x, y
<1>6. 0 <= v /\ v \in Int /\ v <= 2500 * (n * n)
  <2>1. x * x \in Int /\ n * y \in Int /\ n * x \in Int /\ n * n \in Int
    BY <1>1, <1>4
  <2>2. n * y <= 100 * (n * x)
    <3>1. \A a, b \in Int : a <= b => n * a <= n * b
      BY <1>1
    <3>2. n * y <= n * (100 * x)
      BY <1>4, <3>1
    <3>3. n * (100 * x) = 100 * (n * x)
      BY <1>1, <1>4
    <3> QED
      BY <3>2, <3>3
  <2>3. 100 * (n * x) - x * x <= 2500 * (n * n)
    <3>1. (x - 50 * n) * (x - 50 * n) = x * x - 100 * (n * x) + 2500 * (n * n)
      BY <1>1, <1>4
    <3>2. \A k \in Int : 0 <= k * k
      OBVIOUS
    <3>3. x - 50 * n \in Int
      BY <1>1, <1>4
    <3>4. 0 <= x * x - 100 * (n * x) + 2500 * (n * n)
      BY <3>1, <3>2, <3>3
    <3> QED
      BY <2>1, <3>4
  <2> QED
    BY <1>4, <2>1, <2>2, <2>3
<1> HIDE DEF v
<1>7. \E r \in 0..50 : r * r * n * n <= v /\ v < (r + 1) * (r + 1) * n * n
  BY <1>1, <1>6, RootExists
<1> QED
  BY <1>5, <1>7

LEMMA Quotient ==
  ASSUME NEW s \in Int, NEW n \in Nat \ {0}
  PROVE  s \div n \in Int /\ n * (s \div n) <= s /\ s < n * (s \div n) + n
OBVIOUS

\* A mean drawn towards a prior lies between the two, up to its rounding.
LEMMA ShrinkBetween ==
  ASSUME NEW s \in Int, NEW w \in Nat \ {0}, NEW m \in Nat, NEW prior \in 0..100,
         NEW lo \in Int, NEW hi \in Int, lo <= prior, prior <= hi, lo <= s \div w, s \div w <= hi
  PROVE  Clamp((s + prior * m) \div (w + m)) \in lo..(hi + 1)
<1> DEFINE o == s \div w  t == s + prior * m  n == w + m  q == t \div n
<1>1. o \in Int /\ w * o <= s /\ s < w * o + w
  BY Quotient
<1>2. prior * m \in Int /\ t \in Int /\ n \in Nat \ {0}
  OBVIOUS
<1> HIDE DEF o
<1>3. lo * n <= t
  <2>1. \A k \in Nat, a, b \in Int : a <= b => a * k <= b * k
    OBVIOUS
  <2>2. lo * w <= o * w /\ lo * m <= prior * m
    BY <1>1, <2>1 DEF o
  <2>3. o * w = w * o /\ lo * n = lo * w + lo * m
    BY <1>1
  <2>4. lo * w \in Int /\ lo * m \in Int /\ o * w \in Int
    BY <1>1
  <2> QED
    BY <1>1, <1>2, <2>2, <2>3, <2>4
<1>4. t <= (hi + 1) * n
  <2>1. \A k \in Nat, a, b \in Int : a <= b => a * k <= b * k
    OBVIOUS
  <2>2. o * w <= hi * w /\ prior * m <= hi * m
    BY <1>1, <2>1 DEF o
  <2>3. o * w = w * o /\ (hi + 1) * n = hi * w + hi * m + w + m
    BY <1>1
  <2>4. hi * w \in Int /\ hi * m \in Int /\ o * w \in Int
    BY <1>1
  <2> QED
    BY <1>1, <1>2, <2>2, <2>3, <2>4
<1> HIDE DEF t, n
<1>5. q \in lo..(hi + 1)
  <2>1. hi + 1 \in Int
    OBVIOUS
  <2> QED
    BY <1>2, <1>3, <1>4, <2>1, DivBetween
<1> HIDE DEF q
<1>6. Clamp(q) \in lo..(hi + 1)
  BY <1>5 DEF Clamp, AtMost, AtLeast
<1> QED
  BY <1>6 DEF q, t, n

\* What is scored.
LEMMA EachIs ==
  ASSUME NEW obs \in Seq(Observations), obs # <<>>
  PROVE  /\ Len(obs) \in Nat \ {0} /\ DOMAIN obs = 1..Len(obs) /\ \A i \in DOMAIN obs : obs[i] \in Observations
         /\ IsFiniteSet(DOMAIN obs) /\ Cardinality(DOMAIN obs) = Len(obs) /\ DOMAIN obs # {}
<1> DEFINE n == Len(obs)
<1>1. n \in Nat \ {0} /\ DOMAIN obs = 1..n /\ \A i \in DOMAIN obs : obs[i] \in Observations
  BY LenProperties, EmptySeq
<1> HIDE DEF n
<1>2. IsFiniteSet(1..n) /\ Cardinality(1..n) = IF 1 > n THEN 0 ELSE n - 1 + 1
  BY <1>1, FS_Interval
<1>3. Cardinality(1..n) = n /\ 1 \in 1..n
  BY <1>1, <1>2
<1> QED
  BY <1>1, <1>2, <1>3 DEF n

LEMMA SentimentBetween ==
  ASSUME NEW obs \in Seq(Observations), obs # <<>>, NEW prior \in 0..100
  PROVE  /\ ObservedPositivity(obs) \in Int /\ Sentiment(obs, prior) \in 0..100
         /\ \A lo, hi \in Int :
              lo <= prior /\ prior <= hi /\ lo <= ObservedPositivity(obs) /\ ObservedPositivity(obs) <= hi
              => Sentiment(obs, prior) \in lo..(hi + 1)
<1> DEFINE D == DOMAIN obs
           g == [i \in D |-> Weight(obs[i])]
           h == [i \in D |-> obs[i].positivity * Weight(obs[i])]
           p == [i \in D |-> obs[i].positivity]
           w == SumFunction(g)  s == SumFunction(h)  m == BAYES_M * Fresh * 10000
<1>1. g \in [D -> Nat] /\ h \in [D -> Nat] /\ p \in [D -> Nat] /\ IsFiniteSet(D)
  <2>1. \A i \in D : obs[i] \in Observations
    BY EachIs
  <2>2. \A i \in D : Weight(obs[i]) \in Nat /\ obs[i].positivity \in 0..100
    BY <2>1, ObservationFacts
  <2>3. \A i \in D : obs[i].positivity \in Nat
    <3>1. \A k \in 0..100 : k \in Nat
      OBVIOUS
    <3> QED
      BY <2>2, <3>1, Zenon
  <2>4. \A i \in D : obs[i].positivity * Weight(obs[i]) \in Nat
    BY <2>2, <2>3, TimesNat
  <2>5. IsFiniteSet(D)
    BY EachIs
  <2> QED
    BY <2>2, <2>3, <2>4, <2>5
<1>2. m \in Nat
  <2>1. BAYES_M \in Nat /\ Fresh \in Nat
    BY ScoringAssumption, DoubledType DEF Fresh
  <2>2. BAYES_M * Fresh \in Nat
    BY <2>1, TimesNat
  <2> HIDE DEF m
  <2>3. \A k \in Nat : k * 10000 \in Nat
    OBVIOUS
  <2> QED
    BY <2>2, <2>3 DEF m
<1>3. /\ ObservedPositivity(obs) = IF w > 0 THEN s \div w ELSE SumFunction(p) \div Len(obs)
      /\ Sentiment(obs, prior) = Clamp(IF w <= 0 THEN prior ELSE (s + prior * m) \div (w + m))
  BY DEF ObservedPositivity, Sentiment, Mean, Total, Shrink
<1> HIDE DEF D, g, h, p, m
<1>4. w \in Nat /\ s \in Nat /\ SumFunction(p) \in Nat /\ Len(obs) \in Nat \ {0}
  BY <1>1, SumNat, EachIs
<1> HIDE DEF w, s
<1>5. CASE w > 0
  <2>1. w \in Nat \ {0} /\ s \in Int /\ ~(w <= 0)
    BY <1>4, <1>5
  <2>2. s \div w \in Int /\ (s + prior * m) \div (w + m) \in Int
    <3>1. prior * m \in Int /\ w + m \in Nat \ {0}
      BY <1>2, <2>1
    <3>2. s + prior * m \in Int
      BY <2>1, <3>1
    <3> QED
      BY <2>1, <3>1, <3>2, Quotient
  <2>3. /\ ObservedPositivity(obs) = s \div w
        /\ Sentiment(obs, prior) = Clamp((s + prior * m) \div (w + m))
    BY <1>3, <1>5, <2>1
  <2>4. ObservedPositivity(obs) \in Int /\ Sentiment(obs, prior) \in 0..100
    BY <2>2, <2>3, ClampType
  <2>5. ASSUME NEW lo \in Int, NEW hi \in Int,
               lo <= prior, prior <= hi, lo <= s \div w, s \div w <= hi
        PROVE  Clamp((s + prior * m) \div (w + m)) \in lo..(hi + 1)
    BY <1>2, <2>1, <2>5, ShrinkBetween
  <2> QED
    BY <2>3, <2>4, <2>5
<1>6. CASE ~(w > 0)
  <2>1. w <= 0 /\ Clamp(prior) = prior
    BY <1>4, <1>6 DEF Clamp, AtMost, AtLeast
  <2>2. SumFunction(p) \div Len(obs) \in Int
    BY <1>4, Quotient
  <2>3. ObservedPositivity(obs) \in Int /\ Sentiment(obs, prior) = prior
    BY <1>3, <1>6, <2>1, <2>2
  <2> QED
    BY <2>3
<1> QED
  BY <1>5, <1>6

\* Evidence only ever adds to what the gate weighs, and its age is not weighed.
LEMMA GateGrows ==
  ASSUME NEW obs \in Seq(Observations), NEW o \in Observations
  PROVE  Ranks(obs) => Ranks(Append(obs, o))
<1> DEFINE n == Len(obs)  t == Append(obs, o)
           g == [i \in 1..(n + 1) |-> Undecayed(t[i])]  h == [i \in 1..n |-> Undecayed(obs[i])]
<1>1. /\ n \in Nat /\ DOMAIN obs = 1..n /\ DOMAIN t = 1..(n + 1) /\ Len(t) = n + 1
      /\ t[n + 1] = o /\ \A i \in 1..n : t[i] = obs[i] /\ obs[i] \in Observations
  BY LenProperties, AppendProperties
<1> HIDE DEF n, t
<1>2. GateWeight(obs) = SumFunction(h) /\ GateWeight(t) = SumFunction(g)
  BY <1>1 DEF GateWeight, Total
<1>3. 1..(n + 1) = (1..n) \cup {n + 1} /\ n + 1 \notin 1..n /\ IsFiniteSet(1..n)
  <2>1. 1 \in Int /\ n \in Int
    BY <1>1
  <2>2. IsFiniteSet(1..n)
    BY <2>1, FS_Interval
  <2> QED
    BY <1>1, <2>2
<1>4. \A i \in 1..(n + 1) : Undecayed(t[i]) \in Nat
  <2>1. \A i \in 1..(n + 1) : t[i] \in Observations
    BY <1>1, <1>3
  <2> QED
    BY <2>1, ObservationFacts
<1>5. g \in [(1..n) \cup {n + 1} -> Int] /\ h \in [1..n -> Nat] /\ h \in [1..n -> Int] /\ Agree(h, g, 1..n)
  <2>1. \A i \in 1..n : Undecayed(t[i]) = Undecayed(obs[i]) /\ i \in 1..(n + 1)
    BY <1>1, <1>3
  <2>2. \A k \in Nat : k \in Int
    OBVIOUS
  <2>3. \A i \in 1..n : Undecayed(obs[i]) \in Nat
    BY <1>4, <2>1
  <2>4. g \in [(1..n) \cup {n + 1} -> Int]
    BY <1>3, <1>4, <2>2
  <2>5. h \in [1..n -> Nat] /\ h \in [1..n -> Int]
    BY <2>2, <2>3
  <2>6. Agree(h, g, 1..n)
    BY <2>1 DEF Agree
  <2> QED
    BY <2>4, <2>5, <2>6
<1>6. SumFunction(g) = SumFunction(h) + Undecayed(o) /\ SumFunction(h) \in Nat /\ Undecayed(o) \in Nat
  <2>1. g[n + 1] = Undecayed(o)
    BY <1>1, <1>3
  <2> HIDE DEF g, h
  <2>2. SumFunction(g) = SumFunction(h) + g[n + 1]
    <3> DEFINE K == 1..n  x == n + 1
    <3>1. IsFiniteSet(K) /\ x \notin K /\ g \in [K \cup {x} -> Int] /\ h \in [K -> Int] /\ Agree(h, g, K)
      BY <1>3, <1>5
    <3> HIDE DEF K, x
    <3>2. SumFunction(g) = SumFunction(h) + g[x]
      BY <3>1, SumMore
    <3> QED
      BY <3>2 DEF x
  <2>3. SumFunction(h) \in Nat
    BY <1>3, <1>5, SumNat
  <2> QED
    BY <2>1, <2>2, <2>3, ObservationFacts
<1> HIDE DEF g, h
<1>7. GateWeight(t) \in Int /\ GateWeight(obs) \in Int /\ GateWeight(t) >= GateWeight(obs)
  BY <1>2, <1>6
<1>8. MIN_MENTIONS \in Nat /\ MIN_WEIGHT * 100 \in Int
  BY ScoringAssumption
<1>9. Len(t) = n + 1 /\ Len(obs) = n
  BY <1>1 DEF n
<1> DEFINE m == MIN_WEIGHT * 100
<1> HIDE DEF m
<1>10. Len(obs) >= MIN_MENTIONS /\ GateWeight(obs) >= m => Len(t) >= MIN_MENTIONS /\ GateWeight(t) >= m
  <2>1. m \in Int /\ MIN_MENTIONS \in Nat /\ n \in Nat
    BY <1>1, <1>8 DEF m
  <2> QED
    BY <1>7, <1>9, <2>1
<1> QED
  BY <1>10 DEF Ranks, m, t

LEMMA GateAgeless ==
  ASSUME NEW obs \in Seq(Observations), NEW aged \in Seq(Observations), Len(aged) = Len(obs),
         \A i \in DOMAIN obs : aged[i].confidence = obs[i].confidence /\ aged[i].source = obs[i].source
  PROVE  Ranks(aged) = Ranks(obs)
<1>1. DOMAIN aged = DOMAIN obs
  BY LenProperties
<1>2. \A i \in DOMAIN obs : Undecayed(aged[i]) = Undecayed(obs[i])
  BY DEF Undecayed, SourceQuality
<1>3. [i \in DOMAIN aged |-> Undecayed(aged[i])] = [i \in DOMAIN obs |-> Undecayed(obs[i])]
  BY <1>1, <1>2
<1>4. GateWeight(aged) = GateWeight(obs)
  BY <1>3 DEF GateWeight, Total
<1> QED
  BY <1>4 DEF Ranks

\* Of two prices the double one is no better value.
LEMMA DearerNoBetter ==
  ASSUME NEW s \in 0..100, NEW p \in {60, 100, 150}
  PROVE  ValueScore(s, p, 100) >= ValueScore(s, 2 * p, 100)
<1> DEFINE ratio(k) == AtLeast(50, AtMost(160, (100 * 100) \div k))
<1>1. 60 # None /\ 100 # None /\ 120 # None /\ 150 # None /\ 200 # None /\ 300 # None
  BY ScoringAssumption
<1>2. p # None /\ 2 * p # None
  BY <1>1
<1>3. /\ ValueScore(s, p, 100) = Clamp((s * ratio(p)) \div 100)
      /\ ValueScore(s, 2 * p, 100) = Clamp((s * ratio(2 * p)) \div 100)
  BY <1>1, <1>2 DEF ValueScore
<1>4. ratio(p) \in 50..160 /\ ratio(2 * p) \in 50..160 /\ ratio(2 * p) <= ratio(p)
  <2>1. CASE p = 60
    <3>1. 2 * p = 120 /\ (100 * 100) \div 60 = 166 /\ (100 * 100) \div 120 = 83
      BY <2>1
    <3> QED
      BY <2>1, <3>1 DEF AtLeast, AtMost
  <2>2. CASE p = 100
    <3>1. 2 * p = 200 /\ (100 * 100) \div 100 = 100 /\ (100 * 100) \div 200 = 50
      BY <2>2
    <3> QED
      BY <2>2, <3>1 DEF AtLeast, AtMost
  <2>3. CASE p = 150
    <3>1. 2 * p = 300 /\ (100 * 100) \div 150 = 66 /\ (100 * 100) \div 300 = 33
      BY <2>3
    <3> QED
      BY <2>3, <3>1 DEF AtLeast, AtMost
  <2> QED
    BY <2>1, <2>2, <2>3
<1> DEFINE a == ratio(p)  b == ratio(2 * p)
<1> HIDE DEF a, b
<1>5. s * b \in Int /\ s * a \in Int /\ s * b <= s * a
  <2>1. a \in Nat /\ b \in Nat /\ b <= a
    BY <1>4 DEF a, b
  <2>2. \A k \in Nat, x, y \in Nat : x <= y => k * x <= k * y
    OBVIOUS
  <2> QED
    BY <2>1, <2>2
<1>6. (s * b) \div 100 <= (s * a) \div 100
  <2> DEFINE x == s * b  y == s * a
  <2> HIDE DEF x, y
  <2>1. x \in Int /\ y \in Int /\ x <= y
    BY <1>5 DEF x, y
  <2>2. x \div 100 <= y \div 100
    BY <2>1
  <2> QED
    BY <2>2 DEF x, y
<1> QED
  <2> DEFINE x == (s * b) \div 100  y == (s * a) \div 100
  <2>1. x \in Int /\ y \in Int
    BY <1>5
  <2> HIDE DEF x, y
  <2>2. x <= y
    BY <1>6 DEF x, y
  <2>3. Clamp(y) >= Clamp(x)
    BY <2>1, <2>2 DEF Clamp, AtMost, AtLeast
  <2> QED
    BY <1>3, <2>3 DEF x, y, a, b

\* The evidence on a dish: what may be mentioned, made older at most.
IsScored(obs) ==
  /\ obs \in Seq(Observations) /\ Len(obs) <= MAX_OBSERVATIONS
  /\ \A i \in DOMAIN obs : \E o \in Mentioned : obs[i].engagement = o.engagement

\* The counts of such evidence are in the table of logarithms.
LEMMA CountsAreKnown ==
  ASSUME NEW obs, IsScored(obs), obs # <<>>
  PROVE  /\ Len(obs) \in DOMAIN Log1p
         /\ Total(LAMBDA o : AtLeast(0, o.engagement), obs) \in DOMAIN Log1p
<1> DEFINE n == Len(obs)  D == DOMAIN obs
           g == [i \in D |-> AtLeast(0, obs[i].engagement)]
           G == {g[i] : i \in D}
<1>1. obs \in Seq(Observations) /\ n <= MAX_OBSERVATIONS /\ MAX_OBSERVATIONS \in Nat
  BY InputsAssumption DEF IsScored
<1>2. /\ n \in Nat \ {0} /\ D # {} /\ IsFiniteSet(D) /\ Cardinality(D) = n
      /\ \A i \in D : obs[i] \in Observations
  BY <1>1, EachIs
<1>3. \A i \in D : g[i] \in Nat
  <2>1. \A i \in D : obs[i].engagement \in Int
    BY <1>2 DEF Observations
  <2> QED
    BY <2>1 DEF AtLeast
<1>4. \A i \in D : \E o \in Mentioned : g[i] = AtLeast(0, o.engagement)
  BY DEF IsScored
<1>5. Total(LAMBDA o : AtLeast(0, o.engagement), obs) = SumFunction(g)
  BY DEF Total
<1>6. g = [i \in D |-> g[i]]
  OBVIOUS
<1> HIDE DEF D, g, n
<1>7. G \in SUBSET Int /\ G # {} /\ IsFiniteSet(G) /\ G \subseteq Nat
  <2>1. IsFiniteSet(G)
    <3> HIDE DEF G
    <3> QED
      BY <1>2, FiniteImage DEF G
  <2>2. G \subseteq Nat
    BY <1>3
  <2>3. Nat \subseteq Int
    OBVIOUS
  <2>4. G # {}
    BY <1>2
  <2> QED
    BY <2>1, <2>2, <2>3, <2>4
<1> DEFINE hi == Max(G)
<1>8. hi \in G /\ \A x \in G : x <= hi
  <2> HIDE DEF G
  <2> QED
    BY <1>7, Extremes
<1> HIDE DEF hi
<1>9. hi \in Nat /\ \A i \in D : 0 <= g[i] /\ g[i] <= hi
  BY <1>3, <1>7, <1>8
<1>10. PICK o \in Mentioned : hi = AtLeast(0, o.engagement)
  BY <1>4, <1>8
<1>11. o.engagement \in Int /\ 0..(MAX_OBSERVATIONS * AtLeast(1, o.engagement)) \subseteq DOMAIN Log1p
  BY <1>10, InputsAssumption DEF Observations
<1> DEFINE top == AtLeast(1, o.engagement)  s == SumFunction(g)
<1>12. top \in Nat \ {0} /\ hi <= top
  BY <1>10, <1>11 DEF AtLeast
<1>13. s \in Nat /\ s <= hi * n
  <2>1. g \in [D -> Nat] /\ g \in [D -> Int]
    BY <1>3, <1>6
  <2>2. SumFunction(g) \in Nat
    BY <1>2, <2>1, SumNat
  <2>3. hi \in Int /\ 0 \in Int
    BY <1>9
  <2>4. SumFunction(g) <= hi * Cardinality(D)
    BY <1>2, <1>9, <2>1, <2>3, SumBetween
  <2> QED
    BY <1>2, <2>2, <2>4
<1> HIDE DEF top, s
<1>14. hi * n <= MAX_OBSERVATIONS * top /\ n <= MAX_OBSERVATIONS * top
  <2>1. \A a, b, c, d \in Nat : a <= b /\ c <= d => a * c <= b * d
    <3>1. TAKE a, b, c, d \in Nat
    <3>2. HAVE a <= b /\ c <= d
    <3>3. a * c <= b * c /\ b * c <= b * d
      BY <3>2
    <3>4. a * c \in Int /\ b * c \in Int /\ b * d \in Int
      OBVIOUS
    <3> QED
      BY <3>3, <3>4
  <2>2. n \in Nat /\ top \in Nat /\ 1 \in Nat /\ 1 <= top
    BY <1>2, <1>12
  <2>3. n * hi <= MAX_OBSERVATIONS * top
    BY <1>1, <1>9, <1>12, <2>1, <2>2
  <2>4. n * 1 <= MAX_OBSERVATIONS * top
    BY <1>1, <1>12, <2>1, <2>2
  <2> QED
    BY <1>9, <2>2, <2>3, <2>4
<1>15. s \in 0..(MAX_OBSERVATIONS * top) /\ n \in 0..(MAX_OBSERVATIONS * top)
  <2> DEFINE m == MAX_OBSERVATIONS * top  k == hi * n
  <2>1. m \in Nat /\ k \in Nat
    BY <1>1, <1>2, <1>9, <1>12, TimesNat
  <2> HIDE DEF m, k
  <2>2. s \in Nat /\ s <= k /\ k <= m /\ n <= m /\ n \in Nat
    BY <1>2, <1>13, <1>14 DEF m, k
  <2>3. s \in 0..m /\ n \in 0..m
    BY <2>1, <2>2
  <2> QED
    BY <2>3 DEF m
<1> QED
  BY <1>5, <1>11, <1>15 DEF n, s, top

LEMMA PercentIsInt == \A k \in 0..100 : k \in Nat /\ k \in Int
OBVIOUS

LEMMA RawType ==
  ASSUME NEW c, c.sentiment \in Int, c.recency \in Int, c.consistency \in Int, c.volume \in Int,
         c.source \in Int, c.engagement \in Int, c.confidence \in Int
  PROVE  Raw(c) \in 0..100
<1> DEFINE t == 35 * c.sentiment + 20 * c.recency + 15 * c.consistency + 10 * c.volume
                + 10 * c.source + 5 * c.engagement + 5 * c.confidence
<1>1. t \in Int
  OBVIOUS
<1> HIDE DEF t
<1>2. t \div 100 \in Int
  BY <1>1
<1> QED
  BY <1>2, ClampType DEF Raw, t

\* Every component of a score is a number, so that evidence that suffices has a score.
LEMMA ScoreExists ==
  ASSUME NEW obs, IsScored(obs), obs # <<>>, NEW prior \in 0..100
  PROVE  Raw(Components(obs, prior)) \in 0..100
<1> DEFINE c == Components(obs, prior)  n == Len(obs)  D == DOMAIN obs
<1>1. obs \in Seq(Observations)
  BY DEF IsScored
<1>2. /\ n \in Nat \ {0} /\ D # {} /\ IsFiniteSet(D)
      /\ \A i \in D : obs[i] \in Observations
  BY <1>1, EachIs
<1>3. c.sentiment \in Int
  <2>1. c.sentiment = Sentiment(obs, prior)
    BY DEF Components
  <2>2. Sentiment(obs, prior) \in 0..100
    BY <1>1, SentimentBetween
  <2> QED
    BY <2>1, <2>2, PercentIsInt, Zenon
<1>4. c.recency \in Int
  <2> DEFINE age == [i \in D |-> AgeOf(obs[i])]  A == {age[i] : i \in D}
  <2>1. MinAge(obs) = Min(A)
    BY DEF MinAge
  <2>2. \A i \in D : age[i] \in Nat
    BY <1>2, ObservationFacts
  <2> HIDE DEF age
  <2>3. A \subseteq Nat /\ A # {} /\ A \in SUBSET Int
    <3>1. A \subseteq Nat /\ A # {}
      BY <1>2, <2>2
    <3>2. Nat \subseteq Int
      OBVIOUS
    <3> QED
      BY <3>1, <3>2
  <2>4. IsFiniteSet(A)
    <3> HIDE DEF D
    <3> QED
      BY <1>2, FiniteImage
  <2> HIDE DEF A
  <2>5. MinAge(obs) \in Nat
    BY <2>1, <2>3, <2>4, Extremes
  <2>6. OLDEST - AtMost(OLDEST, MinAge(obs)) \in 0..OLDEST
    BY <2>5, ScoringAssumption DEF AtMost
  <2>7. Decay(MinAge(obs)) \in Nat /\ Fresh \in Nat \ {0}
    BY <2>6, DoubledType, ScoringAssumption DEF Decay, Fresh
  <2>8. 100 * Decay(MinAge(obs)) \in Int
    BY <2>7
  <2>9. (100 * Decay(MinAge(obs))) \div Fresh \in Int
    BY <2>7, <2>8, Quotient
  <2> QED
    BY <2>9 DEF Components
<1>5. c.consistency \in Int
  <2>1. Spread(obs) \in 0..50
    BY <1>1, SpreadType
  <2>2. 100 - 2 * Spread(obs) \in Int /\ 50 \in Int
    <3> DEFINE k == Spread(obs)
    <3> HIDE DEF k
    <3>1. k \in 0..50
      BY <2>1 DEF k
    <3>2. 100 - 2 * k \in Int
      BY <3>1
    <3> QED
      BY <3>2 DEF k
  <2>3. c.consistency = IF n >= 3 THEN Clamp(100 - 2 * Spread(obs)) ELSE 50
    BY DEF Components
  <2>4. Clamp(100 - 2 * Spread(obs)) \in 0..100
    BY <2>2, ClampType
  <2>5. Clamp(100 - 2 * Spread(obs)) \in Int
    BY <2>4, PercentIsInt, Zenon
  <2> QED
    BY <2>2, <2>3, <2>5
<1>6. \A k \in DOMAIN Log1p : \A m \in {VOLUME_SATURATION, ENGAGEMENT_SATURATION} :
        Clamp((100 * Log1p[k]) \div Log1p[m]) \in Int
  <2> SUFFICES ASSUME NEW k \in DOMAIN Log1p, NEW m \in {VOLUME_SATURATION, ENGAGEMENT_SATURATION}
               PROVE  Clamp((100 * Log1p[k]) \div Log1p[m]) \in Int
    OBVIOUS
  <2>1. Log1p[k] \in Nat /\ Log1p[m] \in Nat \ {0}
    BY ScoringAssumption
  <2>2. 100 * Log1p[k] \in Int
    BY <2>1
  <2>3. (100 * Log1p[k]) \div Log1p[m] \in Int
    BY <2>1, <2>2, Quotient
  <2>4. Clamp((100 * Log1p[k]) \div Log1p[m]) \in 0..100
    BY <2>3, ClampType
  <2> QED
    BY <2>4, PercentIsInt, Zenon
<1>7. c.volume \in Int /\ c.engagement \in Int
  <2>1. /\ c.volume = Clamp((100 * Log1p[n]) \div Log1p[VOLUME_SATURATION])
        /\ c.engagement = Clamp((100 * Log1p[Total(LAMBDA o : AtLeast(0, o.engagement), obs)])
                                  \div Log1p[ENGAGEMENT_SATURATION])
    BY DEF Components
  <2>2. /\ n \in DOMAIN Log1p
        /\ Total(LAMBDA o : AtLeast(0, o.engagement), obs) \in DOMAIN Log1p
    BY CountsAreKnown
  <2> QED
    BY <1>6, <2>1, <2>2
<1>8. c.source \in Int
  <2> DEFINE g == [i \in D |-> Decay(AgeOf(obs[i]))]
             h == [i \in D |-> SourceQuality(obs[i]) * Decay(AgeOf(obs[i]))]
  <2>1. c.source = SumFunction(h) \div SumFunction(g)
    BY DEF Components, Total
  <2>2. \A i \in D : Decay(AgeOf(obs[i])) \in Nat /\ Decay(AgeOf(obs[i])) > 0
    BY <1>2, ObservationFacts
  <2>3. \A i \in D : SourceQuality(obs[i]) \in Nat
    <3>1. \A i \in D : SourceQuality(obs[i]) \in 0..100
      BY <1>2, ObservationFacts
    <3> QED
      BY <3>1, PercentIsInt, Zenon
  <2>4. \A i \in D : SourceQuality(obs[i]) * Decay(AgeOf(obs[i])) \in Nat
    BY <2>2, <2>3, TimesNat
  <2>5. g \in [D -> Nat] /\ h \in [D -> Nat] /\ \A i \in D : g[i] > 0
    BY <2>2, <2>4
  <2> HIDE DEF g, h, D
  <2>6. SumFunction(g) \in Nat /\ SumFunction(g) > 0 /\ SumFunction(h) \in Nat
    BY <1>2, <2>5, SumNat
  <2>7. SumFunction(g) \in Nat \ {0} /\ SumFunction(h) \in Int
    BY <2>6
  <2> QED
    BY <2>1, <2>7, Quotient
<1>9. c.confidence \in Int
  <2> DEFINE g == [i \in D |-> Clamp(obs[i].confidence)]
             a == IF \A i \in DOMAIN obs : ~obs[i].ai THEN 85 ELSE 100
             b == IF n >= 3 THEN 10 ELSE 8
  <2>1. c.confidence = ((SumFunction(g) \div n) * a * b) \div 1000
    BY DEF Components, Total, Mean
  <2>2. \A i \in D : Clamp(obs[i].confidence) \in Nat
    <3>1. \A i \in D : Clamp(obs[i].confidence) \in 0..100
      BY <1>2, ObservationFacts
    <3> QED
      BY <3>1, PercentIsInt, Zenon
  <2>3. g \in [D -> Nat]
    BY <2>2
  <2>4. a \in Int /\ b \in Int
    OBVIOUS
  <2> HIDE DEF g, a, b, D
  <2>5. SumFunction(g) \in Int
    BY <1>2, <2>3, SumNat
  <2>6. SumFunction(g) \div n \in Int
    BY <1>2, <2>5, Quotient
  <2> DEFINE q == SumFunction(g) \div n
  <2> HIDE DEF q
  <2>7. q * a * b \in Int
    BY <2>4, <2>6 DEF q
  <2> DEFINE t == q * a * b
  <2> HIDE DEF t
  <2>8. t \div 1000 \in Int
    BY <2>7 DEF t
  <2> QED
    BY <2>1, <2>8 DEF t, q
<1> HIDE DEF c
<1>10. Raw(c) \in 0..100
  BY <1>3, <1>4, <1>5, <1>7, <1>8, <1>9, RawType
<1> QED
  BY <1>10 DEF c

ScoreInv == Is("score") => "obs" \in DOMAIN input /\ IsScored(input.obs)

LEMMA ScoreInit == Init => ScoreInv
<1> SUFFICES ASSUME Init, Is("score") PROVE ScoreInv
  BY DEF ScoreInv
<1>1. input = [algo |-> "score", obs |-> <<>>]
  BY InputsAssumption DEF Init, Is, IsFor, IsEvidence, IsMetric, IsBadged, IsRead, IsRequest,
                          IsReviewed, IsPaging, IsProfile
<1>2. "obs" \in DOMAIN input /\ input.obs = <<>>
  BY <1>1
<1>3. Len(<<>>) = 0 /\ DOMAIN <<>> = {}
  OBVIOUS
<1>4. <<>> \in Seq(Observations) /\ MAX_OBSERVATIONS \in Nat
  BY InputsAssumption, EmptySeq
<1>5. IsScored(<<>>)
  BY <1>3, <1>4 DEF IsScored
<1> QED
  BY <1>2, <1>5 DEF ScoreInv

\* What a mention and a half-life make of the evidence.
LEMMA ScoreSteps ==
  ASSUME ScoreInv, Is("score")
  PROVE  /\ Observe => \E o \in Mentioned : /\ input'.obs = Append(input.obs, o)
                                            /\ IsScored(input'.obs)
         /\ HalfLife => /\ IsScored(input'.obs) /\ Len(input'.obs) = Len(input.obs) /\ input.obs # <<>>
                        /\ \A i \in DOMAIN input.obs :
                             /\ input'.obs[i].confidence = input.obs[i].confidence
                             /\ input'.obs[i].source = input.obs[i].source
<1> DEFINE obs == input.obs  n == Len(obs)
<1>1. /\ IsScored(obs) /\ obs \in Seq(Observations) /\ n \in Nat /\ DOMAIN obs = 1..n
      /\ (\A i \in 1..n : obs[i] \in Observations) /\ n <= MAX_OBSERVATIONS /\ "obs" \in DOMAIN input
      /\ MAX_OBSERVATIONS \in Nat /\ Mentioned \subseteq Observations
  BY LenProperties, InputsAssumption DEF ScoreInv, IsScored
<1>2. ASSUME Observe
      PROVE  \E o \in Mentioned : input'.obs = Append(obs, o) /\ IsScored(input'.obs)
  <2>1. n < MAX_OBSERVATIONS
    BY <1>2 DEF Observe
  <2>2. PICK o \in Mentioned : input' = [input EXCEPT !.obs = Append(@, o)]
    BY <1>2 DEF Observe
  <2>3. input'.obs = Append(obs, o)
    BY <1>1, <2>2
  <2> HIDE DEF obs, n
  <2> DEFINE t == Append(obs, o)
  <2>4. o \in Observations
    BY <1>1
  <2>5. /\ t \in Seq(Observations) /\ Len(t) = n + 1 /\ DOMAIN t = 1..(n + 1)
        /\ t[n + 1] = o /\ \A i \in 1..n : t[i] = obs[i]
    BY <1>1, <2>4, AppendProperties, LenProperties DEF n
  <2>6. \A i \in 1..n : \E m \in Mentioned : obs[i].engagement = m.engagement
    BY <1>1 DEF IsScored, n
  <2> HIDE DEF t
  <2>7. \A i \in 1..(n + 1) : \E m \in Mentioned : t[i].engagement = m.engagement
    <3>1. TAKE i \in 1..(n + 1)
    <3>2. i \in 1..n \/ i = n + 1
      BY <1>1
    <3> QED
      BY <2>5, <2>6, <3>2
  <2>8. n + 1 <= MAX_OBSERVATIONS
    BY <1>1, <2>1
  <2>9. IsScored(t)
    BY <2>5, <2>7, <2>8 DEF IsScored
  <2> QED
    BY <2>3, <2>9 DEF t
<1>3. ASSUME HalfLife
      PROVE  /\ IsScored(input'.obs) /\ Len(input'.obs) = n /\ obs # <<>>
             /\ \A i \in DOMAIN obs : /\ input'.obs[i].confidence = obs[i].confidence
                                      /\ input'.obs[i].source = obs[i].source
  <2> DEFINE aged == [i \in DOMAIN obs |->
                        IF Ages(obs[i]) THEN [obs[i] EXCEPT !.age = @ + 1] ELSE obs[i]]
  <2>1. input'.obs = aged
    <3>1. input' = [input EXCEPT !.obs = aged]
      BY <1>3 DEF HalfLife
    <3> HIDE DEF aged
    <3> QED
      BY <1>1, <3>1
  <2>2. obs # <<>>
    <3>1. \E i \in DOMAIN obs : TRUE
      BY <1>3 DEF HalfLife
    <3>2. DOMAIN <<>> = {}
      OBVIOUS
    <3> QED
      BY <3>1, <3>2
  <2> HIDE DEF obs, n
  <2>3. ASSUME NEW i \in 1..n
        PROVE  /\ aged[i] \in Observations /\ aged[i].confidence = obs[i].confidence
               /\ aged[i].source = obs[i].source /\ aged[i].engagement = obs[i].engagement
    <3> DEFINE o == obs[i]
    <3>1. o \in Observations /\ i \in DOMAIN obs
      BY <1>1
    <3>2. aged[i] = IF Ages(o) THEN [o EXCEPT !.age = @ + 1] ELSE o
      BY <3>1
    <3> HIDE DEF o, aged
    <3>3. CASE Ages(o)
      <4>1. o.age + 1 \in Int
        BY <3>3, ScoringAssumption DEF Ages
      <4>2. aged[i] = [o EXCEPT !.age = o.age + 1]
        BY <3>2, <3>3
      <4> QED
        BY <3>1, <4>1, <4>2 DEF Observations, o
    <3>4. CASE ~Ages(o)
      BY <3>1, <3>2, <3>4 DEF o
    <3> QED
      BY <3>3, <3>4
  <2>4. DOMAIN aged = 1..n
    BY <1>1
  <2>5. aged \in [1..n -> Observations]
    <3>1. aged = [i \in 1..n |-> aged[i]]
      BY <1>1
    <3> HIDE DEF aged
    <3> QED
      BY <2>3, <3>1
  <2> HIDE DEF aged
  <2>6. aged \in Seq(Observations) /\ Len(aged) = n
    BY <1>1, <2>5
  <2>7. \A i \in 1..n : \E m \in Mentioned : aged[i].engagement = m.engagement
    <3>1. \A i \in 1..n : \E m \in Mentioned : obs[i].engagement = m.engagement
      BY <1>1 DEF IsScored
    <3> QED
      BY <2>3, <3>1
  <2>8. IsScored(aged)
    BY <1>1, <2>4, <2>6, <2>7 DEF IsScored
  <2> QED
    BY <1>1, <2>1, <2>2, <2>3, <2>6, <2>8
<1> QED
  BY <1>2, <1>3

LEMMA ScoreNext == Passed /\ ScoreInv /\ [Next]_input => ScoreInv'
<1> SUFFICES ASSUME Passed, ScoreInv, [Next]_input, Is("score")' PROVE ScoreInv'
  BY DEF ScoreInv
<1>1. CASE Observe
  <2>1. Is("score") /\ \E o \in Mentioned : input' = [input EXCEPT !.obs = Append(@, o)]
    BY <1>1 DEF Observe
  <2>2. "obs" \in DOMAIN input'
    BY <2>1 DEF ScoreInv
  <2> QED
    BY <1>1, <2>1, <2>2, ScoreSteps DEF ScoreInv
<1>2. CASE HalfLife
  <2>1. Is("score") /\ DOMAIN input' = DOMAIN input
    BY <1>2 DEF HalfLife
  <2>2. "obs" \in DOMAIN input'
    BY <2>1 DEF ScoreInv
  <2> QED
    BY <1>2, <2>1, <2>2, ScoreSteps DEF ScoreInv
<1>3. CASE NextPage
  <2>1. Is("pages") /\ input'.algo = input.algo
    <3>1. PICK list : input' = [input EXCEPT
                        !.shown = @ \o Slice(list, input.page, input.size), !.page = @ + 1,
                        !.more = HasMore(input.page, input.size,
                                         TotalOf(input.list, input.rows, input.filter))]
      BY <1>3 DEF NextPage
    <3> QED
      BY <1>3, <3>1 DEF Passed, NextPage
  <2> QED
    BY <2>1 DEF Is
<1>4. CASE UNCHANGED input
  BY <1>4 DEF ScoreInv, Is
<1> QED
  BY <1>1, <1>2, <1>3, <1>4 DEF Next

LEMMA ScoreHolds == Spec => []ScoreInv
<1>1. Init /\ [][Next]_input => []Passed
  BY PassedHolds DEF Spec
<1> QED
  BY <1>1, ScoreInit, ScoreNext, PTL DEF Spec

\* A step of the evidence keeps a rank, and leaves what it scores between the prior and the mean.
LEMMA ScoredStep ==
  ASSUME ScoreInv, Is("score"), Observe \/ HalfLife
  PROVE  /\ IsScored(input'.obs) /\ input'.obs # <<>>
         /\ DishScore(input.obs, None).ranked => Ranks(input'.obs)
         /\ Len(input.obs) = Len(input'.obs) => DishScore(input.obs, None).ranked = Ranks(input'.obs)
<1> DEFINE obs == input.obs  after == input'.obs
<1>1. IsScored(obs) /\ obs \in Seq(Observations) /\ Len(obs) \in Nat
  BY LenProperties DEF ScoreInv, IsScored
<1>2. DishScore(obs, None).ranked = IF obs = <<>> THEN FALSE ELSE Ranks(obs)
  BY DEF DishScore
<1>3. Len(<<>>) = 0
  OBVIOUS
<1>4. CASE Observe
  <2>1. PICK o \in Mentioned : after = Append(obs, o) /\ IsScored(after)
    BY <1>4, ScoreSteps
  <2>2. o \in Observations
    BY InputsAssumption
  <2>3. Len(after) = Len(obs) + 1
    BY <1>1, <2>1, <2>2, AppendProperties
  <2>4. Ranks(obs) => Ranks(after)
    BY <1>1, <2>1, <2>2, GateGrows
  <2>5. Len(obs) # Len(after) /\ Len(after) # 0
    BY <1>1, <2>3
  <2> HIDE DEF obs, after
  <2> QED
    BY <1>2, <1>3, <2>1, <2>4, <2>5 DEF obs, after
<1>5. CASE HalfLife
  <2>1. /\ IsScored(after) /\ Len(after) = Len(obs) /\ obs # <<>>
        /\ \A i \in DOMAIN obs : after[i].confidence = obs[i].confidence /\ after[i].source = obs[i].source
    BY <1>5, ScoreSteps
  <2>2. after \in Seq(Observations)
    BY <2>1 DEF IsScored
  <2> HIDE DEF obs, after
  <2>3. Ranks(after) = Ranks(obs)
    BY <1>1, <2>1, <2>2, GateAgeless
  <2>4. after # <<>>
    BY <1>1, <1>3, <2>1, EmptySeq
  <2> QED
    BY <1>2, <2>1, <2>3, <2>4 DEF obs, after
<1> QED
  BY <1>4, <1>5

\* Evidence gives a dish its rank and time takes none away, a score is shown exactly then, and
\* a sentiment lies between the prior and the mean of the evidence (compute_dish_score).
THEOREM RankIsEarnedHolds == Spec => RankIsEarned
<1> DEFINE Earned == Is("score") /\ input'.algo = "score" =>
     LET before == DishScore(input.obs, None)  after == DishScore(input'.obs, None)
     IN  /\ before.ranked => after.ranked
         /\ Len(input.obs) = Len(input'.obs) => before.ranked = after.ranked
         /\ (after.score # None) = after.ranked
         /\ \A p \in {60, 100, 150} :
              ValueScore(after.sentiment, p, 100) >= ValueScore(after.sentiment, 2 * p, 100)
         /\ after.sentiment \in (Min({BAYES_PRIOR, after.observed}) - 1)
                                  ..(Max({BAYES_PRIOR, after.observed}) + 1)
<1>1. ScoreInv /\ [Next]_input => [Earned]_input
  <2> SUFFICES ASSUME ScoreInv, Next, Is("score"), input'.algo = "score" PROVE Earned
    OBVIOUS
  <2> DEFINE obs == input'.obs  before == DishScore(input.obs, None)  after == DishScore(obs, None)
             lo == Min({BAYES_PRIOR, after.observed})  hi == Max({BAYES_PRIOR, after.observed})
  <2>1. Observe \/ HalfLife
    BY DEF Next, NextPage, Is
  <2>2. /\ IsScored(obs) /\ obs # <<>>
        /\ before.ranked => Ranks(obs)
        /\ Len(input.obs) = Len(obs) => before.ranked = Ranks(obs)
    BY <2>1, ScoredStep
  <2>3. BAYES_PRIOR \in 0..100 /\ None \notin Int
    BY ScoringAssumption
  <2>4. /\ after.ranked = Ranks(obs)
        /\ after.score = IF Ranks(obs) THEN Raw(Components(obs, BAYES_PRIOR)) ELSE None
        /\ after.sentiment = Sentiment(obs, BAYES_PRIOR)
        /\ after.observed = ObservedPositivity(obs)
    <3> DEFINE c == Components(obs, BAYES_PRIOR)
    <3>1. c.sentiment = Sentiment(obs, BAYES_PRIOR)
      BY DEF Components
    <3> HIDE DEF obs
    <3>2. after.sentiment = c.sentiment
      BY <2>2 DEF DishScore
    <3> HIDE DEF c
    <3> QED
      BY <2>2, <3>1, <3>2 DEF DishScore, c
  <2>5. Ranks(obs) \in BOOLEAN
    BY DEF Ranks
  <2>6. Raw(Components(obs, BAYES_PRIOR)) \in Int
    <3>1. Raw(Components(obs, BAYES_PRIOR)) \in 0..100
      BY <2>2, <2>3, ScoreExists
    <3> QED
      BY <3>1, PercentIsInt, Zenon
  <2>7. obs \in Seq(Observations)
    BY <2>2 DEF IsScored
  <2> HIDE DEF obs, after, before
  <2>8. (after.score # None) = after.ranked
    BY <2>3, <2>4, <2>5, <2>6
  <2>9. after.sentiment \in 0..100 /\ after.observed \in Int
    BY <2>2, <2>3, <2>4, <2>7, SentimentBetween
  <2>10. \A p \in {60, 100, 150} :
           ValueScore(after.sentiment, p, 100) >= ValueScore(after.sentiment, 2 * p, 100)
    BY <2>9, DearerNoBetter
  <2>11. lo \in Int /\ hi \in Int /\ lo <= BAYES_PRIOR /\ BAYES_PRIOR <= hi
         /\ lo <= after.observed /\ after.observed <= hi
    <3> DEFINE S == {BAYES_PRIOR, after.observed}
    <3>1. S \in SUBSET Int /\ S # {} /\ IsFiniteSet(S) /\ BAYES_PRIOR \in S /\ after.observed \in S
      <4>1. BAYES_PRIOR \in Int
        BY <2>3
      <4>2. IsFiniteSet({BAYES_PRIOR}) /\ {BAYES_PRIOR} \cup {after.observed} = S
        BY FS_Singleton
      <4>3. IsFiniteSet({BAYES_PRIOR} \cup {after.observed})
        BY <4>2, FS_AddElement
      <4> QED
        BY <2>9, <4>1, <4>2, <4>3
    <3> HIDE DEF S
    <3>2. Min(S) \in Int /\ Max(S) \in Int /\ \A x \in S : Min(S) <= x /\ x <= Max(S)
      BY <3>1, Extremes
    <3> QED
      BY <3>1, <3>2 DEF S
  <2> HIDE DEF lo, hi
  <2>12. after.sentiment \in lo..(hi + 1)
    BY <2>2, <2>3, <2>4, <2>7, <2>11, SentimentBetween
  <2>13. after.sentiment \in (lo - 1)..(hi + 1)
    BY <2>11, <2>12
  <2> QED
    BY <2>2, <2>4, <2>8, <2>10, <2>13 DEF obs, after, before, lo, hi
<1>2. Init /\ [][Next]_input => []ScoreInv
  BY ScoreHolds DEF Spec
<1> QED
  BY <1>1, <1>2, PTL DEF Spec, RankIsEarned

=============================================================================
