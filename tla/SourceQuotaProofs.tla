-------------------------- MODULE SourceQuotaProofs --------------------------
(***************************************************************************)
(* The budget theorem of SourceQuota, for any runs, costs, budget, periods *)
(* and faults.                                                             *)
(*                                                                         *)
(* The first half of BudgetKept is not inductive: what a run was promised  *)
(* will be billed later.  `Within' counts the promises too: a reservation  *)
(* was compared with a total that held every promise made before it.       *)
(***************************************************************************)
EXTENDS SourceQuota, FiniteSetTheorems, TLAPS

-----------------------------------------------------------------------------
\* Sums, as the sizes of sets of units.

\* The units of finitely many runs are finitely many, and those of fewer runs no more.
LEMMA UnitsFinite ==
  ASSUME NEW S, IsFiniteSet(S), NEW held, \A q \in S : held[q] \in Nat
  PROVE  /\ \A q \in S : IsFiniteSet({q} \X (1..held[q])) /\ Cardinality({q} \X (1..held[q])) = held[q]
         /\ IsFiniteSet(UNION {{q} \X (1..held[q]) : q \in S})
         /\ Units(held, S) \in Nat
         /\ \A T \in SUBSET S : Units(held, T) <= Units(held, S)
<1> DEFINE Of(q) == {q} \X (1..held[q])
           All(T) == UNION {Of(q) : q \in T}
<1>1. \A q \in S : IsFiniteSet(Of(q)) /\ Cardinality(Of(q)) = held[q]
  <2> TAKE q \in S
  <2>1. IsFiniteSet({q}) /\ Cardinality({q}) = 1
    BY FS_Singleton
  <2>2. IsFiniteSet(1..held[q]) /\ Cardinality(1..held[q]) = held[q]
    <3>1. held[q] \in Nat
      OBVIOUS
    <3>2. /\ IsFiniteSet(1..held[q])
          /\ Cardinality(1..held[q]) = IF 1 > held[q] THEN 0 ELSE held[q] - 1 + 1
      BY <3>1, FS_Interval
    <3> QED
      BY <3>1, <3>2
  <2>3. /\ IsFiniteSet(Of(q))
        /\ Cardinality(Of(q)) = Cardinality({q}) * Cardinality(1..held[q])
    BY <2>1, <2>2, FS_Product
  <2> QED
    BY <2>1, <2>2, <2>3
<1>2. IsFiniteSet({Of(q) : q \in S})
  <2> DEFINE f == [q \in S |-> Of(q)]
  <2>1. f \in Surjection(S, {Of(q) : q \in S})
    BY DEF Surjection
  <2> QED
    BY <2>1, FS_Surjection
<1>3. IsFiniteSet(All(S)) /\ Cardinality(All(S)) \in Nat
  BY <1>1, <1>2, FS_UNION, FS_CardinalityType
<1>4. ASSUME NEW T \in SUBSET S PROVE Cardinality(All(T)) <= Cardinality(All(S))
  <2>1. All(T) \subseteq All(S)
    OBVIOUS
  <2> QED
    BY <1>3, <2>1, FS_Subset
<1> QED
  BY <1>1, <1>3, <1>4 DEF Units

\* One run more, its units more.
LEMMA UnitsAdd ==
  ASSUME NEW S, IsFiniteSet(S), NEW r, r \notin S, NEW held,
         \A q \in S \cup {r} : held[q] \in Nat
  PROVE  Units(held, S \cup {r}) = Units(held, S) + held[r]
<1> DEFINE Of(q) == {q} \X (1..held[q])
           All(T) == UNION {Of(q) : q \in T}
<1>1. /\ IsFiniteSet(All(S)) /\ Cardinality(All(S)) \in Nat
  BY UnitsFinite DEF Units
<1>2. IsFiniteSet(Of(r)) /\ Cardinality(Of(r)) = held[r] /\ held[r] \in Nat
  <2>1. IsFiniteSet({r})
    BY FS_Singleton
  <2> QED
    BY <2>1, UnitsFinite
<1>3. All(S \cup {r}) = All(S) \cup Of(r)
  OBVIOUS
<1>4. All(S) \cap Of(r) = {}
  OBVIOUS
<1>5. Cardinality(All(S) \cup Of(r)) = Cardinality(All(S)) + Cardinality(Of(r))
  <2> HIDE DEF All, Of
  <2>1. Cardinality(All(S) \cap Of(r)) = 0
    BY <1>4, FS_EmptySet
  <2>2. Cardinality(All(S) \cup Of(r)) =
          Cardinality(All(S)) + Cardinality(Of(r)) - Cardinality(All(S) \cap Of(r))
    BY <1>1, <1>2, FS_Union
  <2> QED
    BY <1>1, <1>2, <2>1, <2>2
<1> QED
  BY <1>2, <1>3, <1>5 DEF Units

\* When one run changes what it holds or comes or goes, the sum changes by that.
LEMMA UnitsMove ==
  ASSUME IsFiniteSet(Runs), NEW S \in SUBSET Runs, NEW T \in SUBSET Runs, NEW r \in Runs, NEW h, NEW g,
         \A q \in Runs : h[q] \in Nat /\ g[q] \in Nat,
         \A q \in Runs \ {r} : h[q] = g[q] /\ (q \in S <=> q \in T)
  PROVE  Units(g, T) = Units(h, S) - (IF r \in S THEN h[r] ELSE 0) + (IF r \in T THEN g[r] ELSE 0)
<1> DEFINE R == S \ {r}
<1>1. IsFiniteSet(R) /\ R \in SUBSET Runs
  BY FS_Subset
<1>2. T \ {r} = R
  OBVIOUS
<1>3. {{q} \X (1..h[q]) : q \in R} = {{q} \X (1..g[q]) : q \in R}
  OBVIOUS
<1>4. Units(h, R) = Units(g, R)
  BY <1>3 DEF Units
<1>5. Units(h, R) \in Nat
  BY <1>1, UnitsFinite
<1>6. Units(h, S) = Units(h, R) + (IF r \in S THEN h[r] ELSE 0)
  <2>1. CASE r \in S
    <3>1. S = R \cup {r} /\ r \notin R
      BY <2>1
    <3> QED
      BY <1>1, <2>1, <3>1, UnitsAdd
  <2>2. CASE r \notin S
    <3>1. S = R
      BY <2>2
    <3> QED
      BY <1>5, <2>2, <3>1
  <2> QED
    BY <2>1, <2>2
<1>7. Units(g, T) = Units(g, R) + (IF r \in T THEN g[r] ELSE 0)
  <2>1. CASE r \in T
    <3>1. T = R \cup {r} /\ r \notin R
      BY <1>2, <2>1
    <3> QED
      BY <1>1, <2>1, <3>1, UnitsAdd
  <2>2. CASE r \notin T
    <3>1. T = R
      BY <1>2, <2>2
    <3> QED
      BY <1>4, <1>5, <2>2, <3>1
  <2> QED
    BY <2>1, <2>2
<1> QED
  BY <1>4, <1>5, <1>6, <1>7

-----------------------------------------------------------------------------
(* The invariant. *)

\* A run: what it holds is what its next call or its refund is about.
Shaped(q) ==
  /\ DOMAIN q = {"kind", "pc", "held", "at", "total", "owed", "left", "found", "made", "page", "on"}
  /\ q.kind \in {"videos", "comments", "places"}
  /\ q.pc \in {"loop", "reserved", "call", "details", "refund"}
  /\ q.held \in Nat /\ q.at \in Periods \cup {None} /\ q.total \in Int
  /\ q.pc = "loop" => q.held = 0 /\ q.at = None
  /\ q.pc \in {"reserved", "call"} => q.held = Cost(q.kind)
  /\ q.pc = "details" => q.held = COST_VIDEOS
  /\ q.pc = "refund" => q.owed = q.held

Typed ==
  /\ now \in Periods
  /\ spent \in [Periods -> Int]
  /\ {billed, unseen, leaked} \subseteq [Periods -> Nat]
  /\ DOMAIN run = Runs /\ \A r \in Runs : Shaped(run[r])

Balanced == \A p \in Periods : spent[p] = billed[p] + Held(p) + leaked[p] - unseen[p]

\* The units promised in p: all that are held but those about to be taken back.
Stays(r) == run[r].pc = "reserved" => run[r].total <= BUDGET
Promised(p) == Units([r \in Runs |-> run[r].held], {r \in Runs : run[r].at = p /\ Stays(r)})

Within == \A p \in Periods : billed[p] + Promised(p) <= BUDGET + unseen[p]

IInv == Typed /\ Balanced /\ Within

-----------------------------------------------------------------------------
(* What a step does to a run and to the books. *)

LEMMA Added ==
  ASSUME QuotaAssumption, NEW p \in Periods \cup {None}, NEW n \in Int, NEW f, f \in [Periods -> Int]
  PROVE  /\ Add(f, p, n) \in [Periods -> Int]
         /\ \A q \in Periods : Add(f, p, n)[q] = IF q = p THEN f[q] + n ELSE f[q]
         /\ n \in Nat /\ f \in [Periods -> Nat] => Add(f, p, n) \in [Periods -> Nat]
BY DEF QuotaAssumption, Periods, Add

\* A step of run r: where it goes from where it was, the rest of it and the other runs as they were.
Moves(r, pc, held, at, total, owed) ==
  /\ DOMAIN run' = Runs /\ \A q \in Runs \ {r} : run'[q] = run[q]
  /\ DOMAIN run'[r] = DOMAIN run[r] /\ run'[r].kind = run[r].kind
  /\ run'[r].pc = pc /\ run'[r].held = held /\ run'[r].at = at
  /\ run'[r].total = total /\ run'[r].owed = owed

\* What p's units held and promised gain by it.
HeldGain(r, p) == (IF run'[r].at = p THEN run'[r].held ELSE 0) - (IF run[r].at = p THEN run[r].held ELSE 0)
PromisedGain(r, p) == (IF run'[r].at = p /\ Stays(r)' THEN run'[r].held ELSE 0)
                      - (IF run[r].at = p /\ Stays(r) THEN run[r].held ELSE 0)

LEMMA HeldMoves ==
  ASSUME QuotaAssumption, Typed, Typed', NEW r \in Runs, \A q \in Runs \ {r} : run'[q] = run[q],
         NEW p \in Periods
  PROVE  /\ Held(p) \in Nat /\ Promised(p) \in Nat /\ Promised(p) <= Held(p)
         /\ Held(p)' = Held(p) + HeldGain(r, p)
         /\ Promised(p)' = Promised(p) + PromisedGain(r, p)
<1> DEFINE h == [q \in Runs |-> run[q].held]
           g == [q \in Runs |-> run'[q].held]
           S == {q \in Runs : run[q].at = p}
           T == {q \in Runs : run'[q].at = p}
           V == {q \in Runs : run[q].at = p /\ Stays(q)}
           W == {q \in Runs : run'[q].at = p /\ Stays(q)'}
<1>1. /\ \A q \in Runs : h[q] \in Nat /\ g[q] \in Nat
      /\ \A q \in Runs \ {r} : h[q] = g[q] /\ (q \in S <=> q \in T) /\ (q \in V <=> q \in W)
      /\ h[r] = run[r].held /\ g[r] = run'[r].held
      /\ r \in S <=> run[r].at = p
      /\ r \in T <=> run'[r].at = p
      /\ r \in V <=> run[r].at = p /\ Stays(r)
      /\ r \in W <=> run'[r].at = p /\ Stays(r)'
  BY DEF Typed, Shaped, Stays
<1>2. IsFiniteSet(Runs) /\ {S, T, V, W} \subseteq SUBSET Runs /\ V \subseteq S
  BY DEF QuotaAssumption
<1>3. Held(p) = Units(h, S) /\ Held(p)' = Units(g, T)
  BY DEF Held
<1>4. Promised(p) = Units(h, V) /\ Promised(p)' = Units(g, W)
  BY DEF Promised
<1> HIDE DEF h, g, S, T, V, W
<1>5. IsFiniteSet(S) /\ IsFiniteSet(V)
  BY <1>2, FS_Subset
<1>6. Units(h, S) \in Nat /\ Units(h, V) \in Nat /\ Units(h, V) <= Units(h, S)
  BY <1>1, <1>2, <1>5, UnitsFinite
<1>7. Units(g, T) = Units(h, S) - (IF r \in S THEN h[r] ELSE 0) + (IF r \in T THEN g[r] ELSE 0)
  <2>1. \A q \in Runs \ {r} : h[q] = g[q] /\ (q \in S <=> q \in T)
    BY <1>1
  <2>2. \A q \in Runs : h[q] \in Nat /\ g[q] \in Nat
    BY <1>1
  <2> QED
    <3>1. S \in SUBSET Runs /\ T \in SUBSET Runs /\ IsFiniteSet(Runs) /\ r \in Runs
      BY <1>2
    <3> QED
      BY ONLY <2>1, <2>2, <3>1, UnitsMove
<1>8. Units(g, W) = Units(h, V) - (IF r \in V THEN h[r] ELSE 0) + (IF r \in W THEN g[r] ELSE 0)
  <2>1. \A q \in Runs \ {r} : h[q] = g[q] /\ (q \in V <=> q \in W)
    BY <1>1
  <2>2. \A q \in Runs : h[q] \in Nat /\ g[q] \in Nat
    BY <1>1
  <2> QED
    <3>1. V \in SUBSET Runs /\ W \in SUBSET Runs /\ IsFiniteSet(Runs) /\ r \in Runs
      BY <1>2
    <3> QED
      BY ONLY <2>1, <2>2, <3>1, UnitsMove
<1> QED
  BY <1>1, <1>3, <1>4, <1>6, <1>7, <1>8 DEF HeldGain, PromisedGain

\* The types of the invariant at one period, and how the sums move there.
LEMMA Sums ==
  ASSUME QuotaAssumption, IInv, Typed', NEW r \in Runs, \A q \in Runs \ {r} : run'[q] = run[q],
         NEW p \in Periods
  PROVE  /\ {billed[p], unseen[p], leaked[p], billed'[p], unseen'[p], leaked'[p]} \subseteq Nat
         /\ spent[p] \in Int /\ spent'[p] \in Int /\ BUDGET \in Nat
         /\ spent[p] = billed[p] + Held(p) + leaked[p] - unseen[p]
         /\ billed[p] + Promised(p) <= BUDGET + unseen[p]
         /\ Held(p) \in Nat /\ Promised(p) \in Nat /\ Promised(p) <= Held(p)
         /\ Held(p)' = Held(p) + HeldGain(r, p)
         /\ Promised(p)' = Promised(p) + PromisedGain(r, p)
         /\ HeldGain(r, p) \in Int /\ PromisedGain(r, p) \in Int
<1>1. /\ {billed[p], unseen[p], leaked[p], billed'[p], unseen'[p], leaked'[p]} \subseteq Nat
      /\ spent[p] \in Int /\ spent'[p] \in Int /\ BUDGET \in Nat
  BY DEF IInv, Typed, QuotaAssumption
<1>2. /\ spent[p] = billed[p] + Held(p) + leaked[p] - unseen[p]
      /\ billed[p] + Promised(p) <= BUDGET + unseen[p]
  BY DEF IInv, Balanced, Within
<1>3. /\ Held(p) \in Nat /\ Promised(p) \in Nat /\ Promised(p) <= Held(p)
      /\ Held(p)' = Held(p) + HeldGain(r, p)
      /\ Promised(p)' = Promised(p) + PromisedGain(r, p)
  BY HeldMoves DEF IInv
<1>4. HeldGain(r, p) \in Int /\ PromisedGain(r, p) \in Int
  BY DEF HeldGain, PromisedGain, IInv, Typed, Shaped
<1> QED
  BY <1>1, <1>2, <1>3, <1>4

\* The books after a step whose changes make up for each other.
LEMMA BooksKept ==
  ASSUME QuotaAssumption, IInv, Typed', NEW r \in Runs, \A q \in Runs \ {r} : run'[q] = run[q],
         \A p \in Periods :
           /\ spent'[p] - spent[p] =
                (billed'[p] - billed[p]) + HeldGain(r, p) + (leaked'[p] - leaked[p]) - (unseen'[p] - unseen[p])
           /\ (billed'[p] - billed[p]) + PromisedGain(r, p) <= unseen'[p] - unseen[p]
  PROVE  IInv'
<1>1. ASSUME NEW p \in Periods
      PROVE  /\ spent'[p] = billed'[p] + Held(p)' + leaked'[p] - unseen'[p]
             /\ billed'[p] + Promised(p)' <= BUDGET + unseen'[p]
  <2>1. /\ spent'[p] - spent[p] =
             (billed'[p] - billed[p]) + HeldGain(r, p) + (leaked'[p] - leaked[p]) - (unseen'[p] - unseen[p])
        /\ (billed'[p] - billed[p]) + PromisedGain(r, p) <= unseen'[p] - unseen[p]
    OBVIOUS
  <2>2. spent'[p] = billed'[p] + Held(p)' + leaked'[p] - unseen'[p]
    BY <2>1, Sums
  <2>3. billed'[p] + Promised(p)' <= BUDGET + unseen'[p]
    BY <2>1, Sums
  <2> QED
    BY <2>2, <2>3
<1> QED
  BY <1>1 DEF IInv, Balanced, Within

\* What Settle writes.
LEMMA Settled ==
  ASSUME QuotaAssumption, Typed, NEW r \in Runs, NEW n \in Nat, Settle(r, n)
  PROVE  /\ {unseen', leaked'} \subseteq [Periods -> Nat]
         /\ \A p \in Periods :
              /\ unseen'[p] = unseen[p] + (IF p = now /\ run[r].at # now THEN n ELSE 0)
              /\ leaked'[p] = leaked[p] + (IF p = run[r].at /\ p # now THEN n ELSE 0)
<1>1. /\ {unseen, leaked} \subseteq [Periods -> Nat] /\ now \in Periods \cup {None}
      /\ run[r].at \in Periods \cup {None}
      /\ {unseen, leaked} \subseteq [Periods -> Int]
  BY DEF Typed, Shaped
<1>2. CASE run[r].at = now
  BY <1>1, <1>2 DEF Settle
<1>3. CASE run[r].at # now
  BY <1>1, <1>3, Added DEF Settle
<1> QED
  BY <1>2, <1>3

\* What is written off when what r holds is lost.
LEMMA WrittenOff ==
  ASSUME QuotaAssumption, Typed, NEW r \in Runs, leaked' = Add(leaked, run[r].at, run[r].held)
  PROVE  /\ leaked' \in [Periods -> Nat]
         /\ \A p \in Periods : leaked'[p] = leaked[p] + (IF p = run[r].at THEN run[r].held ELSE 0)
<1>1. leaked \in [Periods -> Nat] /\ leaked \in [Periods -> Int]
      /\ run[r].at \in Periods \cup {None} /\ run[r].held \in Nat /\ run[r].held \in Int
  BY DEF Typed, Shaped
<1> QED
  BY <1>1, Added

-----------------------------------------------------------------------------
(* One lemma per action. *)

LEMMA ReserveStep == ASSUME QuotaAssumption, IInv, NEW r \in Runs, Reserve(r) PROVE IInv'
<1> DEFINE cost == Cost(run[r].kind)
<1>1. /\ cost \in Nat /\ Shaped(run[r]) /\ run[r].pc = "loop" /\ run[r].held = 0 /\ run[r].at = None
      /\ now \in Periods /\ None \notin Periods /\ spent \in [Periods -> Int] /\ BUDGET \in Nat
  BY DEF IInv, Typed, Shaped, Reserve, Wants, Cost, QuotaAssumption, Periods
<1>2. /\ spent' \in [Periods -> Int] /\ UNCHANGED <<billed, unseen, leaked>>
      /\ \A p \in Periods : spent'[p] = IF p = now THEN spent[p] + cost ELSE spent[p]
  BY <1>1, Added DEF Reserve
<1>3. Moves(r, "reserved", cost, now, spent'[now], run[r].owed)
  BY <1>1 DEF IInv, Typed, Shaped, Reserve, Goes, Moves
<1>4. Typed'
  BY <1>1, <1>2, <1>3 DEF IInv, Typed, Shaped, Reserve, Moves, Cost
<1>5. ASSUME NEW p \in Periods
      PROVE  /\ spent'[p] = billed'[p] + Held(p)' + leaked'[p] - unseen'[p]
             /\ billed'[p] + Promised(p)' <= BUDGET + unseen'[p]
  <2>1. /\ HeldGain(r, p) = IF p = now THEN cost ELSE 0
        /\ PromisedGain(r, p) = IF p = now /\ spent'[p] <= BUDGET THEN cost ELSE 0
    BY <1>1, <1>3 DEF HeldGain, PromisedGain, Stays, Moves
  <2>2. \A q \in Runs \ {r} : run'[q] = run[q]
    BY <1>3 DEF Moves
  <2> HIDE DEF cost
  <2>3. spent'[p] = billed'[p] + Held(p)' + leaked'[p] - unseen'[p]
    BY <1>1, <1>2, <1>4, <2>1, <2>2, Sums
  <2>4. billed'[p] + Promised(p)' <= BUDGET + unseen'[p]
    BY <1>1, <1>2, <1>4, <2>1, <2>2, Sums
  <2> QED
    BY <2>3, <2>4
<1> QED
  BY <1>4, <1>5 DEF IInv, Balanced, Within

LEMMA ReserveFailsStep == ASSUME QuotaAssumption, IInv, NEW r \in Runs, ReserveFails(r) PROVE IInv'
<1> DEFINE cost == Cost(run[r].kind)
<1>1. /\ cost \in Nat /\ Shaped(run[r]) /\ run[r].at = None /\ run[r].held = 0 /\ 0 \in Nat
      /\ now \in Periods /\ None \notin Periods
      /\ spent \in [Periods -> Int] /\ leaked \in [Periods -> Nat] /\ leaked \in [Periods -> Int]
  BY DEF IInv, Typed, Shaped, ReserveFails, Wants, Cost, QuotaAssumption, Periods
<1>2. PICK n \in {0, cost} : spent' = Add(spent, now, n) /\ leaked' = Add(leaked, now, n)
  BY DEF ReserveFails
<1>3. /\ spent' \in [Periods -> Int] /\ leaked' \in [Periods -> Nat] /\ UNCHANGED <<now, billed, unseen>>
      /\ \A p \in Periods : spent'[p] - spent[p] = leaked'[p] - leaked[p]
  BY <1>1, <1>2, Added DEF ReserveFails
<1>4. Moves(r, "call", cost, None, run[r].total, run[r].owed)
  BY <1>1 DEF IInv, Typed, Shaped, ReserveFails, Goes, Moves
<1>5. Typed'
  BY <1>1, <1>3, <1>4 DEF IInv, Typed, Shaped, Moves, Cost
<1>6. \A p \in Periods : HeldGain(r, p) = 0 /\ PromisedGain(r, p) = 0
  BY <1>1, <1>4 DEF HeldGain, PromisedGain, Moves
<1>7. \A q \in Runs \ {r} : run'[q] = run[q]
  BY <1>4 DEF Moves
<1>8. \A p \in Periods : /\ {billed[p], unseen[p], leaked[p], leaked'[p]} \subseteq Nat
                         /\ spent[p] \in Int /\ spent'[p] \in Int
  BY <1>5 DEF IInv, Typed
<1> QED
  BY <1>3, <1>5, <1>6, <1>7, <1>8, BooksKept

LEMMA GrantStep == ASSUME QuotaAssumption, IInv, NEW r \in Runs, Grant(r) PROVE IInv'
<1>1. /\ Shaped(run[r]) /\ run[r].pc = "reserved" /\ run[r].total <= BUDGET
      /\ UNCHANGED <<now, spent, billed, unseen, leaked>>
  BY DEF IInv, Typed, Grant, Granted
<1>2. Moves(r, "call", run[r].held, run[r].at, run[r].total, run[r].owed)
  BY <1>1 DEF IInv, Typed, Shaped, Grant, Goes, Moves
<1>3. Typed'
  BY <1>1, <1>2 DEF IInv, Typed, Shaped, Moves
<1>4. \A p \in Periods : HeldGain(r, p) = 0 /\ PromisedGain(r, p) = 0
  BY <1>1, <1>2 DEF HeldGain, PromisedGain, Moves, Stays, Shaped
<1>5. \A q \in Runs \ {r} : run'[q] = run[q]
  BY <1>2 DEF Moves
<1>6. \A p \in Periods : {billed[p], unseen[p], leaked[p]} \subseteq Nat /\ spent[p] \in Int
  BY DEF IInv, Typed
<1> QED
  BY <1>1, <1>3, <1>4, <1>5, <1>6, BooksKept

\* A run that lets go of all it holds.
LEMMA LetsGo ==
  ASSUME QuotaAssumption, Typed, NEW r \in Runs, NEW pc, NEW held \in Nat, NEW total, NEW owed,
         Moves(r, pc, held, None, total, owed)
  PROVE  /\ \A p \in Periods : /\ HeldGain(r, p) = IF p = run[r].at THEN -run[r].held ELSE 0
                               /\ PromisedGain(r, p) = IF p = run[r].at /\ Stays(r) THEN -run[r].held ELSE 0
         /\ \A q \in Runs \ {r} : run'[q] = run[q]
<1>1. None \notin Periods /\ run[r].held \in Nat
  BY DEF QuotaAssumption, Periods, Typed, Shaped
<1> QED
  BY <1>1 DEF HeldGain, PromisedGain, Moves

LEMMA TakeBackStep == ASSUME QuotaAssumption, IInv, NEW r \in Runs, TakeBack(r) PROVE IInv'
<1> DEFINE n == run[r].held
<1>1. /\ Shaped(run[r]) /\ n \in Nat /\ -n \in Int /\ ~Stays(r) /\ Settle(r, n)
      /\ now \in Periods /\ None \notin Periods /\ spent \in [Periods -> Int]
      /\ UNCHANGED <<now, billed>>
  BY DEF IInv, Typed, Shaped, TakeBack, Granted, Stays, QuotaAssumption, Periods
<1>2. /\ spent' \in [Periods -> Int] /\ {unseen', leaked'} \subseteq [Periods -> Nat]
      /\ \A p \in Periods : /\ spent'[p] = IF p = now THEN spent[p] + -n ELSE spent[p]
                            /\ unseen'[p] = unseen[p] + (IF p = now /\ run[r].at # now THEN n ELSE 0)
                            /\ leaked'[p] = leaked[p] + (IF p = run[r].at /\ p # now THEN n ELSE 0)
  BY <1>1, Added, Settled DEF TakeBack, IInv
<1>3. Moves(r, "loop", 0, None, 0, run[r].owed)
  BY <1>1 DEF IInv, Typed, Shaped, TakeBack, Goes, Moves
<1>4. Typed'
  BY <1>1, <1>2, <1>3 DEF IInv, Typed, Shaped, Moves
<1>5. /\ \A p \in Periods : /\ HeldGain(r, p) = IF p = run[r].at THEN -n ELSE 0
                            /\ PromisedGain(r, p) = 0
      /\ \A q \in Runs \ {r} : run'[q] = run[q]
  BY <1>1, <1>3, LetsGo DEF IInv
<1>6. \A p \in Periods : {billed[p], unseen[p], leaked[p]} \subseteq Nat /\ spent[p] \in Int
  BY DEF IInv, Typed
<1> HIDE DEF n
<1>7. \A p \in Periods :
           /\ spent'[p] - spent[p] =
                (billed'[p] - billed[p]) + HeldGain(r, p) + (leaked'[p] - leaked[p]) - (unseen'[p] - unseen[p])
           /\ (billed'[p] - billed[p]) + PromisedGain(r, p) <= unseen'[p] - unseen[p]
  <2> TAKE p \in Periods
  <2>1. spent'[p] - spent[p] = IF p = now THEN -n ELSE 0
    BY <1>1, <1>2, <1>6
  <2>2. /\ unseen'[p] - unseen[p] = IF p = now /\ run[r].at # now THEN n ELSE 0
        /\ leaked'[p] - leaked[p] = IF p = run[r].at /\ p # now THEN n ELSE 0
    BY <1>1, <1>2, <1>6
  <2>3. billed'[p] - billed[p] = 0
    BY <1>1, <1>6
  <2> QED
    BY <1>1, <1>5, <2>1, <2>2, <2>3
<1> QED
  BY <1>4, <1>5, <1>7, BooksKept

LEMMA TakeBackFailsStep == ASSUME QuotaAssumption, IInv, NEW r \in Runs, TakeBackFails(r) PROVE IInv'
<1> DEFINE n == run[r].held
<1>1. /\ Shaped(run[r]) /\ n \in Nat /\ run[r].pc = "reserved" /\ ~Stays(r)
      /\ UNCHANGED <<now, spent, billed, unseen>>
  BY DEF IInv, Typed, Shaped, TakeBackFails, Granted, Stays
<1>2. /\ leaked' \in [Periods -> Nat]
      /\ \A p \in Periods : leaked'[p] = leaked[p] + (IF p = run[r].at THEN n ELSE 0)
  BY WrittenOff DEF TakeBackFails, IInv
<1>3. Moves(r, "call", n, None, run[r].total, run[r].owed)
  BY <1>1 DEF IInv, Typed, Shaped, TakeBackFails, Goes, Moves
<1>4. Typed'
  BY <1>1, <1>2, <1>3 DEF IInv, Typed, Shaped, Moves
<1>5. /\ \A p \in Periods : /\ HeldGain(r, p) = IF p = run[r].at THEN -n ELSE 0
                            /\ PromisedGain(r, p) = 0
      /\ \A q \in Runs \ {r} : run'[q] = run[q]
  BY <1>1, <1>3, LetsGo DEF IInv
<1>6. \A p \in Periods : {billed[p], unseen[p], leaked[p]} \subseteq Nat /\ spent[p] \in Int
  BY DEF IInv, Typed
<1> HIDE DEF n
<1> QED
  BY <1>1, <1>2, <1>4, <1>5, <1>6, BooksKept

\* The units billed are those let go of, or had not been reserved in this period.
LEMMA BillStep ==
  ASSUME QuotaAssumption, IInv, NEW r \in Runs, NEW n \in Nat, Bill(r, n), UNCHANGED spent,
         Typed', \A q \in Runs \ {r} : run'[q] = run[q],
         \A p \in Periods : /\ HeldGain(r, p) = IF p = run[r].at THEN -n ELSE 0
                            /\ PromisedGain(r, p) = IF p = run[r].at THEN -n ELSE 0
  PROVE  IInv'
<1>1. /\ \A p \in Periods : {billed[p], unseen[p], leaked[p]} \subseteq Nat /\ spent[p] \in Int
      /\ now \in Periods /\ billed \in [Periods -> Int]
  BY DEF IInv, Typed
<1>2. \A p \in Periods : /\ billed'[p] = IF p = now THEN billed[p] + n ELSE billed[p]
                         /\ unseen'[p] = unseen[p] + (IF p = now /\ run[r].at # now THEN n ELSE 0)
                         /\ leaked'[p] = leaked[p] + (IF p = run[r].at /\ p # now THEN n ELSE 0)
  BY <1>1, Added, Settled DEF Bill, IInv
<1>3. \A p \in Periods :
           /\ spent'[p] - spent[p] =
                (billed'[p] - billed[p]) + HeldGain(r, p) + (leaked'[p] - leaked[p]) - (unseen'[p] - unseen[p])
           /\ (billed'[p] - billed[p]) + PromisedGain(r, p) <= unseen'[p] - unseen[p]
  BY <1>1, <1>2
<1> QED
  BY <1>3, BooksKept

LEMMA BillTyped ==
  ASSUME QuotaAssumption, Typed, NEW r \in Runs, NEW n \in Nat, Bill(r, n)
  PROVE  {billed', unseen', leaked'} \subseteq [Periods -> Nat]
<1>1. now \in Periods /\ billed \in [Periods -> Nat] /\ billed \in [Periods -> Int]
  BY DEF Typed
<1> QED
  BY <1>1, Added, Settled DEF Bill

LEMMA SearchAnsweredStep ==
  ASSUME QuotaAssumption, IInv, NEW r \in Runs, NEW n \in 0..2, SearchAnswered(r, n)
  PROVE  IInv'
<1>1. /\ Shaped(run[r]) /\ run[r].pc = "call" /\ run[r].held = COST_SEARCH + COST_VIDEOS
      /\ COST_SEARCH \in Nat /\ COST_VIDEOS \in Nat /\ Bill(r, COST_SEARCH) /\ UNCHANGED <<now, spent>>
      /\ DOMAIN run = Runs /\ Typed
  BY DEF IInv, Typed, Shaped, SearchAnswered, Cost, QuotaAssumption
<1>2. \/ Moves(r, "refund", COST_VIDEOS, run[r].at, run[r].total, COST_VIDEOS)
      \/ Moves(r, "details", COST_VIDEOS, run[r].at, run[r].total, run[r].owed)
  <2>1. CASE n = 0
    BY <1>1, <2>1 DEF Shaped, SearchAnswered, Goes, Moves
  <2>2. CASE n # 0
    BY <1>1, <2>2 DEF Shaped, SearchAnswered, Goes, Moves
  <2> QED
    BY <2>1, <2>2
<1>3. Typed'
  BY <1>1, <1>2, BillTyped DEF Typed, Shaped, Moves
<1>4. /\ \A p \in Periods : /\ HeldGain(r, p) = IF p = run[r].at THEN -COST_SEARCH ELSE 0
                            /\ PromisedGain(r, p) = IF p = run[r].at THEN -COST_SEARCH ELSE 0
      /\ \A q \in Runs \ {r} : run'[q] = run[q]
  BY <1>1, <1>2 DEF HeldGain, PromisedGain, Moves, Stays
<1> QED
  BY <1>1, <1>3, <1>4, BillStep

LEMMA DetailsAnsweredStep ==
  ASSUME QuotaAssumption, IInv, NEW r \in Runs, DetailsAnswered(r)
  PROVE  IInv'
<1>1. /\ Shaped(run[r]) /\ run[r].pc \in {"call", "details"} /\ Stays(r) /\ run[r].held \in Nat
      /\ Bill(r, run[r].held) /\ UNCHANGED <<now, spent>> /\ DOMAIN run = Runs /\ Typed
  BY DEF IInv, Typed, Shaped, DetailsAnswered, Stays
<1>2. Moves(r, "loop", 0, None, 0, run[r].owed)
  BY <1>1 DEF Shaped, DetailsAnswered, Goes, Moves
<1>3. Typed'
  BY <1>1, <1>2, BillTyped DEF Typed, Shaped, Moves
<1>4. /\ \A p \in Periods : /\ HeldGain(r, p) = IF p = run[r].at THEN -run[r].held ELSE 0
                            /\ PromisedGain(r, p) = IF p = run[r].at THEN -run[r].held ELSE 0
      /\ \A q \in Runs \ {r} : run'[q] = run[q]
  BY <1>1, <1>2, LetsGo
<1> QED
  BY <1>1, <1>3, <1>4, BillStep

LEMMA PageAnsweredStep ==
  ASSUME QuotaAssumption, IInv, NEW r \in Runs, NEW more \in BOOLEAN, PageAnswered(r, more)
  PROVE  IInv'
<1>1. /\ Shaped(run[r]) /\ run[r].pc \in {"call", "details"} /\ Stays(r) /\ run[r].held \in Nat
      /\ Bill(r, run[r].held) /\ UNCHANGED <<now, spent>> /\ DOMAIN run = Runs /\ Typed
  BY DEF IInv, Typed, Shaped, PageAnswered, Stays
<1>2. Moves(r, "loop", 0, None, 0, run[r].owed)
  BY <1>1 DEF Shaped, PageAnswered, Goes, Moves
<1>3. Typed'
  BY <1>1, <1>2, BillTyped DEF Typed, Shaped, Moves
<1>4. /\ \A p \in Periods : /\ HeldGain(r, p) = IF p = run[r].at THEN -run[r].held ELSE 0
                            /\ PromisedGain(r, p) = IF p = run[r].at THEN -run[r].held ELSE 0
      /\ \A q \in Runs \ {r} : run'[q] = run[q]
  BY <1>1, <1>2, LetsGo
<1> QED
  BY <1>1, <1>3, <1>4, BillStep

LEMMA RefusedStep ==
  ASSUME QuotaAssumption, IInv, NEW r \in Runs, NEW fatal \in BOOLEAN, Refused(r, fatal)
  PROVE  IInv'
<1>1. /\ Shaped(run[r]) /\ run[r].pc \in {"call", "details"} /\ Stays(r) /\ run[r].held \in Nat
      /\ Bill(r, run[r].held) /\ UNCHANGED <<now, spent>> /\ DOMAIN run = Runs /\ Typed
  BY DEF IInv, Typed, Shaped, Refused, Stays
<1>2. Moves(r, "loop", 0, None, 0, run[r].owed)
  BY <1>1 DEF Shaped, Refused, Goes, Moves
<1>3. Typed'
  BY <1>1, <1>2, BillTyped DEF Typed, Shaped, Moves
<1>4. /\ \A p \in Periods : /\ HeldGain(r, p) = IF p = run[r].at THEN -run[r].held ELSE 0
                            /\ PromisedGain(r, p) = IF p = run[r].at THEN -run[r].held ELSE 0
      /\ \A q \in Runs \ {r} : run'[q] = run[q]
  BY <1>1, <1>2, LetsGo
<1> QED
  BY <1>1, <1>3, <1>4, BillStep

LEMMA CallFailsStep == ASSUME QuotaAssumption, IInv, NEW r \in Runs, CallFails(r) PROVE IInv'
<1>1. /\ Shaped(run[r]) /\ run[r].pc \in {"call", "details"} /\ Stays(r) /\ DOMAIN run = Runs /\ Typed
      /\ UNCHANGED <<now, spent, leaked>> /\ now \in Periods
      /\ {billed, unseen} \subseteq [Periods -> Nat] /\ {billed, unseen} \subseteq [Periods -> Int]
      /\ COST_SEARCH \in Nat /\ run[r].held \in Nat
  BY DEF IInv, Typed, Shaped, CallFails, Stays, QuotaAssumption
<1>2. /\ {billed', unseen'} \subseteq [Periods -> Nat]
      /\ \A p \in Periods : billed'[p] - billed[p] = unseen'[p] - unseen[p]
  <2>1. CASE UNCHANGED <<billed, unseen>>
    BY <1>1, <2>1
  <2>2. ASSUME NEW n \in Nat, billed' = Add(billed, now, n), unseen' = Add(unseen, now, n)
        PROVE  /\ {billed', unseen'} \subseteq [Periods -> Nat]
               /\ \A p \in Periods : billed'[p] - billed[p] = unseen'[p] - unseen[p]
    BY <1>1, <2>2, Added
  <2> QED
    BY <1>1, <2>1, <2>2 DEF CallFails
<1>3. Moves(r, "refund", run[r].held, run[r].at, run[r].total, run[r].held)
  BY <1>1 DEF Shaped, CallFails, Goes, Moves
<1>4. Typed'
  BY <1>1, <1>2, <1>3 DEF Typed, Shaped, Moves
<1>5. /\ \A p \in Periods : HeldGain(r, p) = 0 /\ PromisedGain(r, p) = 0
      /\ \A q \in Runs \ {r} : run'[q] = run[q]
  BY <1>1, <1>3 DEF HeldGain, PromisedGain, Moves, Stays
<1>6. \A p \in Periods : /\ {billed[p], unseen[p], leaked[p], billed'[p], unseen'[p]} \subseteq Nat
                         /\ spent[p] \in Int
  BY <1>1, <1>2 DEF Typed
<1> QED
  BY <1>1, <1>2, <1>4, <1>5, <1>6, BooksKept

LEMMA RefundStep == ASSUME QuotaAssumption, IInv, NEW r \in Runs, Refund(r) PROVE IInv'
<1> DEFINE n == run[r].held
<1>1. /\ Shaped(run[r]) /\ n \in Nat /\ -n \in Int /\ run[r].owed = n /\ Stays(r) /\ Settle(r, n)
      /\ now \in Periods /\ None \notin Periods /\ spent \in [Periods -> Int]
      /\ UNCHANGED <<now, billed>> /\ DOMAIN run = Runs /\ Typed
  BY DEF IInv, Typed, Shaped, Refund, Stays, QuotaAssumption, Periods
<1>2. /\ spent' \in [Periods -> Int] /\ {unseen', leaked'} \subseteq [Periods -> Nat]
      /\ \A p \in Periods : /\ spent'[p] = IF p = now THEN spent[p] + -n ELSE spent[p]
                            /\ unseen'[p] = unseen[p] + (IF p = now /\ run[r].at # now THEN n ELSE 0)
                            /\ leaked'[p] = leaked[p] + (IF p = run[r].at /\ p # now THEN n ELSE 0)
  BY <1>1, Added, Settled DEF Refund
<1>3. Moves(r, "loop", 0, None, 0, 0)
  BY <1>1 DEF Shaped, Refund, Goes, Moves
<1>4. Typed'
  BY <1>1, <1>2, <1>3 DEF Typed, Shaped, Moves
<1>5. /\ \A p \in Periods : /\ HeldGain(r, p) = IF p = run[r].at THEN -n ELSE 0
                            /\ PromisedGain(r, p) = IF p = run[r].at THEN -n ELSE 0
      /\ \A q \in Runs \ {r} : run'[q] = run[q]
  BY <1>1, <1>3, LetsGo
<1>6. \A p \in Periods : {billed[p], unseen[p], leaked[p]} \subseteq Nat /\ spent[p] \in Int
  BY <1>1 DEF Typed
<1> HIDE DEF n
<1>7. \A p \in Periods :
           /\ spent'[p] - spent[p] =
                (billed'[p] - billed[p]) + HeldGain(r, p) + (leaked'[p] - leaked[p]) - (unseen'[p] - unseen[p])
           /\ (billed'[p] - billed[p]) + PromisedGain(r, p) <= unseen'[p] - unseen[p]
  <2> TAKE p \in Periods
  <2>1. spent'[p] - spent[p] = IF p = now THEN -n ELSE 0
    BY <1>1, <1>2, <1>6
  <2>2. /\ unseen'[p] - unseen[p] = IF p = now /\ run[r].at # now THEN n ELSE 0
        /\ leaked'[p] - leaked[p] = IF p = run[r].at /\ p # now THEN n ELSE 0
    BY <1>1, <1>2, <1>6
  <2>3. billed'[p] - billed[p] = 0
    BY <1>1, <1>6
  <2> QED
    BY <1>1, <1>5, <2>1, <2>2, <2>3
<1> QED
  BY <1>4, <1>5, <1>7, BooksKept

\* A refund that fails, or a worker that dies: what the run held is written off.
LEMMA LossStep ==
  ASSUME QuotaAssumption, IInv, NEW r \in Runs, RefundFails(r) \/ Die(r)
  PROVE  IInv'
<1> DEFINE n == run[r].held
<1>1. /\ Shaped(run[r]) /\ n \in Nat /\ UNCHANGED <<now, spent, billed, unseen>> /\ DOMAIN run = Runs /\ Typed
  BY DEF IInv, Typed, Shaped, RefundFails, Die
<1>2. /\ leaked' \in [Periods -> Nat]
      /\ \A p \in Periods : leaked'[p] = leaked[p] + (IF p = run[r].at THEN n ELSE 0)
  BY <1>1, WrittenOff DEF RefundFails, Die
<1>3. Moves(r, "loop", 0, None, 0, 0)
  BY <1>1 DEF Shaped, RefundFails, Die, Goes, Moves
<1>4. Typed'
  BY <1>1, <1>2, <1>3 DEF Typed, Shaped, Moves
<1>5. /\ \A p \in Periods : /\ HeldGain(r, p) = IF p = run[r].at THEN -n ELSE 0
                            /\ PromisedGain(r, p) <= 0 /\ PromisedGain(r, p) \in Int
      /\ \A q \in Runs \ {r} : run'[q] = run[q]
  BY <1>1, <1>3, LetsGo
<1>6. \A p \in Periods : {billed[p], unseen[p], leaked[p]} \subseteq Nat /\ spent[p] \in Int
  BY <1>1 DEF Typed
<1> HIDE DEF n
<1> QED
  BY <1>1, <1>2, <1>4, <1>5, <1>6, BooksKept

\* The books of a period do not depend on the clock.
LEMMA StillStep ==
  ASSUME IInv, UNCHANGED <<spent, billed, unseen, leaked, run>>, now' \in Periods
  PROVE  IInv'
BY DEF IInv, Typed, Balanced, Held, Within, Promised, Stays, Shaped

-----------------------------------------------------------------------------

LEMMA InitIInv == QuotaAssumption /\ Init => IInv
<1> SUFFICES ASSUME QuotaAssumption, Init PROVE IInv
  OBVIOUS
<1>1. /\ 0 \in Periods /\ 0 \in Int /\ now = 0 /\ BUDGET \in Nat
      /\ \A p \in Periods : spent[p] = 0 /\ billed[p] = 0 /\ unseen[p] = 0 /\ leaked[p] = 0
  BY DEF Init, Periods, QuotaAssumption
<1>2. DOMAIN run = Runs /\ \A r \in Runs : Shaped(run[r])
  BY DEF Init, Idle, Shaped
<1>3. Typed
  BY <1>1, <1>2 DEF Typed, Init
<1>4. ASSUME NEW p \in Periods PROVE Held(p) = 0 /\ Promised(p) = 0
  <2>1. /\ {r \in Runs : run[r].at = p} = {}
        /\ {r \in Runs : run[r].at = p /\ Stays(r)} = {}
    BY <1>2 DEF QuotaAssumption, Periods, Init, Idle
  <2>2. \A h : Units(h, {}) = 0
    BY FS_EmptySet DEF Units
  <2> QED
    BY <2>1, <2>2 DEF Held, Promised
<1>5. Balanced /\ Within
  BY <1>1, <1>4 DEF Balanced, Within
<1> QED
  BY <1>3, <1>5 DEF IInv

LEMMA StepIInv == QuotaAssumption /\ IInv /\ [Next]_vars => IInv'
<1> SUFFICES ASSUME QuotaAssumption, IInv, [Next]_vars PROVE IInv'
  OBVIOUS
<1>1. CASE UNCHANGED vars
  BY <1>1, StillStep DEF vars, IInv, Typed
<1>2. CASE NextPeriod
  BY <1>2, StillStep DEF NextPeriod, IInv, Typed, Periods, QuotaAssumption
<1>3. ASSUME NEW r \in Runs, Reserve(r) \/ ReserveFails(r) \/ Grant(r) \/ TakeBack(r) \/ TakeBackFails(r)
      PROVE  IInv'
  BY <1>3, ReserveStep, ReserveFailsStep, GrantStep, TakeBackStep, TakeBackFailsStep
<1>4. ASSUME NEW r \in Runs, NEW n \in 0..2, SearchAnswered(r, n) PROVE IInv'
  BY <1>4, SearchAnsweredStep
<1>5. ASSUME NEW r \in Runs, NEW more \in BOOLEAN, PageAnswered(r, more) \/ Refused(r, more) PROVE IInv'
  BY <1>5, PageAnsweredStep, RefusedStep
<1>6. ASSUME NEW r \in Runs, DetailsAnswered(r) \/ CallFails(r) \/ Refund(r) \/ RefundFails(r) \/ Die(r)
      PROVE  IInv'
  BY <1>6, DetailsAnsweredStep, CallFailsStep, RefundStep, LossStep
<1> QED
  BY <1>1, <1>2, <1>3, <1>4, <1>5, <1>6 DEF Next

LEMMA IInvSuffices == QuotaAssumption /\ IInv => BudgetKept
<1> SUFFICES ASSUME QuotaAssumption, IInv, NEW p \in Periods
             PROVE  /\ billed[p] <= BUDGET + unseen[p]
                    /\ spent[p] = billed[p] + Held(p) + leaked[p] - unseen[p]
  BY DEF BudgetKept
<1> DEFINE h == [q \in Runs |-> run[q].held]
           S == {q \in Runs : run[q].at = p /\ Stays(q)}
<1>1. Promised(p) \in Nat
  <2>1. \A q \in S : h[q] \in Nat
    BY DEF IInv, Typed, Shaped
  <2>2. IsFiniteSet(S)
    BY FS_Subset DEF QuotaAssumption
  <2> QED
    BY <2>1, <2>2, UnitsFinite DEF Promised
<1>2. {billed[p], unseen[p]} \subseteq Nat /\ BUDGET \in Nat
  BY DEF IInv, Typed, QuotaAssumption
<1> QED
  BY <1>1, <1>2 DEF IInv, Balanced, Within

\* "Can never overshoot the cap": whatever runs overlap and whatever fails, the source bills no more
\* than the budget but for what the guard cannot see (QuotaGuard, PlacesQuotaGuard).
THEOREM BudgetKeptHolds == QuotaAssumption => (Spec => []BudgetKept)
<1> SUFFICES ASSUME QuotaAssumption PROVE Spec => []BudgetKept
  OBVIOUS
<1>1. Init => IInv
  BY InitIInv
<1>2. IInv /\ [Next]_vars => IInv'
  BY StepIInv
<1>3. IInv => BudgetKept
  BY IInvSuffices
<1> QED
  BY <1>1, <1>2, <1>3, PTL DEF Spec

=============================================================================
