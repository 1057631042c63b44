--------------------------- MODULE EvidenceProofs ---------------------------
(***************************************************************************)
(* Proofs about Evidence, for any restaurants, records, texts, items,      *)
(* chunks and runs.  IInv, which every proof rests on, says that what a    *)
(* task has written or read refers to restaurants that it will find when   *)
(* it commits, and that no two tasks make the same restaurant.             *)
(*                                                                         *)
(* NameIsSourced needs to know which record will say what a task is about  *)
(* to commit, in whichever order the tasks commit: `Sourced'.  That what   *)
(* hangs on a restaurant is about one place (`AllTrue') is proved of the   *)
(* worlds whose places the resolver can tell apart (PlacesDiffer); that    *)
(* only a blind sweep makes twins, of those whose records of a place are   *)
(* alike besides (RecordsAlike).                                           *)
(***************************************************************************)
EXTENDS Evidence, FiniteSetTheorems, WellFoundedInduction, TLAPS

-----------------------------------------------------------------------------
(* The inductive invariant. *)

\* A function from some of D to S.
Partial(D, S) == UNION {[X -> S] : X \in SUBSET D}

Txns == [name : Partial(Ids, Names), at : Partial(Ids, Int), alias : SUBSET (Ids \X Names),
         payload : Partial(Keys, Payloads),
         added : Partial(Keys, [restaurant : Ids, payload : Payloads]),
         conflicts : Partial(Keys, 0..MaxConflicts)]

Read == [id : Ids, name : Names, at : Int, shown : SUBSET Names, aliases : SUBSET Names,
         keys : SUBSET Rows]

TaskRuns == [candidates : SUBSET Read, txn : Txns, pending : SUBSET (Ids \X Names), count : Nat,
             knows : SUBSET Ids, todo : SUBSET (Keys \cup DOMAIN Raws)]

Reviews == [restaurant : Ids, duplicate : BOOLEAN, done : BOOLEAN]

Typed ==
  /\ name \in [Ids -> Names \cup {None}] /\ at \in [Ids -> Int \cup {None}]
  /\ closed \in SUBSET Ids /\ alias \in SUBSET (Ids \X Names)
  /\ source \in [Rows -> SourceRows \cup {None}]
  /\ \A k \in Keys : source[k] # None => source[k].payload \in Payloads
  /\ conflicts \in [Keys \cup DOMAIN Raws -> 0..MaxConflicts]
  /\ review \in [DOMAIN Raws -> Reviews \cup {None}]
  /\ job \in [Jobs -> TaskRuns \cup {None}] /\ begun \in Nat
  /\ of \in [Ids -> Places \cup {None}] /\ blind \in SUBSET Ids

\* Every committed row is about a restaurant that there is.
RowsFit ==
  /\ \A i \in Ids : name[i] = None <=> at[i] = None
  /\ \A i \in closed : name[i] # None
  /\ \A a \in alias : name[a[1]] # None
  /\ \A k \in Rows : source[k] # None => name[source[k].restaurant] # None
  /\ \A r \in DOMAIN Raws : review[r] # None => name[review[r].restaurant] # None

\* The restaurants a run can refer to: those committed, and its own.
Mine(run) == {i \in Ids : name[i] # None \/ i \in DOMAIN run.txn.name}

\* The candidates of a run of j, and what it has written, are about restaurants that it will find
\* when it commits; it writes only what its source is asked for.
Fits(j, run) ==
  LET txn == run.txn
  IN  /\ \A i \in DOMAIN txn.at : i \in Mine(run)
      /\ \A i \in DOMAIN txn.name : name[i] # None \/ i \in DOMAIN txn.at
      /\ \A a \in txn.alias : a[1] \in Mine(run)
      /\ \A k \in DOMAIN txn.added : txn.added[k].restaurant \in Mine(run) /\ SourceOf[k] = j
      /\ \A k \in DOMAIN txn.payload : source[k] # None /\ SourceOf[k] = j
      /\ \A k \in DOMAIN txn.added : k \notin DOMAIN txn.payload /\ k \notin run.todo
      /\ \A c \in run.candidates : c.id \in Mine(run)
      /\ \A c, d \in run.candidates : c.id = d.id => c = d
      /\ \A i \in run.knows : \E c \in run.candidates : c.id = i
      /\ run.pending \subseteq txn.alias
      /\ IF j = "reviews" THEN run.todo \subseteq DOMAIN Raws /\ txn = Nothing
         ELSE \A k \in run.todo : k \in Keys /\ SourceOf[k] = j

\* No two tasks make the same restaurant.
Apart ==
  \A j, h \in Running : j # h =>
    \A i \in DOMAIN job[j].txn.name : i \in DOMAIN job[h].txn.name => name[i] # None

IInv == Typed /\ RowsFit /\ (\A j \in Running : Fits(j, job[j])) /\ Apart

-----------------------------------------------------------------------------
(* In a world whose places differ: the catalogue and every task are true to the world. *)

\* The places are those that the restaurants were made for.
CandidateTrue(made, c) ==
  /\ c.name \in RecordNames(made[c.id]) /\ c.at \in RecordSpots(made[c.id])
  /\ c.shown \cup c.aliases \subseteq PlaceNames[made[c.id]]
  /\ \A k \in c.keys : RealPlace[k] = made[c.id]

TxnTrue(made, txn) ==
  /\ \A i \in DOMAIN txn.name : txn.name[i] \in RecordNames(made[i])
  /\ \A i \in DOMAIN txn.at : txn.at[i] \in RecordSpots(made[i])
  /\ \A a \in txn.alias : a[2] \in PlaceNames[made[a[1]]]
  /\ \A k \in DOMAIN txn.added : made[txn.added[k].restaurant] = RealPlace[k]

RunTrue(made, run) == TxnTrue(made, run.txn) /\ \A c \in run.candidates : CandidateTrue(made, c)

CatalogueTrue ==
  /\ \A i \in Ids : name[i] # None => /\ name[i] \in RecordNames(of[i])
                                      /\ at[i] \in RecordSpots(of[i])
  /\ \A a \in alias : a[2] \in PlaceNames[of[a[1]]]
  /\ \A k \in Rows : source[k] # None => of[source[k].restaurant] = RealPlace[k]
  /\ \A r \in DOMAIN Raws : review[r] # None => of[review[r].restaurant] = RealPlace[r]

AllTrue == CatalogueTrue /\ \A j \in Running : RunTrue(of, job[j])

\* Of two restaurants for one place, even one not committed, one was made blindly.
Twins ==
  \A i, x \in Existing : i # x /\ of[i] = of[x] => i \in blind \/ x \in blind

-----------------------------------------------------------------------------
(* The names. *)

\* What record k says once the tasks S have committed: only one of them fetches it.
Says(S, k) ==
  IF SourceOf[k] \in S /\ k \in DOMAIN job[SourceOf[k]].txn.payload
  THEN job[SourceOf[k]].txn.payload[k] ELSE source[k].payload

BelongsTo(k, i) == source[k] # None /\ source[k].restaurant = i

\* The tasks that do not write the name of i.
Quiet(i) == {j \in Running : i \notin DOMAIN job[j].txn.name}

\* Whatever they commit, a record gives i its name.
StaysSourced(i) ==
  \A S \in SUBSET Quiet(i) : \E k \in Keys : BelongsTo(k, i) /\ Says(S, k).name = name[i]

\* A task that writes the name has the record that gives it.
BringsSource(j, i) ==
  LET txn == job[j].txn
  IN  \E k \in Keys :
        /\ SourceOf[k] = j
        /\ \/ /\ k \in DOMAIN txn.added
              /\ txn.added[k].restaurant = i /\ txn.added[k].payload.name = txn.name[i]
           \/ BelongsTo(k, i) /\ Says({j}, k).name = txn.name[i]

Sourced ==
  /\ \A j \in Running : \A k \in DOMAIN job[j].txn.added : source[k] = None
  /\ \A i \in Ids \ closed :
       /\ name[i] # None => StaysSourced(i)
       /\ \A j \in Running : i \in DOMAIN job[j].txn.name => BringsSource(j, i)

-----------------------------------------------------------------------------
(* The resolver. *)

LEMMA LeastExists ==
  ASSUME NEW S \in SUBSET Nat, S # {}
  PROVE  \E x \in S : \A y \in S : x <= y
<1> DEFINE R == {ss \in Nat \X Nat : ss[1] < ss[2]}
<1>1. IsWellFoundedOn(R, Nat)
  BY NatLessThanWellFounded DEF OpToRel
<1>2. PICK x \in S : \A y \in S : ~(<<y, x>> \in R)
  <2> HIDE DEF R
  <2> QED
    BY <1>1, WFMin
<1>3. ASSUME NEW y \in S PROVE x <= y
  <2>1. <<y, x>> \in Nat \X Nat /\ ~(<<y, x>> \in R)
    BY <1>2
  <2> QED
    BY <2>1
<1> QED
  BY <1>3

LEMMA MostExists ==
  ASSUME NEW S \in SUBSET (0..1000), S # {}
  PROVE  \E x \in S : \A y \in S : x >= y
<1> DEFINE T == {1000 - x : x \in S}
<1>1. T \in SUBSET Nat /\ T # {}
  <2>1. \A x \in 0..1000 : 1000 - x \in Nat
    OBVIOUS
  <2>2. PICK x \in S : TRUE
    OBVIOUS
  <2>3. 1000 - x \in T
    OBVIOUS
  <2>4. \A t \in T : t \in Nat
    BY <2>1
  <2> QED
    BY <2>3, <2>4
<1>2. PICK t \in T : \A u \in T : t <= u
  <2> HIDE DEF T
  <2> QED
    BY <1>1, LeastExists
<1>3. PICK x \in S : t = 1000 - x
  OBVIOUS
<1>4. ASSUME NEW y \in S PROVE x >= y
  <2>1. 1000 - x <= 1000 - y
    <3>1. 1000 - y \in T
      OBVIOUS
    <3> HIDE DEF T
    <3> QED
      BY <1>2, <1>3, <3>1
  <2>2. x \in 0..1000 /\ y \in 0..1000
    OBVIOUS
  <2> QED
    BY ONLY <2>1, <2>2
<1> QED
  BY <1>4

\* One score is the best of several, when each candidate is scored once.
LEMMA ForemostIs ==
  ASSUME NEW scores, scores # {},
         \A s \in scores : s.id \in Nat,
         \A s \in scores : s.confidence \in 0..1000,
         \A s, t \in scores : s.id = t.id => s = t
  PROVE  Foremost(scores) \in scores
<1> DEFINE T == {s.confidence : s \in scores}
<1>1. T \in SUBSET (0..1000) /\ T # {}
  OBVIOUS
<1>2. PICK most \in T : \A t \in T : most >= t
  <2> HIDE DEF T
  <2> QED
    BY <1>1, MostExists
<1>3. PICK s \in scores : most = s.confidence
  BY <1>2
<1>8. \A t \in scores : s.confidence >= t.confidence
  BY <1>2, <1>3
<1> DEFINE U == {t.id : t \in {x \in scores : x.confidence = s.confidence}}
<1>4. U \in SUBSET Nat /\ U # {}
  OBVIOUS
<1>5. PICK i \in U : \A y \in U : i <= y
  BY <1>4, LeastExists
<1>6. PICK t \in scores : t.id = i /\ t.confidence = s.confidence
  BY <1>5
<1>7. ASSUME NEW x \in scores \ {t}
      PROVE  t.confidence > x.confidence \/ (t.confidence = x.confidence /\ t.id < x.id)
  <2>1. t.confidence >= x.confidence /\ t.confidence \in Int /\ x.confidence \in Int
    <3>1. t.confidence \in 0..1000 /\ x.confidence \in 0..1000
      OBVIOUS
    <3>2. t.confidence >= x.confidence
      BY <1>6, <1>8
    <3> HIDE DEF T, U
    <3>3. 0..1000 \subseteq Int
      OBVIOUS
    <3>4. t.confidence \in Int /\ x.confidence \in Int
      BY ONLY <3>1, <3>3
    <3> QED
      BY ONLY <3>2, <3>4
  <2>2. x.confidence = s.confidence => x.id \in U
    OBVIOUS
  <2>3. x.confidence = t.confidence => t.id <= x.id
    BY <1>5, <1>6, <2>2
  <2>4. x.id # t.id /\ x.id \in Int /\ t.id \in Int
    OBVIOUS
  <2> HIDE DEF T, U
  <2> QED
    BY ONLY <2>1, <2>3, <2>4
<1> QED
  BY <1>7 DEF Foremost

\* What the resolver returns is one of its candidates, known by the key or standing on a rung;
\* and it calls a record new only if no candidate stands on one.
LEMMA ResolveIs ==
  ASSUME NEW candidates \in SUBSET Read, \A c, d \in candidates : c.id = d.id => c = d,
         NEW incoming, incoming.name \in Names, incoming.at \in Int \cup {None},
         NEW found, found = Resolve(incoming, candidates)
  PROVE  /\ found.id # None =>
              \E c \in candidates : /\ c.id = found.id
                                    /\ \/ Tier(incoming, c) # None
                                       \/ incoming.key # None /\ incoming.key \in c.keys
         /\ found.method = "new" => \A c \in candidates : Tier(incoming, c) = None
<1> DEFINE keyed == {c \in candidates : incoming.key # None /\ incoming.key \in c.keys}
           scores == Scored(incoming, candidates)
<1>1. CASE keyed # {}
  <2>1. found = Resolution((CHOOSE c \in keyed : TRUE).id, "source_key", 1000)
    BY <1>1 DEF Resolve
  <2>2. PICK c \in keyed : c = CHOOSE x \in keyed : TRUE
    BY <1>1
  <2>3. found.id = c.id /\ found.method = "source_key"
    BY <2>1, <2>2 DEF Resolution
  <2> QED
    BY <2>2, <2>3
<1>2. CASE keyed = {}
  <2>1. found = BestOf(scores)
    BY <1>2 DEF Resolve
  <2>2. ASSUME NEW s \in scores
        PROVE  /\ \E c \in candidates : c.id = s.id /\ Tier(incoming, c) # None
                                        /\ s = Score(c, Tier(incoming, c), NameSimilarity[<<incoming.name, c.name>>])
               /\ s.id \in Ids /\ s.confidence \in 0..1000
               /\ s.method \notin {"new", "ambiguous"}
    <3>1. PICK c \in candidates : /\ Tier(incoming, c) # None
                                  /\ s = Score(c, Tier(incoming, c), NameSimilarity[<<incoming.name, c.name>>])
      BY DEF Scored
    <3>2. NameSimilarity[<<incoming.name, c.name>>] \in 0..100
      BY ResolutionAssumption DEF Read
    <3>3. Tier(incoming, c) \in Tiers \ {"source_key"}
      BY <3>1 DEF Tier, Tiers
    <3>4. Confidence(Tier(incoming, c), NameSimilarity[<<incoming.name, c.name>>]) \in 0..1000
      <4> DEFINE t == Tier(incoming, c)
                 x == NameSimilarity[<<incoming.name, c.name>>]
      <4>1. t = "exact_name" \/ t = "alias" \/ t = "fuzzy_geo" \/ t = "fuzzy_strict"
        BY <3>3 DEF Tiers
      <4>2. x \in 0..100
        BY <3>2
      <4> HIDE DEF t, x
      <4>3. Confidence(t, x) \in 0..1000
        BY <4>1, <4>2 DEF Confidence
      <4> QED
        BY <4>3 DEF t, x
    <3>5. /\ s.id = c.id /\ s.method = Tier(incoming, c)
          /\ s.confidence = Confidence(Tier(incoming, c), NameSimilarity[<<incoming.name, c.name>>])
      BY <3>1 DEF Score, Resolution
    <3>6. s.id \in Ids
      BY <3>5 DEF Read
    <3>7. s.method \notin {"new", "ambiguous"}
      BY <3>3, <3>5 DEF Tiers
    <3>8. s.confidence \in 0..1000
      BY <3>4, <3>5
    <3> QED
      BY <3>1, <3>5, <3>6, <3>7, <3>8
  <2> HIDE DEF scores
  <2>3. ASSUME NEW s \in scores, NEW t \in scores, s.id = t.id PROVE s = t
    <3>1. PICK c \in candidates : c.id = s.id /\ s = Score(c, Tier(incoming, c), NameSimilarity[<<incoming.name, c.name>>])
      BY <2>2
    <3>2. PICK d \in candidates : d.id = t.id /\ t = Score(d, Tier(incoming, d), NameSimilarity[<<incoming.name, d.name>>])
      BY <2>2
    <3>3. c = d
      BY <2>3, <3>1, <3>2
    <3> QED
      BY <3>1, <3>2, <3>3
  <2>4. CASE scores = {}
    <3>1. found.id = None /\ found.method = "new"
      BY <2>1, <2>4 DEF BestOf, Resolution
    <3>2. \A c \in candidates : Tier(incoming, c) = None
      BY <2>4 DEF scores, Scored
    <3> QED
      BY <3>1, <3>2
  <2>5. CASE scores # {}
    <3>1. Foremost(scores) \in scores
      <4>1. \A s \in scores : s.id \in Nat
        BY <2>2, EvidenceAssumption
      <4>2. \A s \in scores : s.confidence \in 0..1000
        BY <2>2
      <4> QED
        BY <2>3, <2>5, <4>1, <4>2, ForemostIs
    <3>2. \/ found = Foremost(scores)
          \/ found = Resolution(None, "ambiguous", Foremost(scores).confidence)
      BY <2>1, <2>5 DEF BestOf, Decide
    <3>3. CASE found = Foremost(scores)
      <4>1. found \in scores
        BY <3>1, <3>3
      <4>2. found.method # "new"
        BY <2>2, <4>1
      <4> QED
        BY <2>2, <4>1, <4>2
    <3>4. CASE found = Resolution(None, "ambiguous", Foremost(scores).confidence)
      BY <3>4 DEF Resolution
    <3> QED
      BY <3>2, <3>3, <3>4
  <2> QED
    BY <2>4, <2>5
<1> QED
  BY <1>1, <1>2

\* A text is about a candidate, or about none.
LEMMA MentionIs ==
  ASSUME NEW candidates, NEW named
  PROVE  ResolveMention(named, candidates) # None =>
           \E c \in candidates : /\ c.id = ResolveMention(named, candidates)
                                 /\ (c.shown \cup c.aliases) \cap named \cap Distinctive # {}
<1> SUFFICES ASSUME ResolveMention(named, candidates) # None
             PROVE  \E c \in candidates : /\ c.id = ResolveMention(named, candidates)
                                          /\ (c.shown \cup c.aliases) \cap named \cap Distinctive # {}
  OBVIOUS
<1>1. Cardinality(MentionHits(named, candidates)) = 1
  BY DEF ResolveMention
<1>2. MentionHits(named, candidates) # {}
  BY <1>1, FS_EmptySet
<1>3. PICK c \in MentionHits(named, candidates) : c.id = ResolveMention(named, candidates)
  BY <1>1, <1>2 DEF ResolveMention
<1> QED
  BY <1>3 DEF MentionHits

-----------------------------------------------------------------------------
(* What a task sees. *)

LEMMA PartialIs ==
  ASSUME NEW D, NEW S, NEW f
  PROVE  f \in Partial(D, S) <=> /\ f = [x \in DOMAIN f |-> f[x]]
                                 /\ DOMAIN f \subseteq D
                                 /\ \A x \in DOMAIN f : f[x] \in S
BY DEF Partial

LEMMA PutPartial ==
  ASSUME NEW D, NEW S, NEW f \in Partial(D, S), NEW x \in D, NEW v \in S
  PROVE  /\ Put(f, x, v) \in Partial(D, S)
         /\ DOMAIN Put(f, x, v) = DOMAIN f \cup {x}
         /\ Put(f, x, v)[x] = v
         /\ \A y \in DOMAIN f : y # x => Put(f, x, v)[y] = f[y]
BY PartialIs DEF Put

LEMMA NothingIs ==
  /\ Nothing \in Txns
  /\ DOMAIN Nothing.name = {} /\ DOMAIN Nothing.at = {} /\ Nothing.alias = {}
  /\ DOMAIN Nothing.payload = {} /\ DOMAIN Nothing.added = {} /\ DOMAIN Nothing.conflicts = {}
<1>1. ASSUME NEW D, NEW S PROVE NoRows \in Partial(D, S)
  <2>1. NoRows \in [{} -> S] /\ {} \in SUBSET D
    BY DEF NoRows
  <2> QED
    BY <2>1 DEF Partial
<1> QED
  BY <1>1 DEF Nothing, Txns, NoRows

LEMMA SeenIs ==
  ASSUME Typed, NEW t \in Txns
  PROVE  /\ Seen(t).name \in [Ids -> Names \cup {None}]
         /\ Seen(t).at \in [Ids -> Int \cup {None}]
         /\ \A i \in Ids : /\ Seen(t).name[i] = IF i \in DOMAIN t.name THEN t.name[i] ELSE name[i]
                           /\ Seen(t).at[i] = IF i \in DOMAIN t.at THEN t.at[i] ELSE at[i]
         /\ Seen(t).alias = alias \cup t.alias
         /\ Seen(t).source = [k \in Rows |->
              IF k \in DOMAIN t.added THEN t.added[k]
              ELSE IF k \in DOMAIN t.payload THEN [source[k] EXCEPT !.payload = t.payload[k]]
              ELSE source[k]]
         /\ Seen(t).conflicts \in [Keys \cup DOMAIN Raws -> 0..MaxConflicts]
<1>1. /\ t.name \in Partial(Ids, Names) /\ t.at \in Partial(Ids, Int)
      /\ t.added \in Partial(Keys, [restaurant : Ids, payload : Payloads])
      /\ t.conflicts \in Partial(Keys, 0..MaxConflicts)
  BY DEF Txns
<1>2. /\ name \in [Ids -> Names \cup {None}] /\ at \in [Ids -> Int \cup {None}]
      /\ conflicts \in [Keys \cup DOMAIN Raws -> 0..MaxConflicts]
  BY DEF Typed
<1>3. Seen(t).name = Over(t.name, name) /\ DOMAIN t.name \subseteq Ids /\ \A i \in DOMAIN t.name : t.name[i] \in Names
  BY <1>1, PartialIs DEF Seen
<1>4. Seen(t).at = Over(t.at, at) /\ DOMAIN t.at \subseteq Ids /\ \A i \in DOMAIN t.at : t.at[i] \in Int
  BY <1>1, PartialIs DEF Seen
<1>5. Seen(t).conflicts = Over(t.conflicts, conflicts) /\ DOMAIN t.conflicts \subseteq Keys
      /\ \A i \in DOMAIN t.conflicts : t.conflicts[i] \in 0..MaxConflicts
  BY <1>1, PartialIs DEF Seen
<1>6. DOMAIN t.added \subseteq Rows
  BY <1>1, PartialIs DEF Rows
<1>7. Seen(t).source = [k \in Rows |->
              IF k \in DOMAIN t.added THEN t.added[k]
              ELSE IF k \in DOMAIN t.payload THEN [source[k] EXCEPT !.payload = t.payload[k]]
              ELSE source[k]]
  BY <1>6 DEF Seen, Over
<1>8. Seen(t).name \in [Ids -> Names \cup {None}] /\ Seen(t).at \in [Ids -> Int \cup {None}]
  BY <1>2, <1>3, <1>4 DEF Over
<1>9. \A i \in Ids : /\ Seen(t).name[i] = IF i \in DOMAIN t.name THEN t.name[i] ELSE name[i]
                     /\ Seen(t).at[i] = IF i \in DOMAIN t.at THEN t.at[i] ELSE at[i]
  BY <1>2, <1>3, <1>4 DEF Over
<1>10. Seen(t).conflicts \in [Keys \cup DOMAIN Raws -> 0..MaxConflicts]
  BY <1>2, <1>5 DEF Over
<1>11. Seen(t).alias = alias \cup t.alias
  BY DEF Seen
<1> QED
  BY <1>7, <1>8, <1>9, <1>10, <1>11

LEMMA SeenNothing == Typed => Rowed(Seen(Nothing)) = {i \in Ids : name[i] # None}
<1> SUFFICES ASSUME Typed PROVE Rowed(Seen(Nothing)) = {i \in Ids : name[i] # None}
  OBVIOUS
<1> QED
  BY NothingIs, SeenIs DEF Rowed

LEMMA CandidatesAre ==
  ASSUME Typed, NEW t \in Txns, \A i \in Ids : Seen(t).name[i] # None => Seen(t).at[i] \in Int
  PROVE  /\ Candidates(Seen(t)) \in SUBSET Read
         /\ \A c \in Candidates(Seen(t)) :
              /\ c.id \in Rowed(Seen(t))
              /\ c.name = Seen(t).name[c.id] /\ c.at = Seen(t).at[c.id]
              /\ c.shown \subseteq {c.name}
              /\ \A n \in c.aliases : <<c.id, n>> \in alias \cup t.alias
              /\ \A k \in c.keys : /\ k \in Rows /\ Seen(t).source[k] # None
                                   /\ Seen(t).source[k].restaurant = c.id
         /\ \A i \in Rowed(Seen(t)) : \E c \in Candidates(Seen(t)) : c.id = i
         /\ \A c, d \in Candidates(Seen(t)) : c.id = d.id => c = d
<1> DEFINE view == Seen(t)
           For(i) == [id |-> i, name |-> view.name[i], at |-> view.at[i],
                      shown |-> IF i \in closed THEN {} ELSE {view.name[i]},
                      aliases |-> {n \in Names : <<i, n>> \in view.alias},
                      keys |-> {k \in Rows : view.source[k] # None /\ view.source[k].restaurant = i}]
<1>1. Candidates(view) = {For(i) : i \in Rowed(view)}
  BY DEF Candidates
<1>2. \A i \in Rowed(view) : i \in Ids /\ view.name[i] \in Names /\ view.at[i] \in Int
  <2>1. Seen(t).name \in [Ids -> Names \cup {None}]
    BY SeenIs
  <2> QED
    BY <2>1 DEF Rowed
<1>3. view.alias = alias \cup t.alias
  BY SeenIs
<1> HIDE DEF view
<1>4. ASSUME NEW i \in Rowed(view)
      PROVE  /\ For(i) \in Read /\ For(i).id = i
             /\ For(i).name = view.name[i] /\ For(i).at = view.at[i] /\ For(i).shown \subseteq {For(i).name}
             /\ \A n \in For(i).aliases : <<i, n>> \in alias \cup t.alias
             /\ \A k \in For(i).keys : k \in Rows /\ view.source[k] # None /\ view.source[k].restaurant = i
  BY <1>2, <1>3 DEF Read
<1> HIDE DEF For
<1> QED
  BY <1>1, <1>4 DEF view

\* Runs that neither step concerns stay as they are.
LEMMA OthersFit ==
  ASSUME NEW h, NEW run, run \in TaskRuns, Fits(h, run),
         \A i \in Ids : name[i] # None => name'[i] # None,
         \A k \in Keys : SourceOf[k] = h /\ source[k] # None => source'[k] # None
  PROVE  Fits(h, run)'
<1>1. DOMAIN run.txn.payload \subseteq Keys /\ DOMAIN run.txn.name \subseteq Ids
  BY PartialIs DEF TaskRuns, Txns
<1>2. Mine(run) \subseteq Mine(run)'
  BY DEF Mine
<1> QED
  BY <1>1, <1>2 DEF Fits

-----------------------------------------------------------------------------
(* The catalogue keeps together. *)

LEMMA InitIInv == Init => IInv
<1> SUFFICES ASSUME Init PROVE IInv
  OBVIOUS
<1>1. Typed
  <2>1. 0 \in 0..MaxConflicts
    BY EvidenceAssumption
  <2>2. source \in [Rows -> SourceRows \cup {None}] /\ \A k \in Rows : source[k] = None
    BY DEF Init
  <2>3. conflicts \in [Keys \cup DOMAIN Raws -> 0..MaxConflicts]
    BY <2>1 DEF Init
  <2>4. job \in [Jobs -> TaskRuns \cup {None}] /\ review \in [DOMAIN Raws -> Reviews \cup {None}]
    BY DEF Init
  <2> QED
    BY <2>2, <2>3, <2>4 DEF Init, Typed, Rows
<1>2. RowsFit
  BY DEF Init, RowsFit
<1>3. Running = {}
  BY DEF Init, Running
<1> QED
  BY <1>1, <1>2, <1>3 DEF IInv, Apart

\* A step of a run that leaves the catalogue alone.
LEMMA RunStep ==
  ASSUME IInv, NEW j \in Jobs, NEW run \in TaskRuns, job' = [job EXCEPT ![j] = run],
         UNCHANGED <<catalogue, review>>, begun' \in Nat,
         of' \in [Ids -> Places \cup {None}], blind' \in SUBSET Ids,
         Fits(j, run),
         \A h \in Running \ {j} : \A i \in DOMAIN run.txn.name :
           i \in DOMAIN job[h].txn.name => name[i] # None
  PROVE  IInv'
<1>0. /\ UNCHANGED <<name, at, closed, alias, source, conflicts, review>>
      /\ job \in [Jobs -> TaskRuns \cup {None}]
  BY DEF IInv, Typed, catalogue
<1>1. Typed'
  <2>1. job' \in [Jobs -> TaskRuns \cup {None}]
    BY <1>0
  <2> QED
    BY <1>0, <2>1 DEF IInv, Typed
<1>2. RowsFit'
  BY <1>0 DEF IInv, RowsFit
<1>3. job'[j] = run /\ \A h \in Jobs \ {j} : job'[h] = job[h]
  BY <1>0
<1>4. \A h \in Running' : h = j \/ h \in Running \ {j}
  BY <1>3 DEF Running
<1>5. ASSUME NEW h \in Running' PROVE Fits(h, job[h])'
  <2>1. job'[h] \in TaskRuns /\ Fits(h, job'[h])
    BY <1>0, <1>3, <1>4, <1>5 DEF IInv, Running
  <2> QED
    BY <1>0, <2>1 DEF Fits, Mine
<1>6. Apart'
  <2> SUFFICES ASSUME NEW g \in Running', NEW h \in Running', g # h,
                      NEW i \in DOMAIN job'[g].txn.name, i \in DOMAIN job'[h].txn.name
               PROVE  name[i] # None
    BY <1>0 DEF Apart
  <2>1. CASE g # j /\ h # j
    BY <1>3, <1>4, <2>1 DEF IInv, Apart
  <2>2. CASE g = j \/ h = j
    BY <1>3, <1>4, <2>2
  <2> QED
    BY <2>1, <2>2
<1> QED
  BY <1>1, <1>2, <1>5, <1>6 DEF IInv

LEMMA BeginKeeps == ASSUME IInv, NEW j \in Jobs, Begin(j) PROVE IInv'
<1> DEFINE run == [candidates |-> Candidates(Seen(Nothing)), txn |-> Nothing, pending |-> {},
                   count |-> 0, knows |-> Rowed(Seen(Nothing)),
                   todo |-> IF j = "reviews" THEN {r \in DOMAIN Raws : review[r] = None}
                            ELSE {k \in Keys : SourceOf[k] = j}]
<1>0. Typed /\ RowsFit
  BY DEF IInv
<1>1. Rowed(Seen(Nothing)) = {i \in Ids : name[i] # None}
  BY <1>0, SeenNothing
<1>2. /\ Candidates(Seen(Nothing)) \in SUBSET Read
      /\ \A c \in Candidates(Seen(Nothing)) : c.id \in Rowed(Seen(Nothing))
      /\ \A i \in Rowed(Seen(Nothing)) : \E c \in Candidates(Seen(Nothing)) : c.id = i
      /\ \A c, d \in Candidates(Seen(Nothing)) : c.id = d.id => c = d
  <2>1. \A i \in Ids : Seen(Nothing).name[i] # None => Seen(Nothing).at[i] \in Int
    BY <1>0, NothingIs, SeenIs DEF RowsFit, Typed
  <2> QED
    BY <1>0, <2>1, NothingIs, CandidatesAre
<1>3. run \in TaskRuns
  BY <1>1, <1>2, NothingIs DEF TaskRuns
<1>4. Fits(j, run)
  <2>1. \A c \in run.candidates : c.id \in Mine(run)
    BY <1>1, <1>2 DEF Mine
  <2>2. /\ \A c, d \in run.candidates : c.id = d.id => c = d
        /\ \A i \in run.knows : \E c \in run.candidates : c.id = i
        /\ run.txn = Nothing /\ run.pending = {}
        /\ IF j = "reviews" THEN run.todo \subseteq DOMAIN Raws
           ELSE \A k \in run.todo : k \in Keys /\ SourceOf[k] = j
    BY <1>2
  <2> HIDE DEF run
  <2> QED
    BY <2>1, <2>2, NothingIs DEF Fits
<1>5. /\ job' = [job EXCEPT ![j] = run] /\ begun' = begun + 1
      /\ UNCHANGED <<catalogue, review, of, blind>>
  BY DEF Begin
<1>6. DOMAIN run.txn.name = {}
  BY NothingIs
<1> HIDE DEF run
<1>7. begun' \in Nat /\ of' \in [Ids -> Places \cup {None}] /\ blind' \in SUBSET Ids
  BY <1>0, <1>5 DEF Typed
<1> QED
  BY <1>3, <1>4, <1>5, <1>6, <1>7, RunStep

\* What a sweep knows when it takes a record.
LEMMA SweepKnows ==
  ASSUME IInv, NEW j \in {"osm", "google"}, job[j] # None, NEW k \in job[j].todo
  PROVE  /\ job[j] \in TaskRuns /\ Fits(j, job[j]) /\ j \in Running /\ j \in Jobs /\ j # "reviews"
         /\ k \in Keys /\ k \in Rows /\ SourceOf[k] = j /\ k \notin DOMAIN job[j].txn.added
         /\ job[j].txn \in Txns
         /\ \A i \in Ids : i \in Mine(job[j]) <=> Seen(job[j].txn).name[i] # None
         /\ \A i \in Mine(job[j]) : Seen(job[j].txn).at[i] \in Int
<1> DEFINE run == job[j]
           txn == run.txn
<1>1. /\ j \in Jobs /\ j \in Running /\ j # "reviews"
  BY DEF Jobs, Running
<1>2. run \in TaskRuns /\ Fits(j, run) /\ Typed /\ RowsFit
  BY <1>1 DEF IInv, Typed
<1>3. txn \in Txns
  BY <1>2 DEF TaskRuns
<1>4. k \in Keys /\ SourceOf[k] = j /\ k \notin DOMAIN txn.added
  BY <1>1, <1>2 DEF Fits
<1>5. /\ DOMAIN txn.name \subseteq Ids /\ \A i \in DOMAIN txn.name : txn.name[i] \in Names
      /\ DOMAIN txn.at \subseteq Ids /\ \A i \in DOMAIN txn.at : txn.at[i] \in Int
  BY <1>3, PartialIs DEF Txns
<1>6. \A i \in Ids : /\ Seen(txn).name[i] = IF i \in DOMAIN txn.name THEN txn.name[i] ELSE name[i]
                     /\ Seen(txn).at[i] = IF i \in DOMAIN txn.at THEN txn.at[i] ELSE at[i]
  BY <1>2, <1>3, SeenIs
<1>7. None \notin Names /\ None \notin Int
  BY EvidenceAssumption
<1>8. \A i \in Ids : i \in Mine(run) <=> Seen(txn).name[i] # None
  BY <1>5, <1>6, <1>7 DEF Mine
<1>9. ASSUME NEW i \in Mine(run) PROVE Seen(txn).at[i] \in Int
  <2>1. i \in Ids /\ (name[i] # None \/ i \in DOMAIN txn.at)
    BY <1>2 DEF Mine, Fits
  <2>2. name[i] # None => at[i] \in Int
    BY <1>2, <2>1 DEF RowsFit, Typed
  <2> QED
    BY <1>5, <1>6, <2>1, <2>2
<1> QED
  BY <1>1, <1>2, <1>3, <1>4, <1>8, <1>9 DEF Rows

LEMMA ChangedIs ==
  ASSUME NEW D, NEW S, NEW f \in Partial(D, S), NEW i \in D, NEW old, NEW new \in S
  PROVE  /\ Changed(f, i, old, new) \in Partial(D, S)
         /\ \A x \in DOMAIN f : x \in DOMAIN Changed(f, i, old, new)
         /\ \A x \in DOMAIN Changed(f, i, old, new) : x \in DOMAIN f \/ x = i
         /\ \A x \in DOMAIN f : x # i => Changed(f, i, old, new)[x] = f[x]
         /\ old # new => i \in DOMAIN Changed(f, i, old, new) /\ Changed(f, i, old, new)[i] = new
         /\ old = new => Changed(f, i, old, new) = f
<1>1. CASE old = new
  BY <1>1 DEF Changed
<1>2. CASE old # new
  <2>1. Changed(f, i, old, new) = Put(f, i, new)
    BY <1>2 DEF Changed
  <2>2. /\ DOMAIN Put(f, i, new) = DOMAIN f \cup {i}
        /\ Put(f, i, new)[i] = new
        /\ \A y \in DOMAIN f : y # i => Put(f, i, new)[y] = f[y]
    BY DEF Put
  <2>3. Put(f, i, new) \in Partial(D, S)
    BY PutPartial
  <2> QED
    BY <1>2, <2>1, <2>2, <2>3
<1> QED
  BY <1>1, <1>2

\* The run after a record.
After(j, k, txn, pending, candidates, knows) ==
  [candidates |-> candidates, txn |-> txn, pending |-> pending, count |-> job[j].count + 1,
   knows |-> knows, todo |-> job[j].todo \ {k}]

LEMMA AdvanceIs ==
  ASSUME IInv, NEW j \in {"osm", "google"}, job[j] # None, NEW k \in job[j].todo,
         NEW txn \in Txns, NEW pending \in SUBSET (Ids \X Names),
         NEW candidates \in SUBSET Read, NEW knows \in SUBSET Ids,
         Advance(j, k, txn, pending, candidates, knows)
  PROVE  /\ job' = [job EXCEPT ![j] = After(j, k, txn, pending, candidates, knows)]
         /\ After(j, k, txn, pending, candidates, knows) \in TaskRuns
<1>1. j \in Jobs /\ job \in [Jobs -> TaskRuns \cup {None}] /\ job[j] \in TaskRuns
  BY DEF IInv, Typed, Jobs
<1>2. job[j].count + 1 \in Nat /\ job[j].todo \ {k} \in SUBSET (Keys \cup DOMAIN Raws)
  BY <1>1 DEF TaskRuns
<1> QED
  BY <1>1, <1>2 DEF Advance, After, TaskRuns

\* A refresh: the restaurant of a known record takes over what is new in it.
Refreshes(j, k, p, i, txn) ==
  LET run == job[j]
      next == After(j, k, txn, run.pending, run.candidates, run.knows)
  IN  /\ job' = [job EXCEPT ![j] = next] /\ next \in TaskRuns
      /\ source[k] # None /\ i = source[k].restaurant /\ i \in Ids /\ name[i] # None
      /\ txn.alias = run.txn.alias /\ txn.added = run.txn.added
      /\ \/ txn = run.txn
         \/ /\ txn.name = Changed(run.txn.name, i, Seen(run.txn).name[i], p.name)
            /\ txn.at = Changed(run.txn.at, i, Seen(run.txn).at[i], p.at)
            /\ txn.payload = Put(run.txn.payload, k, p)
      /\ UNCHANGED <<of, blind>>

LEMMA RefreshIs ==
  ASSUME IInv, NEW j \in {"osm", "google"}, job[j] # None, NEW k \in job[j].todo,
         NEW p \in Payloads, Refresh(j, k, p)
  PROVE  \E txn \in Txns : Refreshes(j, k, p, source[k].restaurant, txn)
<1> DEFINE run == job[j]
           txn == run.txn
           view == Seen(txn)
           i == view.source[k].restaurant
           updated == [txn EXCEPT !.name = Changed(@, i, view.name[i], p.name),
                                  !.at = Changed(@, i, view.at[i], p.at),
                                  !.payload = Put(@, k, p)]
           written == IF view.source[k].payload = p THEN txn ELSE updated
<1>1. /\ run \in TaskRuns /\ Fits(j, run) /\ j \in Running /\ j \in Jobs /\ j # "reviews"
      /\ k \in Keys /\ k \in Rows /\ SourceOf[k] = j /\ k \notin DOMAIN txn.added
      /\ txn \in Txns /\ Typed /\ RowsFit
  BY SweepKnows DEF IInv
<1>2. source[k] # None /\ source[k] \in SourceRows /\ i = source[k].restaurant
  <2>1. view.source[k] = IF k \in DOMAIN txn.payload THEN [source[k] EXCEPT !.payload = txn.payload[k]]
                         ELSE source[k]
    <3>1. view.source = [x \in Rows |->
              IF x \in DOMAIN txn.added THEN txn.added[x]
              ELSE IF x \in DOMAIN txn.payload THEN [source[x] EXCEPT !.payload = txn.payload[x]]
              ELSE source[x]]
      BY <1>1, SeenIs
    <3> HIDE DEF view
    <3> QED
      BY <1>1, <3>1
  <2>2. view.source[k] # None
    BY DEF Refresh
  <2>3. source[k] # None
    BY <1>1, <2>1, <2>2 DEF Fits
  <2>4. source[k] \in SourceRows
    BY <1>1, <2>3 DEF Typed
  <2> QED
    BY <2>1, <2>3, <2>4 DEF SourceRows
<1>3. i \in Ids /\ name[i] # None
  BY <1>1, <1>2 DEF RowsFit, SourceRows
<1>4. /\ txn.name \in Partial(Ids, Names) /\ txn.at \in Partial(Ids, Int)
      /\ txn.payload \in Partial(Keys, Payloads) /\ p.name \in Names /\ p.at \in Int
  BY <1>1 DEF Txns, Payloads
<1> HIDE DEF i, view
<1>5. /\ updated \in Txns
      /\ updated.name = Changed(txn.name, i, view.name[i], p.name)
      /\ updated.at = Changed(txn.at, i, view.at[i], p.at)
      /\ updated.payload = Put(txn.payload, k, p)
      /\ updated.alias = txn.alias /\ updated.added = txn.added
  <2>1. /\ Changed(txn.name, i, view.name[i], p.name) \in Partial(Ids, Names)
        /\ Changed(txn.at, i, view.at[i], p.at) \in Partial(Ids, Int)
        /\ Put(txn.payload, k, p) \in Partial(Keys, Payloads)
    <3>1. Changed(txn.name, i, view.name[i], p.name) \in Partial(Ids, Names)
      BY <1>3, <1>4, ChangedIs
    <3>2. Changed(txn.at, i, view.at[i], p.at) \in Partial(Ids, Int)
      BY <1>3, <1>4, ChangedIs
    <3>3. Put(txn.payload, k, p) \in Partial(Keys, Payloads)
      BY <1>1, <1>4, PutPartial
    <3> QED
      BY <3>1, <3>2, <3>3
  <2> QED
    BY <1>1, <2>1 DEF Txns
<1>6. /\ written \in Txns /\ written.alias = txn.alias /\ written.added = txn.added
      /\ \/ written = txn
         \/ /\ written.name = Changed(txn.name, i, view.name[i], p.name)
            /\ written.at = Changed(txn.at, i, view.at[i], p.at)
            /\ written.payload = Put(txn.payload, k, p)
  <2> HIDE DEF updated
  <2> QED
    BY <1>1, <1>5
<1>7. Advance(j, k, written, run.pending, run.candidates, run.knows) /\ UNCHANGED <<of, blind>>
  BY DEF Refresh, view, i
<1> HIDE DEF written, updated
<1>8. /\ job' = [job EXCEPT ![j] = After(j, k, written, run.pending, run.candidates, run.knows)]
      /\ After(j, k, written, run.pending, run.candidates, run.knows) \in TaskRuns
  <2>1. run.pending \in SUBSET (Ids \X Names) /\ run.candidates \in SUBSET Read /\ run.knows \in SUBSET Ids
    BY <1>1 DEF TaskRuns
  <2> QED
    BY <1>6, <1>7, <2>1, AdvanceIs
<1>9. Refreshes(j, k, p, i, written)
  BY <1>2, <1>3, <1>6, <1>7, <1>8 DEF Refreshes, view
<1> QED
  BY <1>2, <1>6, <1>9

LEMMA RefreshKeeps ==
  ASSUME IInv, NEW j \in {"osm", "google"}, job[j] # None, NEW k \in job[j].todo,
         NEW p \in Payloads, Refresh(j, k, p), UNCHANGED <<catalogue, review, begun>>
  PROVE  IInv'
<1> DEFINE run == job[j]
           txn == run.txn
           i == source[k].restaurant
<1>1. /\ run \in TaskRuns /\ Fits(j, run) /\ j \in Running /\ j \in Jobs /\ j # "reviews"
      /\ k \in Keys /\ k \in Rows /\ SourceOf[k] = j /\ k \notin DOMAIN txn.added
      /\ txn \in Txns /\ Typed /\ RowsFit
  BY SweepKnows DEF IInv
<1>2. PICK written \in Txns : Refreshes(j, k, p, i, written)
  BY RefreshIs
<1> DEFINE next == After(j, k, written, run.pending, run.candidates, run.knows)
<1>3. /\ i \in Ids /\ name[i] # None /\ source[k] # None
      /\ written.alias = txn.alias /\ written.added = txn.added
      /\ job' = [job EXCEPT ![j] = next] /\ next \in TaskRuns
      /\ UNCHANGED <<of, blind>>
  BY <1>2 DEF Refreshes
<1>4. /\ txn.name \in Partial(Ids, Names) /\ txn.at \in Partial(Ids, Int)
      /\ p.name \in Names /\ p.at \in Int
  BY <1>1 DEF Txns, Payloads
<1> HIDE DEF i
<1>6. /\ \A x \in DOMAIN txn.name : x \in DOMAIN written.name
      /\ \A x \in DOMAIN written.name : x \in DOMAIN txn.name \/ x = i
      /\ \A x \in DOMAIN txn.at : x \in DOMAIN written.at
      /\ \A x \in DOMAIN written.at : x \in DOMAIN txn.at \/ x = i
      /\ \A x \in DOMAIN written.payload : x \in DOMAIN txn.payload \/ x = k
  <2>1. CASE written = txn
    BY <2>1
  <2>2. CASE written # txn
    <3>1. /\ written.name = Changed(txn.name, i, Seen(txn).name[i], p.name)
          /\ written.at = Changed(txn.at, i, Seen(txn).at[i], p.at)
          /\ written.payload = Put(txn.payload, k, p)
      BY <1>2, <2>2 DEF Refreshes
    <3>2. /\ \A x \in DOMAIN txn.name : x \in DOMAIN written.name
          /\ \A x \in DOMAIN written.name : x \in DOMAIN txn.name \/ x = i
      BY <1>3, <1>4, <3>1, ChangedIs
    <3>3. /\ \A x \in DOMAIN txn.at : x \in DOMAIN written.at
          /\ \A x \in DOMAIN written.at : x \in DOMAIN txn.at \/ x = i
      BY <1>3, <1>4, <3>1, ChangedIs
    <3>4. DOMAIN Put(txn.payload, k, p) = DOMAIN txn.payload \cup {k}
      BY DEF Put
    <3> QED
      BY <3>1, <3>2, <3>3, <3>4
  <2> QED
    BY <2>1, <2>2
<1>9. /\ next.txn = written /\ next.pending = run.pending /\ next.candidates = run.candidates
      /\ next.knows = run.knows /\ next.todo = run.todo \ {k}
  BY DEF After
<1> HIDE DEF next
<1>10. Fits(j, next)
  <2>1. Mine(next) = Mine(run)
    BY <1>3, <1>6, <1>9 DEF Mine
  <2>2. /\ \A x \in DOMAIN written.at : x \in Mine(next)
        /\ \A x \in DOMAIN written.name : name[x] # None \/ x \in DOMAIN written.at
    BY <1>1, <1>3, <1>6, <2>1 DEF Fits, Mine
  <2>3. /\ \A x \in DOMAIN written.payload : source[x] # None /\ SourceOf[x] = j
        /\ \A x \in DOMAIN written.added : x \notin DOMAIN written.payload /\ x \notin next.todo
    BY <1>1, <1>3, <1>6, <1>9 DEF Fits
  <2> QED
    BY <1>1, <1>3, <1>6, <1>9, <2>1, <2>2, <2>3 DEF Fits
<1>11. \A h \in Running \ {j} : \A x \in DOMAIN next.txn.name :
         x \in DOMAIN job[h].txn.name => name[x] # None
  BY <1>1, <1>3, <1>6, <1>9 DEF IInv, Apart
<1> QED
  BY <1>1, <1>3, <1>10, <1>11, RunStep DEF Typed

\* A refusal: what the run will commit is the same, apart from the conflict rows.
Refuses(j, k, txn) ==
  LET run == job[j]
      next == After(j, k, txn, run.pending, run.candidates, run.knows)
  IN  /\ job' = [job EXCEPT ![j] = next] /\ next \in TaskRuns
      /\ txn.name = run.txn.name /\ txn.at = run.txn.at /\ txn.alias = run.txn.alias
      /\ txn.payload = run.txn.payload /\ txn.added = run.txn.added
      /\ UNCHANGED <<of, blind>>

LEMMA RefuseIs ==
  ASSUME IInv, NEW j \in {"osm", "google"}, job[j] # None, NEW k \in job[j].todo,
         NEW p \in Payloads, Refuse(j, k, p)
  PROVE  \E txn \in Txns : Refuses(j, k, txn)
<1> DEFINE run == job[j]
           txn == run.txn
           count == Seen(txn).conflicts[k] + 1
           written == [txn EXCEPT !.conflicts = Put(@, k, count)]
<1>1. /\ run \in TaskRuns /\ Fits(j, run) /\ j \in Running /\ j \in Jobs /\ j # "reviews"
      /\ k \in Keys /\ txn \in Txns /\ Typed
  BY SweepKnows DEF IInv
<1>2. count \in 0..MaxConflicts
  <2>1. Seen(txn).conflicts \in [Keys \cup DOMAIN Raws -> 0..MaxConflicts]
    BY <1>1, SeenIs
  <2>2. Seen(txn).conflicts[k] \in 0..MaxConflicts /\ MaxConflicts \in Nat
    BY <1>1, <2>1, EvidenceAssumption
  <2>3. Seen(txn).conflicts[k] < MaxConflicts
    BY DEF Refuse
  <2> QED
    BY <2>2, <2>3
<1> HIDE DEF count
<1>3. written \in Txns /\ written = [txn EXCEPT !.conflicts = Put(txn.conflicts, k, count)]
  <2>1. txn.conflicts \in Partial(Keys, 0..MaxConflicts)
    BY <1>1 DEF Txns
  <2>2. Put(txn.conflicts, k, count) \in Partial(Keys, 0..MaxConflicts)
    BY <1>1, <1>2, <2>1, PutPartial
  <2> QED
    BY <1>1, <2>2 DEF Txns
<1>4. /\ written.name = txn.name /\ written.at = txn.at /\ written.alias = txn.alias
      /\ written.payload = txn.payload /\ written.added = txn.added
  BY <1>1, <1>3 DEF Txns
<1>5. Advance(j, k, written, run.pending, run.candidates, run.knows) /\ UNCHANGED <<of, blind>>
  BY DEF Refuse, count
<1> HIDE DEF written
<1>6. /\ job' = [job EXCEPT ![j] = After(j, k, written, run.pending, run.candidates, run.knows)]
      /\ After(j, k, written, run.pending, run.candidates, run.knows) \in TaskRuns
  <2>1. run.pending \in SUBSET (Ids \X Names) /\ run.candidates \in SUBSET Read /\ run.knows \in SUBSET Ids
    BY <1>1 DEF TaskRuns
  <2>2. written \in Txns
    BY <1>3
  <2> QED
    BY <1>5, <2>1, <2>2, AdvanceIs
<1>7. Refuses(j, k, written)
  BY <1>4, <1>5, <1>6 DEF Refuses
<1> QED
  BY <1>3, <1>7

LEMMA RefuseKeeps ==
  ASSUME IInv, NEW j \in {"osm", "google"}, job[j] # None, NEW k \in job[j].todo,
         NEW p \in Payloads, Refuse(j, k, p), UNCHANGED <<catalogue, review, begun>>
  PROVE  IInv'
<1> DEFINE run == job[j]
           txn == run.txn
<1>1. /\ run \in TaskRuns /\ Fits(j, run) /\ j \in Running /\ j \in Jobs /\ j # "reviews"
      /\ k \in Keys /\ txn \in Txns /\ Typed
  BY SweepKnows DEF IInv
<1>2. PICK written \in Txns : Refuses(j, k, written)
  BY RefuseIs
<1> DEFINE next == After(j, k, written, run.pending, run.candidates, run.knows)
<1>4. /\ written.name = txn.name /\ written.at = txn.at /\ written.alias = txn.alias
      /\ written.payload = txn.payload /\ written.added = txn.added
      /\ job' = [job EXCEPT ![j] = next] /\ next \in TaskRuns /\ UNCHANGED <<of, blind>>
  BY <1>2 DEF Refuses
<1>7. /\ next.txn = written /\ next.pending = run.pending /\ next.candidates = run.candidates
      /\ next.knows = run.knows /\ next.todo = run.todo \ {k}
  BY DEF After
<1> HIDE DEF next
<1>8. Fits(j, next)
  <2>1. Mine(next) = Mine(run)
    BY <1>4, <1>7 DEF Mine
  <2> QED
    BY <1>1, <1>4, <1>7, <2>1 DEF Fits
<1>9. \A h \in Running \ {j} : \A x \in DOMAIN next.txn.name :
         x \in DOMAIN job[h].txn.name => name[x] # None
  BY <1>1, <1>4, <1>7 DEF IInv, Apart
<1> QED
  BY <1>1, <1>4, <1>8, <1>9, RunStep DEF Typed

\* What the resolver finds for a sweep is a restaurant the sweep can refer to.
LEMMA SweepFinds ==
  ASSUME IInv, NEW j \in {"osm", "google"}, job[j] # None, NEW k \in Keys, NEW p \in Payloads,
         Resolve(Incoming(k, p), job[j].candidates).id # None
  PROVE  Resolve(Incoming(k, p), job[j].candidates).id \in Mine(job[j])
<1>1. j \in Running /\ job[j] \in TaskRuns /\ Fits(j, job[j])
  BY DEF IInv, Typed, Running, Jobs
<1>2. job[j].candidates \in SUBSET Read /\ \A c, d \in job[j].candidates : c.id = d.id => c = d
  BY <1>1 DEF TaskRuns, Fits
<1>3. Incoming(k, p).name \in Names /\ Incoming(k, p).at \in Int \cup {None}
  BY DEF Incoming, Payloads
<1>4. \E c \in job[j].candidates : c.id = Resolve(Incoming(k, p), job[j].candidates).id
  BY <1>2, <1>3, ResolveIs
<1> QED
  BY <1>1, <1>4 DEF Fits

\* A record that a run sees no row of is not among those it has updated.
LEMMA KnownOnce ==
  ASSUME IInv, NEW j \in {"osm", "google"}, job[j] # None, NEW k \in job[j].todo,
         Seen(job[j].txn).source[k] = None
  PROVE  k \notin DOMAIN job[j].txn.payload
<1> DEFINE txn == job[j].txn
<1>1. /\ job[j] \in TaskRuns /\ Fits(j, job[j]) /\ k \in Keys /\ k \in Rows
      /\ k \notin DOMAIN txn.added /\ txn \in Txns /\ Typed
  BY SweepKnows DEF IInv
<1>2. Seen(txn).source[k] = IF k \in DOMAIN txn.payload THEN [source[k] EXCEPT !.payload = txn.payload[k]]
                            ELSE source[k]
  <2>1. Seen(txn).source = [x \in Rows |->
            IF x \in DOMAIN txn.added THEN txn.added[x]
            ELSE IF x \in DOMAIN txn.payload THEN [source[x] EXCEPT !.payload = txn.payload[x]]
            ELSE source[x]]
    BY <1>1, SeenIs
  <2> QED
    BY <1>1, <2>1
<1>3. SUFFICES ASSUME k \in DOMAIN txn.payload PROVE FALSE
  OBVIOUS
<1>4. source[k] \in SourceRows /\ txn.payload[k] \in Payloads
  <2>1. source[k] # None
    BY <1>1, <1>3 DEF Fits
  <2>2. txn.payload \in Partial(Keys, Payloads)
    BY <1>1 DEF Txns
  <2>3. txn.payload[k] \in Payloads
    BY <1>3, <2>2, PartialIs
  <2> QED
    BY <1>1, <2>1, <2>3 DEF Typed
<1>5. [source[k] EXCEPT !.payload = txn.payload[k]] \in SourceRows
  BY <1>4 DEF SourceRows
<1> QED
  BY <1>2, <1>3, <1>5, EvidenceAssumption

\* An attachment: the record becomes a row of the restaurant the resolver found, and its name
\* perhaps an alias.
Attaches(j, k, p, i, fresh, txn) ==
  LET run == job[j]
      next == After(j, k, txn, run.pending \cup fresh, run.candidates, run.knows)
  IN  /\ job' = [job EXCEPT ![j] = next] /\ next \in TaskRuns
      /\ i = Resolve(Incoming(k, p), run.candidates).id /\ i # None /\ i \in Ids /\ i \in Mine(run)
      /\ fresh \subseteq {<<i, p.name>>} /\ txn.alias = run.txn.alias \cup fresh
      /\ txn.added = Put(run.txn.added, k, [restaurant |-> i, payload |-> p])
      /\ txn.name = run.txn.name /\ txn.at = run.txn.at /\ txn.payload = run.txn.payload
      /\ UNCHANGED <<of, blind>>

LEMMA AttachIs ==
  ASSUME IInv, NEW j \in {"osm", "google"}, job[j] # None, NEW k \in job[j].todo,
         NEW p \in Payloads, Attach(j, k, p)
  PROVE  \E txn \in Txns, i \in Ids, fresh \in SUBSET (Ids \X Names) :
           Attaches(j, k, p, i, fresh, txn)
<1> DEFINE run == job[j]
           txn == run.txn
           i == Resolve(Incoming(k, p), run.candidates).id
           fresh == IF NeedsAlias(j, i, p.name) THEN {<<i, p.name>>} ELSE {}
           row == [restaurant |-> i, payload |-> p]
           written == [txn EXCEPT !.alias = @ \cup fresh, !.added = Put(@, k, row)]
<1>1. /\ run \in TaskRuns /\ Fits(j, run) /\ j \in Running /\ j \in Jobs /\ j # "reviews"
      /\ k \in Keys /\ k \in Rows /\ SourceOf[k] = j /\ k \notin DOMAIN txn.added
      /\ txn \in Txns /\ Typed
  BY SweepKnows DEF IInv
<1>2. i \in Mine(run) /\ i \in Ids
  <2>1. i # None
    BY DEF Attach
  <2> QED
    BY <1>1, <2>1, SweepFinds DEF Mine
<1>3. Advance(j, k, written, run.pending \cup fresh, run.candidates, run.knows) /\ UNCHANGED <<of, blind>>
  BY DEF Attach
<1> HIDE DEF i
<1>5. fresh \subseteq Ids \X Names /\ fresh \subseteq {<<i, p.name>>}
  BY <1>2 DEF Payloads
<1>6. row \in [restaurant : Ids, payload : Payloads] /\ row.restaurant = i
  BY <1>2
<1> HIDE DEF fresh, row
<1>7. /\ written \in Txns /\ written.alias = txn.alias \cup fresh
      /\ written.added = Put(txn.added, k, row)
      /\ written.name = txn.name /\ written.at = txn.at /\ written.payload = txn.payload
  <2>1. txn.added \in Partial(Keys, [restaurant : Ids, payload : Payloads])
    BY <1>1 DEF Txns
  <2>2. Put(txn.added, k, row) \in Partial(Keys, [restaurant : Ids, payload : Payloads])
    BY <1>1, <1>6, <2>1, PutPartial
  <2>3. txn.alias \cup fresh \in SUBSET (Ids \X Names)
    BY <1>1, <1>5 DEF Txns
  <2> QED
    BY <1>1, <2>2, <2>3 DEF Txns
<1> HIDE DEF written
<1>9. /\ job' = [job EXCEPT ![j] = After(j, k, written, run.pending \cup fresh, run.candidates, run.knows)]
      /\ After(j, k, written, run.pending \cup fresh, run.candidates, run.knows) \in TaskRuns
  <2>1. run.pending \cup fresh \in SUBSET (Ids \X Names) /\ run.candidates \in SUBSET Read /\ run.knows \in SUBSET Ids
    BY <1>1, <1>5 DEF TaskRuns
  <2> QED
    BY <1>3, <1>7, <2>1, AdvanceIs
<1>10. i = Resolve(Incoming(k, p), run.candidates).id /\ i # None
  BY DEF Attach, i
<1>11. written.added = Put(txn.added, k, [restaurant |-> i, payload |-> p])
  BY <1>7 DEF row
<1>12. Attaches(j, k, p, i, fresh, written)
  BY <1>2, <1>3, <1>5, <1>7, <1>9, <1>10, <1>11 DEF Attaches
<1> QED
  BY <1>2, <1>5, <1>7, <1>12

LEMMA AttachKeeps ==
  ASSUME IInv, NEW j \in {"osm", "google"}, job[j] # None, NEW k \in job[j].todo,
         NEW p \in Payloads, Attach(j, k, p), UNCHANGED <<catalogue, review, begun>>
  PROVE  IInv'
<1> DEFINE run == job[j]
           txn == run.txn
<1>1. /\ run \in TaskRuns /\ Fits(j, run) /\ j \in Running /\ j \in Jobs /\ j # "reviews"
      /\ k \in Keys /\ k \in Rows /\ SourceOf[k] = j /\ k \notin DOMAIN txn.added
      /\ txn \in Txns /\ Typed
  BY SweepKnows DEF IInv
<1>2. PICK written \in Txns, i \in Ids, fresh \in SUBSET (Ids \X Names) :
        Attaches(j, k, p, i, fresh, written)
  BY AttachIs
<1> DEFINE next == After(j, k, written, run.pending \cup fresh, run.candidates, run.knows)
<1>3. /\ i \in Mine(run) /\ \A a \in fresh : a[1] = i
      /\ written.alias = txn.alias \cup fresh
      /\ written.added = Put(txn.added, k, [restaurant |-> i, payload |-> p])
      /\ written.name = txn.name /\ written.at = txn.at /\ written.payload = txn.payload
      /\ job' = [job EXCEPT ![j] = next] /\ next \in TaskRuns /\ UNCHANGED <<of, blind>>
  BY <1>2 DEF Attaches
<1>4. k \notin DOMAIN txn.payload
  <2>1. Seen(txn).source[k] = None
    BY DEF Attach
  <2> QED
    BY <1>1, <2>1, KnownOnce
<1>8. /\ DOMAIN written.added = DOMAIN txn.added \cup {k} /\ written.added[k].restaurant = i
      /\ \A x \in DOMAIN txn.added : written.added[x] = txn.added[x]
  BY <1>1, <1>3 DEF Put
<1>10. /\ next.txn = written /\ next.pending = run.pending \cup fresh /\ next.candidates = run.candidates
       /\ next.knows = run.knows /\ next.todo = run.todo \ {k}
  BY DEF After
<1> HIDE DEF next
<1>11. Fits(j, next)
  <2>1. Mine(next) = Mine(run)
    BY <1>3, <1>10 DEF Mine
  <2>2. \A a \in written.alias : a[1] \in Mine(next)
    BY <1>1, <1>3, <2>1 DEF Fits
  <2>3. /\ \A x \in DOMAIN written.added : written.added[x].restaurant \in Mine(next) /\ SourceOf[x] = j
        /\ \A x \in DOMAIN written.added : x \notin DOMAIN written.payload /\ x \notin next.todo
    BY <1>1, <1>3, <1>4, <1>8, <1>10, <2>1 DEF Fits
  <2>4. next.pending \subseteq written.alias
    BY <1>1, <1>3, <1>10 DEF Fits
  <2> QED
    BY <1>1, <1>3, <1>10, <2>1, <2>2, <2>3, <2>4 DEF Fits
<1>12. \A h \in Running \ {j} : \A x \in DOMAIN next.txn.name :
         x \in DOMAIN job[h].txn.name => name[x] # None
  BY <1>1, <1>3, <1>10 DEF IInv, Apart
<1> QED
  BY <1>1, <1>3, <1>11, <1>12, RunStep DEF Typed

LEMMA NextIdIs == ASSUME Existing # Ids PROVE NextId \in Ids \ Existing
<1>1. Ids \ Existing \in SUBSET Nat /\ Ids \ Existing # {}
  BY EvidenceAssumption DEF Existing
<1>2. \E i \in Ids \ Existing : \A x \in Ids \ Existing : i <= x
  BY <1>1, LeastExists
<1> QED
  BY <1>2 DEF NextId

\* A candidate that a sweep may know of once it has made i of record k: one that it knew, or one
\* that it reads.
KnownAfter(run, k, i, p, c) ==
  \/ c \in run.candidates /\ c.id # i
  \/ /\ c.id \in Mine(run) \cup {i}
     /\ c.id = i => c.name = p.name /\ c.at = p.at
     /\ c.id # i => c.name = Seen(run.txn).name[c.id] /\ c.at = Seen(run.txn).at[c.id]
     /\ c.shown \subseteq {c.name}
     /\ \A n \in c.aliases : <<c.id, n>> \in alias \cup run.txn.alias
     /\ \A x \in c.keys : \/ x = k /\ c.id = i
                          \/ /\ x \in Rows /\ Seen(run.txn).source[x] # None
                             /\ Seen(run.txn).source[x].restaurant = c.id

\* What a sweep that makes a restaurant writes, and reads next.
Makes(j, k, p, i, txn, candidates, knows) ==
  LET run == job[j]
      next == After(j, k, txn, {}, candidates, knows)
  IN  /\ job' = [job EXCEPT ![j] = next] /\ next \in TaskRuns
      /\ txn.name = Put(run.txn.name, i, p.name) /\ txn.at = Put(run.txn.at, i, p.at)
      /\ txn.alias = run.txn.alias /\ txn.payload = run.txn.payload
      /\ txn.added = Put(run.txn.added, k, [restaurant |-> i, payload |-> p])
      /\ i \in Ids \ Existing /\ i \notin Mine(run)
      /\ Resolve(Incoming(k, p), run.candidates).method = "new"
      /\ of' = [of EXCEPT ![i] = RealPlace[k]]
      /\ blind' = IF Existing \subseteq run.knows THEN blind \ {i} ELSE blind \cup {i}
      /\ \A x \in knows : \E c \in candidates : c.id = x
      /\ \A c, d \in candidates : c.id = d.id => c = d
      /\ \A c \in candidates : KnownAfter(run, k, i, p, c)

LEMMA CreateIs ==
  ASSUME IInv, NEW j \in {"osm", "google"}, job[j] # None, NEW k \in job[j].todo,
         NEW p \in Payloads, Create(j, k, p)
  PROVE  \E txn \in Txns, candidates \in SUBSET Read, knows \in SUBSET Ids :
           Makes(j, k, p, NextId, txn, candidates, knows)
<1> DEFINE run == job[j]
           txn == run.txn
           i == NextId
           row == [restaurant |-> i, payload |-> p]
           inserted == [txn EXCEPT !.name = Put(@, i, p.name), !.at = Put(@, i, p.at)]
           created == [id |-> i, name |-> p.name, at |-> p.at, shown |-> {p.name}, aliases |-> {},
                       keys |-> {k}]
           written == [inserted EXCEPT !.added = Put(@, k, row)]
           candidates == AfterCreation(j, run.candidates, created, inserted)
           knows == run.knows \cup {i} \cup IF j = "osm" THEN Rowed(Seen(txn)) ELSE {}
           next == After(j, k, written, {}, candidates, knows)
<1>1. /\ run \in TaskRuns /\ Fits(j, run) /\ j \in Running /\ j \in Jobs /\ j # "reviews"
      /\ k \in Keys /\ k \in Rows /\ SourceOf[k] = j /\ k \notin DOMAIN txn.added
      /\ txn \in Txns /\ Typed
      /\ \A x \in Ids : x \in Mine(run) <=> Seen(txn).name[x] # None
      /\ \A x \in Mine(run) : Seen(txn).at[x] \in Int
  BY SweepKnows DEF IInv
<1>2. /\ Advance(j, k, written, {}, candidates, knows)
      /\ Resolve(Incoming(k, p), run.candidates).method = "new"
      /\ Existing # Ids
      /\ of' = [of EXCEPT ![i] = RealPlace[k]]
      /\ blind' = IF Existing \subseteq run.knows THEN blind \ {i} ELSE blind \cup {i}
  BY DEF Create
<1>3. i \in Ids \ Existing
  BY <1>2, NextIdIs
<1> HIDE DEF i
<1>4. i \notin Mine(run) /\ i \in Ids /\ Mine(run) \subseteq Ids
  BY <1>1, <1>3 DEF Existing, Mine
<1>5. row \in [restaurant : Ids, payload : Payloads] /\ p.name \in Names /\ p.at \in Int
  BY <1>4 DEF Payloads
<1> HIDE DEF row
<1>6. /\ inserted \in Txns /\ inserted.name = Put(txn.name, i, p.name) /\ inserted.at = Put(txn.at, i, p.at)
      /\ inserted.alias = txn.alias /\ inserted.payload = txn.payload /\ inserted.added = txn.added
  <2>1. txn.name \in Partial(Ids, Names) /\ txn.at \in Partial(Ids, Int)
    BY <1>1 DEF Txns
  <2>2. Put(txn.name, i, p.name) \in Partial(Ids, Names)
    BY <1>4, <1>5, <2>1, PutPartial
  <2>3. Put(txn.at, i, p.at) \in Partial(Ids, Int)
    BY <1>4, <1>5, <2>1, PutPartial
  <2> QED
    BY <1>1, <2>2, <2>3 DEF Txns
<1> HIDE DEF inserted
<1>7. /\ written \in Txns /\ written.added = Put(txn.added, k, row)
      /\ written.name = Put(txn.name, i, p.name) /\ written.at = Put(txn.at, i, p.at)
      /\ written.alias = txn.alias /\ written.payload = txn.payload
  <2>1. txn.added \in Partial(Keys, [restaurant : Ids, payload : Payloads])
    BY <1>1 DEF Txns
  <2>2. Put(txn.added, k, row) \in Partial(Keys, [restaurant : Ids, payload : Payloads])
    BY <1>1, <1>5, <2>1, PutPartial
  <2>3. written = [inserted EXCEPT !.added = Put(txn.added, k, row)]
    BY <1>6
  <2> QED
    BY <1>6, <2>2, <2>3 DEF Txns
<1> HIDE DEF written
<1>8. Rowed(Seen(txn)) = Mine(run)
  BY <1>1, <1>4 DEF Rowed
<1>9. /\ Seen(inserted).source = Seen(txn).source /\ Seen(inserted).alias = alias \cup txn.alias
      /\ \A x \in Ids : x # i => /\ Seen(inserted).name[x] = Seen(txn).name[x]
                                 /\ Seen(inserted).at[x] = Seen(txn).at[x]
      /\ Seen(inserted).name[i] = p.name /\ Seen(inserted).at[i] = p.at
  <2>1. Seen(inserted).source = Seen(txn).source
    BY <1>6 DEF Seen
  <2>2. Seen(inserted).alias = alias \cup txn.alias
    BY <1>6 DEF Seen
  <2>3. \A x \in Ids : /\ Seen(inserted).name[x] = IF x \in DOMAIN inserted.name THEN inserted.name[x] ELSE name[x]
                       /\ Seen(inserted).at[x] = IF x \in DOMAIN inserted.at THEN inserted.at[x] ELSE at[x]
    BY <1>1, <1>6, SeenIs
  <2>4. \A x \in Ids : /\ Seen(txn).name[x] = IF x \in DOMAIN txn.name THEN txn.name[x] ELSE name[x]
                       /\ Seen(txn).at[x] = IF x \in DOMAIN txn.at THEN txn.at[x] ELSE at[x]
    BY <1>1, SeenIs
  <2>5. /\ DOMAIN inserted.name = DOMAIN txn.name \cup {i} /\ inserted.name[i] = p.name
        /\ \A x \in DOMAIN txn.name : x # i => inserted.name[x] = txn.name[x]
        /\ DOMAIN inserted.at = DOMAIN txn.at \cup {i} /\ inserted.at[i] = p.at
        /\ \A x \in DOMAIN txn.at : x # i => inserted.at[x] = txn.at[x]
    BY <1>6 DEF Put
  <2> QED
    BY <1>4, <2>1, <2>2, <2>3, <2>4, <2>5
<1>10. Rowed(Seen(inserted)) = Mine(run) \cup {i}
  <2>1. p.name # None
    BY <1>5, EvidenceAssumption
  <2> QED
    BY <1>1, <1>4, <1>9, <2>1 DEF Rowed
<1>11. /\ candidates \in SUBSET Read
       /\ \A x \in knows : \E c \in candidates : c.id = x
       /\ \A c, d \in candidates : c.id = d.id => c = d
       /\ \A c \in candidates : KnownAfter(run, k, i, p, c)
  <2>1. CASE j = "osm"
    <3>1. candidates = Candidates(Seen(inserted)) /\ knows \subseteq Mine(run) \cup {i}
      <4>1. run.knows \subseteq Mine(run)
        BY <1>1 DEF Fits
      <4> QED
        BY <1>8, <2>1, <4>1 DEF AfterCreation
    <3>2. \A x \in Ids : Seen(inserted).name[x] # None => Seen(inserted).at[x] \in Int
      BY <1>1, <1>5, <1>9
    <3>3. /\ Candidates(Seen(inserted)) \in SUBSET Read
          /\ \A c \in Candidates(Seen(inserted)) :
               /\ c.id \in Rowed(Seen(inserted))
               /\ c.name = Seen(inserted).name[c.id] /\ c.at = Seen(inserted).at[c.id]
               /\ c.shown \subseteq {c.name}
               /\ \A n \in c.aliases : <<c.id, n>> \in alias \cup inserted.alias
               /\ \A x \in c.keys : /\ x \in Rows /\ Seen(inserted).source[x] # None
                                    /\ Seen(inserted).source[x].restaurant = c.id
          /\ \A x \in Rowed(Seen(inserted)) : \E c \in Candidates(Seen(inserted)) : c.id = x
          /\ \A c, d \in Candidates(Seen(inserted)) : c.id = d.id => c = d
      BY <1>1, <1>6, <3>2, CandidatesAre
    <3> HIDE DEF candidates, knows
    <3>4. \A x \in knows : \E c \in candidates : c.id = x
      BY <1>10, <3>1, <3>3
    <3>5. ASSUME NEW c \in candidates PROVE KnownAfter(run, k, i, p, c)
      <4>1. /\ c.id \in Mine(run) \cup {i}
            /\ c.id = i => c.name = p.name /\ c.at = p.at
            /\ c.id # i => c.name = Seen(txn).name[c.id] /\ c.at = Seen(txn).at[c.id]
            /\ c.shown \subseteq {c.name}
            /\ \A n \in c.aliases : <<c.id, n>> \in alias \cup txn.alias
            /\ \A x \in c.keys : /\ x \in Rows /\ Seen(txn).source[x] # None
                                 /\ Seen(txn).source[x].restaurant = c.id
        BY <1>4, <1>6, <1>9, <1>10, <3>1, <3>3
      <4> QED
        BY <4>1 DEF KnownAfter
    <3> QED
      BY <3>1, <3>3, <3>4, <3>5
  <2>2. CASE j # "osm"
    <3>1. candidates = run.candidates \cup {created} /\ knows = run.knows \cup {i}
      BY <2>2 DEF AfterCreation
    <3>2. /\ created \in Read /\ created.id = i /\ created.name = p.name /\ created.at = p.at
          /\ created.shown = {p.name} /\ created.aliases = {} /\ created.keys = {k}
      BY <1>1, <1>4, <1>5 DEF Read
    <3> HIDE DEF candidates, knows, created
    <3>3. /\ run.candidates \in SUBSET Read /\ \A c \in run.candidates : c.id # i
          /\ \A c, d \in run.candidates : c.id = d.id => c = d
          /\ \A x \in run.knows : \E c \in run.candidates : c.id = x
      BY <1>1, <1>4 DEF TaskRuns, Fits
    <3>4. KnownAfter(run, k, i, p, created) /\ \A c \in run.candidates : KnownAfter(run, k, i, p, c)
      BY <3>2, <3>3 DEF KnownAfter
    <3> QED
      BY <3>1, <3>2, <3>3, <3>4
  <2> QED
    BY <2>1, <2>2
<1>12. knows \in SUBSET Ids
  <2>1. run.knows \in SUBSET Ids
    BY <1>1 DEF TaskRuns
  <2> QED
    BY <1>4, <1>8, <2>1
<1> HIDE DEF candidates, knows
<1>13. job' = [job EXCEPT ![j] = next] /\ next \in TaskRuns
  <2>1. {} \in SUBSET (Ids \X Names) /\ written \in Txns /\ candidates \in SUBSET Read /\ knows \in SUBSET Ids
    BY <1>7, <1>11, <1>12
  <2> QED
    BY <1>2, <2>1, AdvanceIs
<1> QED
  <2>1. written \in Txns /\ candidates \in SUBSET Read /\ knows \in SUBSET Ids
    BY <1>7, <1>11, <1>12
  <2>2. written.added = Put(txn.added, k, [restaurant |-> i, payload |-> p])
    BY <1>7 DEF row
  <2>3. Makes(j, k, p, i, written, candidates, knows)
    BY <1>2, <1>3, <1>4, <1>7, <1>11, <1>13, <2>2 DEF Makes
  <2> QED
    BY <2>1, <2>3 DEF i

LEMMA CreateKeeps ==
  ASSUME IInv, NEW j \in {"osm", "google"}, job[j] # None, NEW k \in job[j].todo,
         NEW p \in Payloads, Create(j, k, p), UNCHANGED <<catalogue, review, begun>>
  PROVE  IInv'
<1> DEFINE run == job[j]
           i == NextId
<1>1. /\ run \in TaskRuns /\ Fits(j, run) /\ j \in Running /\ j \in Jobs /\ j # "reviews"
      /\ k \in Keys /\ k \in Rows /\ SourceOf[k] = j /\ k \notin DOMAIN run.txn.added
      /\ run.txn \in Txns /\ Typed
  BY SweepKnows DEF IInv
<1>2. PICK txn \in Txns, candidates \in SUBSET Read, knows \in SUBSET Ids :
        Makes(j, k, p, i, txn, candidates, knows)
  BY CreateIs
<1> DEFINE next == After(j, k, txn, {}, candidates, knows)
<1> HIDE DEF i
<1>3. /\ job' = [job EXCEPT ![j] = next] /\ next \in TaskRuns
      /\ i \in Ids \ Existing /\ i \notin Mine(run)
      /\ of' = [of EXCEPT ![i] = RealPlace[k]]
      /\ blind' = IF Existing \subseteq run.knows THEN blind \ {i} ELSE blind \cup {i}
  BY <1>2 DEF Makes
<1>4. /\ DOMAIN txn.name = DOMAIN run.txn.name \cup {i} /\ DOMAIN txn.at = DOMAIN run.txn.at \cup {i}
      /\ txn.alias = run.txn.alias /\ txn.payload = run.txn.payload
      /\ DOMAIN txn.added = DOMAIN run.txn.added \cup {k} /\ txn.added[k].restaurant = i
      /\ \A x \in DOMAIN run.txn.added : txn.added[x] = run.txn.added[x]
  <2>1. /\ txn.name = Put(run.txn.name, i, p.name) /\ txn.at = Put(run.txn.at, i, p.at)
        /\ txn.alias = run.txn.alias /\ txn.payload = run.txn.payload
        /\ txn.added = Put(run.txn.added, k, [restaurant |-> i, payload |-> p])
    BY <1>2 DEF Makes
  <2> QED
    BY <1>1, <2>1 DEF Put
<1>5. /\ \A x \in knows : \E c \in candidates : c.id = x
      /\ \A c, d \in candidates : c.id = d.id => c = d
      /\ \A c \in candidates : c.id \in Mine(run) \cup {i}
  <2>1. /\ \A x \in knows : \E c \in candidates : c.id = x
        /\ \A c, d \in candidates : c.id = d.id => c = d
        /\ \A c \in candidates : KnownAfter(run, k, i, p, c)
    BY <1>2 DEF Makes
  <2> QED
    BY <1>1, <2>1 DEF KnownAfter, Fits
<1>6. /\ next.txn = txn /\ next.pending = {} /\ next.candidates = candidates
      /\ next.knows = knows /\ next.todo = run.todo \ {k}
  BY DEF After
<1> HIDE DEF next
<1>7. k \notin DOMAIN run.txn.payload
  <2>1. Seen(run.txn).source[k] = None
    BY DEF Create
  <2> QED
    BY <1>1, <2>1, KnownOnce
<1>8. Fits(j, next)
  <2>1. Mine(next) = Mine(run) \cup {i}
    BY <1>3, <1>4, <1>6 DEF Mine
  <2>2. /\ \A x \in DOMAIN txn.at : x \in Mine(next)
        /\ \A x \in DOMAIN txn.name : name[x] # None \/ x \in DOMAIN txn.at
    BY <1>1, <1>4, <2>1 DEF Fits
  <2>3. \A a \in txn.alias : a[1] \in Mine(next)
    BY <1>1, <1>4, <2>1 DEF Fits
  <2>4. /\ \A x \in DOMAIN txn.added : txn.added[x].restaurant \in Mine(next) /\ SourceOf[x] = j
        /\ \A x \in DOMAIN txn.added : x \notin DOMAIN txn.payload /\ x \notin next.todo
    BY <1>1, <1>4, <1>6, <1>7, <2>1 DEF Fits
  <2>5. \A x \in DOMAIN txn.payload : source[x] # None /\ SourceOf[x] = j
    BY <1>1, <1>4 DEF Fits
  <2>6. \A x \in next.todo : x \in Keys /\ SourceOf[x] = j
    BY <1>1, <1>6 DEF Fits
  <2> QED
    BY <1>1, <1>5, <1>6, <2>1, <2>2, <2>3, <2>4, <2>5, <2>6 DEF Fits
<1>9. \A h \in Running \ {j} : \A x \in DOMAIN next.txn.name :
         x \in DOMAIN job[h].txn.name => name[x] # None
  <2> TAKE h \in Running \ {j}
  <2> TAKE x \in DOMAIN next.txn.name
  <2>1. CASE x = i
    BY <1>3, <2>1 DEF Existing
  <2>2. CASE x \in DOMAIN run.txn.name
    BY <1>1, <2>2 DEF IInv, Apart
  <2> QED
    BY <1>4, <1>6, <2>1, <2>2
<1>10. of' \in [Ids -> Places \cup {None}] /\ blind' \in SUBSET Ids /\ begun' \in Nat
  <2>1. RealPlace[k] \in Places
    BY <1>1, EvidenceAssumption
  <2> QED
    BY <1>1, <1>3, <2>1 DEF Typed
<1> QED
  BY <1>1, <1>3, <1>8, <1>9, <1>10, RunStep

\* What a run would commit is a catalogue, and no smaller.
LEMMA ViewIs ==
  ASSUME IInv, NEW j \in Running
  PROVE  LET run == job[j]
             view == Seen(run.txn)
         IN  /\ view.name \in [Ids -> Names \cup {None}] /\ view.at \in [Ids -> Int \cup {None}]
             /\ view.alias \in SUBSET (Ids \X Names)
             /\ view.source \in [Rows -> SourceRows \cup {None}]
             /\ \A k \in Keys : view.source[k] # None => view.source[k].payload \in Payloads
             /\ view.conflicts \in [Keys \cup DOMAIN Raws -> 0..MaxConflicts]
             /\ \A i \in Ids : /\ i \in Mine(run) <=> view.name[i] # None
                               /\ view.name[i] = None <=> view.at[i] = None
             /\ \A a \in view.alias : a[1] \in Mine(run)
             /\ \A k \in Rows : /\ source[k] # None => view.source[k] # None
                                /\ view.source[k] # None => view.source[k].restaurant \in Mine(run)
<1> DEFINE run == job[j]
           txn == run.txn
           view == Seen(txn)
<1>1. run \in TaskRuns /\ txn \in Txns /\ Fits(j, run) /\ Typed /\ RowsFit
  <2>1. run \in TaskRuns /\ Fits(j, run) /\ Typed /\ RowsFit
    BY DEF IInv, Typed, Running
  <2> QED
    BY <2>1 DEF TaskRuns
<1>2. /\ txn.name \in Partial(Ids, Names) /\ txn.at \in Partial(Ids, Int)
      /\ txn.payload \in Partial(Keys, Payloads)
      /\ txn.added \in Partial(Keys, [restaurant : Ids, payload : Payloads])
  BY <1>1 DEF Txns
<1>3. /\ DOMAIN txn.name \subseteq Ids /\ \A i \in DOMAIN txn.name : txn.name[i] \in Names
      /\ DOMAIN txn.at \subseteq Ids /\ \A i \in DOMAIN txn.at : txn.at[i] \in Int
      /\ DOMAIN txn.payload \subseteq Keys /\ \A k \in DOMAIN txn.payload : txn.payload[k] \in Payloads
  <2>1. DOMAIN txn.name \subseteq Ids /\ \A i \in DOMAIN txn.name : txn.name[i] \in Names
    BY <1>2, PartialIs
  <2>2. DOMAIN txn.at \subseteq Ids /\ \A i \in DOMAIN txn.at : txn.at[i] \in Int
    BY <1>2, PartialIs
  <2>3. DOMAIN txn.payload \subseteq Keys /\ \A k \in DOMAIN txn.payload : txn.payload[k] \in Payloads
    BY <1>2, PartialIs
  <2> QED
    BY <2>1, <2>2, <2>3
<1>4. /\ DOMAIN txn.added \subseteq Keys
      /\ \A k \in DOMAIN txn.added : txn.added[k] \in [restaurant : Ids, payload : Payloads]
  <2> DEFINE S == [restaurant : Ids, payload : Payloads]
  <2>1. txn.added \in Partial(Keys, S)
    BY <1>2
  <2> HIDE DEF S
  <2>2. DOMAIN txn.added \subseteq Keys /\ \A k \in DOMAIN txn.added : txn.added[k] \in S
    BY <2>1, PartialIs
  <2> QED
    BY <2>2 DEF S
<1>5. /\ view.name \in [Ids -> Names \cup {None}] /\ view.at \in [Ids -> Int \cup {None}]
      /\ view.alias = alias \cup txn.alias
      /\ view.conflicts \in [Keys \cup DOMAIN Raws -> 0..MaxConflicts]
      /\ \A i \in Ids : /\ view.name[i] = IF i \in DOMAIN txn.name THEN txn.name[i] ELSE name[i]
                        /\ view.at[i] = IF i \in DOMAIN txn.at THEN txn.at[i] ELSE at[i]
  BY <1>1, SeenIs
<1>6. view.source = [k \in Rows |->
              IF k \in DOMAIN txn.added THEN txn.added[k]
              ELSE IF k \in DOMAIN txn.payload THEN [source[k] EXCEPT !.payload = txn.payload[k]]
              ELSE source[k]]
  BY <1>1, SeenIs
<1>7. None \notin Names /\ None \notin Int /\ None \notin SourceRows
  BY EvidenceAssumption
<1> HIDE DEF view
<1>8. \A i \in Ids : i \in Mine(run) <=> view.name[i] # None
  BY <1>3, <1>5, <1>7 DEF Mine
<1>9. ASSUME NEW i \in Ids PROVE view.name[i] = None <=> view.at[i] = None
  <2>1. name[i] = None <=> at[i] = None
    BY <1>1 DEF RowsFit
  <2>2. i \in DOMAIN txn.at => i \in Mine(run)
    BY <1>1 DEF Fits
  <2>3. i \in DOMAIN txn.name => name[i] # None \/ i \in DOMAIN txn.at
    BY <1>1 DEF Fits
  <2> QED
    BY <1>3, <1>5, <1>7, <1>8, <2>1, <2>2, <2>3 DEF Mine
<1>10. view.alias \in SUBSET (Ids \X Names) /\ \A a \in view.alias : a[1] \in Mine(run)
  <2>1. \A a \in alias : a \in Ids \X Names /\ name[a[1]] # None
    BY <1>1 DEF Typed, RowsFit
  <2>2. \A a \in txn.alias : a \in Ids \X Names /\ a[1] \in Mine(run)
    BY <1>1 DEF Txns, Fits
  <2> QED
    BY <1>5, <2>1, <2>2 DEF Mine
<1>11. ASSUME NEW k \in Rows
       PROVE  /\ view.source[k] \in SourceRows \cup {None}
              /\ k \in Keys /\ view.source[k] # None => view.source[k].payload \in Payloads
              /\ source[k] # None => view.source[k] # None
              /\ view.source[k] # None => view.source[k].restaurant \in Mine(run)
  <2>1. CASE k \in DOMAIN txn.added
    <3>1. view.source[k] = txn.added[k]
      BY <1>6, <2>1
    <3>2. txn.added[k].restaurant \in Mine(run)
      BY <1>1, <2>1 DEF Fits
    <3> QED
      BY <1>4, <1>7, <2>1, <3>1, <3>2 DEF SourceRows
  <2>2. CASE k \notin DOMAIN txn.added /\ k \in DOMAIN txn.payload
    <3>1. view.source[k] = [source[k] EXCEPT !.payload = txn.payload[k]]
      BY <1>6, <2>2
    <3>2. source[k] # None
      BY <1>1, <2>2 DEF Fits
    <3>3. source[k] \in SourceRows
      BY <1>1, <3>2 DEF Typed
    <3>4. name[source[k].restaurant] # None
      BY <1>1, <3>2 DEF RowsFit
    <3>5. view.source[k] \in SourceRows /\ view.source[k].payload = txn.payload[k]
          /\ view.source[k].restaurant = source[k].restaurant
      BY <1>3, <2>2, <3>1, <3>3 DEF SourceRows
    <3> QED
      BY <1>3, <1>7, <2>2, <3>4, <3>5 DEF SourceRows, Mine
  <2>3. CASE k \notin DOMAIN txn.added /\ k \notin DOMAIN txn.payload
    <3>1. view.source[k] = source[k]
      BY <1>6, <2>3
    <3> QED
      BY <1>1, <3>1 DEF Typed, RowsFit, Mine, SourceRows
  <2> QED
    BY <2>1, <2>2, <2>3
<1>12. view.source \in [Rows -> SourceRows \cup {None}]
  BY <1>6, <1>11
<1>13. \A k \in Keys : k \in Rows
  BY DEF Rows
<1> QED
  BY <1>5, <1>8, <1>9, <1>10, <1>11, <1>12, <1>13 DEF view

\* A step that leaves the runs it does not end, and takes no row from the catalogue.
LEMMA CatalogueStep ==
  ASSUME IInv, Typed', RowsFit',
         \A i \in Ids : name[i] # None => name'[i] # None,
         \A k \in Keys : source[k] # None => source'[k] # None,
         \A h \in Running' : \/ h \in Running /\ job'[h] = job[h]
                             \/ Fits(h, job[h])' /\ DOMAIN job'[h].txn.name = {}
  PROVE  IInv'
<1>1. ASSUME NEW h \in Running' PROVE Fits(h, job[h])'
  <2>1. CASE h \in Running /\ job'[h] = job[h]
    <3>1. job[h] \in TaskRuns /\ Fits(h, job[h])
      BY <2>1 DEF IInv, Typed, Running
    <3> DEFINE run == job[h]
    <3>2. Fits(h, run) /\ run \in TaskRuns /\ job'[h] = run
      BY <2>1, <3>1
    <3>3. ASSUME NEW r \in TaskRuns, Fits(h, r), job'[h] = r PROVE Fits(h, job[h])'
      <4>1. Fits(h, r)'
        BY <3>3, OthersFit
      <4> QED
        BY <3>3, <4>1 DEF Fits, Mine
    <3> QED
      BY <3>2, <3>3
  <2> QED
    BY <2>1
<1>2. Apart'
  <2> SUFFICES ASSUME NEW g \in Running', NEW h \in Running', g # h,
                      NEW i \in DOMAIN job'[g].txn.name, i \in DOMAIN job'[h].txn.name
               PROVE  name'[i] # None
    BY DEF Apart
  <2>1. g \in Running /\ job'[g] = job[g] /\ h \in Running /\ job'[h] = job[h]
    OBVIOUS
  <2>2. name[i] # None
    BY <2>1 DEF IInv, Apart
  <2>3. i \in Ids
    <3>1. job[g].txn.name \in Partial(Ids, Names)
      BY <2>1 DEF IInv, Typed, Running, TaskRuns, Txns
    <3> QED
      BY <2>1, <3>1, PartialIs
  <2> QED
    BY <2>2, <2>3
<1> QED
  BY <1>1, <1>2 DEF IInv

LEMMA CommitKeeps == ASSUME IInv, NEW j \in Jobs, Commit(j) PROVE IInv'
<1> DEFINE run == job[j]
           view == Seen(run.txn)
           next == [run EXCEPT !.txn = Nothing, !.pending = {}, !.count = 0]
<1>1. j \in Running /\ run \in TaskRuns /\ Fits(j, run) /\ Typed /\ RowsFit
  BY DEF Commit, IInv, Typed, Running
<1>2. /\ name' = view.name /\ at' = view.at /\ alias' = view.alias
      /\ source' = view.source /\ conflicts' = view.conflicts
      /\ UNCHANGED <<closed, review, begun, of, blind>>
      /\ job' = [job EXCEPT ![j] = IF run.todo = {} THEN None ELSE next]
  BY DEF Commit
<1>3. /\ view.name \in [Ids -> Names \cup {None}] /\ view.at \in [Ids -> Int \cup {None}]
      /\ view.alias \in SUBSET (Ids \X Names)
      /\ view.source \in [Rows -> SourceRows \cup {None}]
      /\ \A k \in Keys : view.source[k] # None => view.source[k].payload \in Payloads
      /\ view.conflicts \in [Keys \cup DOMAIN Raws -> 0..MaxConflicts]
      /\ \A i \in Ids : /\ i \in Mine(run) <=> view.name[i] # None
                        /\ view.name[i] = None <=> view.at[i] = None
      /\ \A a \in view.alias : a[1] \in Mine(run)
      /\ \A k \in Rows : /\ source[k] # None => view.source[k] # None
                         /\ view.source[k] # None => view.source[k].restaurant \in Mine(run)
  BY <1>1, ViewIs
<1> HIDE DEF view
<1>4. next \in TaskRuns /\ next.candidates = run.candidates /\ next.knows = run.knows
      /\ next.txn = Nothing /\ next.pending = {} /\ next.todo = run.todo
  BY <1>1, NothingIs DEF TaskRuns
<1> HIDE DEF next
<1>5. \A i \in Ids : name[i] # None => name'[i] # None
  BY <1>2, <1>3 DEF Mine
<1>6. Typed'
  <2>1. job' \in [Jobs -> TaskRuns \cup {None}]
    BY <1>1, <1>2, <1>4 DEF Typed
  <2>2. /\ closed' \in SUBSET Ids /\ review' \in [DOMAIN Raws -> Reviews \cup {None}]
        /\ begun' \in Nat /\ of' \in [Ids -> Places \cup {None}] /\ blind' \in SUBSET Ids
    BY <1>1, <1>2 DEF Typed
  <2>3. /\ name' \in [Ids -> Names \cup {None}] /\ at' \in [Ids -> Int \cup {None}]
        /\ alias' \in SUBSET (Ids \X Names) /\ source' \in [Rows -> SourceRows \cup {None}]
        /\ \A k \in Keys : source'[k] # None => source'[k].payload \in Payloads
        /\ conflicts' \in [Keys \cup DOMAIN Raws -> 0..MaxConflicts]
    BY <1>2, <1>3
  <2> QED
    BY <2>1, <2>2, <2>3 DEF Typed
<1>7. Mine(run) \subseteq Ids /\ \A i \in Mine(run) : name'[i] # None
  BY <1>2, <1>3 DEF Mine
<1>8. RowsFit'
  <2>1. \A i \in Ids : name'[i] = None <=> at'[i] = None
    BY <1>2, <1>3
  <2>2. \A i \in closed' : name'[i] # None
    BY <1>1, <1>2, <1>5 DEF RowsFit, Typed
  <2>3. \A a \in alias' : name'[a[1]] # None
    BY <1>2, <1>3, <1>7
  <2>4. \A k \in Rows : source'[k] # None => name'[source'[k].restaurant] # None
    BY <1>2, <1>3, <1>7
  <2>5. \A r \in DOMAIN Raws : review'[r] # None => name'[review'[r].restaurant] # None
    BY <1>1, <1>2, <1>5 DEF RowsFit, Typed, Reviews
  <2> QED
    BY <2>1, <2>2, <2>3, <2>4, <2>5 DEF RowsFit
<1>9. ASSUME NEW h \in Running'
      PROVE  \/ h \in Running /\ job'[h] = job[h]
             \/ Fits(h, job[h])' /\ DOMAIN job'[h].txn.name = {}
  <2>1. CASE h # j
    BY <1>1, <1>2, <2>1 DEF Running, Typed
  <2>2. CASE h = j
    <3>1. job'[j] = next
      BY <1>1, <1>2, <2>2 DEF Running, Typed
    <3>2. \A c \in next.candidates : c.id \in Ids /\ name'[c.id] # None
      BY <1>1, <1>4, <1>7 DEF Fits
    <3>3. Fits(j, job[j])'
      BY <1>1, <1>4, <3>1, <3>2, NothingIs DEF Fits, Mine
    <3> QED
      BY <1>4, <2>2, <3>1, <3>3, NothingIs
  <2> QED
    BY <2>1, <2>2
<1>10. \A k \in Keys : source[k] # None => source'[k] # None
  BY <1>2, <1>3 DEF Rows
<1> QED
  BY <1>5, <1>6, <1>8, <1>9, <1>10, CatalogueStep

LEMMA AbortKeeps == ASSUME IInv, NEW j \in Jobs, Abort(j) PROVE IInv'
<1>1. /\ job' = [job EXCEPT ![j] = None]
      /\ UNCHANGED <<name, at, closed, alias, source, conflicts, review, begun, of, blind>>
      /\ Typed /\ RowsFit
  BY DEF Abort, catalogue, IInv
<1>2. Typed'
  <2>1. job' \in [Jobs -> TaskRuns \cup {None}]
    BY <1>1 DEF Typed
  <2> QED
    BY <1>1, <2>1 DEF Typed
<1>3. RowsFit'
  BY <1>1 DEF RowsFit
<1>4. \A h \in Running' : h \in Running /\ job'[h] = job[h]
  BY <1>1 DEF Running, Typed
<1> QED
  BY <1>1, <1>2, <1>3, <1>4, CatalogueStep

\* What a text is stored for.
LEMMA TargetIs ==
  ASSUME IInv, NEW j \in Running, NEW r \in DOMAIN Raws,
         Target(r, job[j].candidates).id # None
  PROVE  Target(r, job[j].candidates).id \in Mine(job[j])
<1> DEFINE run == job[j]
           raw == Raws[r]
           incoming == [name |-> raw.hint, at |-> raw.at, key |-> None]
           hinted == IF raw.hint = None THEN Resolution(None, "new", 0)
                     ELSE Resolve(incoming, run.candidates)
           target == Target(r, run.candidates)
<1>1. run \in TaskRuns /\ Fits(j, run)
  BY DEF IInv, Typed, Running
<1>2. run.candidates \in SUBSET Read /\ \A c, d \in run.candidates : c.id = d.id => c = d
  BY <1>1 DEF TaskRuns, Fits
<1>3. target.id = hinted.id \/ target.id = ResolveMention(raw.named, run.candidates)
  BY DEF Target
<1>4. hinted.id # None => \E c \in run.candidates : c.id = hinted.id
  <2>1. CASE raw.hint = None
    BY <2>1 DEF Resolution
  <2>2. CASE raw.hint # None
    <3>1. incoming.name \in Names /\ incoming.at \in Int \cup {None} /\ hinted = Resolve(incoming, run.candidates)
      BY <2>2, EvidenceAssumption
    <3> HIDE DEF hinted, incoming
    <3> QED
      BY <1>2, <3>1, ResolveIs
  <2> QED
    BY <2>1, <2>2
<1>5. ResolveMention(raw.named, run.candidates) # None =>
        \E c \in run.candidates : c.id = ResolveMention(raw.named, run.candidates)
  BY MentionIs
<1> HIDE DEF hinted, target
<1>6. \E c \in run.candidates : c.id = target.id
  BY <1>3, <1>4, <1>5 DEF target
<1>7. target.id \in Mine(run)
  BY <1>1, <1>6 DEF Fits
<1> QED
  BY <1>7 DEF target

LEMMA StoreKeeps == ASSUME IInv, NEW r \in DOMAIN Raws, Store(r) PROVE IInv'
<1> DEFINE run == job["reviews"]
           target == Target(r, run.candidates)
           next == [run EXCEPT !.todo = @ \ {r}]
<1>1. "reviews" \in Running /\ run \in TaskRuns /\ Fits("reviews", run) /\ Typed /\ RowsFit
  BY DEF Store, IInv, Typed, Running, Jobs
<1>2. /\ r \in run.todo
      /\ target.refused => conflicts[r] < MaxConflicts
      /\ job' = [job EXCEPT !["reviews"].todo = @ \ {r}]
      /\ review' = IF target.id = None \/ review[r] # None THEN review
                   ELSE [review EXCEPT ![r] = [restaurant |-> target.id, duplicate |-> FALSE,
                                               done |-> FALSE]]
      /\ alias' = IF target.learns THEN alias \cup {<<target.id, Raws[r].hint>>} ELSE alias
      /\ conflicts' = IF target.refused THEN [conflicts EXCEPT ![r] = @ + 1] ELSE conflicts
      /\ UNCHANGED <<name, at, closed, source, begun, of, blind>>
  BY DEF Store
<1>3. target.id # None => target.id \in Ids /\ name[target.id] # None
  <2>1. Mine(run) = {i \in Ids : name[i] # None}
    BY <1>1, NothingIs DEF Fits, Mine
  <2> QED
    BY <1>1, <2>1, TargetIs
<1>4. target.learns => target.id # None /\ Raws[r].hint \in Names
  <2> DEFINE hinted == IF Raws[r].hint = None THEN Resolution(None, "new", 0)
                       ELSE Resolve([name |-> Raws[r].hint, at |-> Raws[r].at, key |-> None], run.candidates)
             accepted == hinted.id # None /\ hinted.confidence >= 900
  <2>1. /\ target.learns => accepted
        /\ accepted => target.id = hinted.id
    BY DEF Target
  <2>2. accepted => hinted.id # None
    OBVIOUS
  <2>3. hinted.id # None => Raws[r].hint # None
    BY DEF Resolution
  <2> HIDE DEF hinted, accepted
  <2>4. target.learns => target.id # None /\ Raws[r].hint # None
    BY <2>1, <2>2, <2>3
  <2> QED
    BY <2>4, EvidenceAssumption
<1> HIDE DEF target
<1>5. job' = [job EXCEPT !["reviews"] = next] /\ next \in TaskRuns
  <2>1. job' = [job EXCEPT !["reviews"] = next]
    BY <1>2
  <2>2. run.todo \ {r} \in SUBSET (Keys \cup DOMAIN Raws)
    BY <1>1 DEF TaskRuns
  <2>3. next = [run EXCEPT !.todo = run.todo \ {r}]
    OBVIOUS
  <2> QED
    BY <1>1, <2>1, <2>2, <2>3 DEF TaskRuns
<1>6. /\ next.txn = run.txn /\ next.pending = run.pending /\ next.candidates = run.candidates
      /\ next.knows = run.knows /\ next.todo = run.todo \ {r}
  BY <1>1 DEF TaskRuns
<1> HIDE DEF next
<1>7. Typed'
  <2>1. job' \in [Jobs -> TaskRuns \cup {None}]
    BY <1>1, <1>5 DEF Typed
  <2>2. review' \in [DOMAIN Raws -> Reviews \cup {None}]
    <3>1. target.id # None => [restaurant |-> target.id, duplicate |-> FALSE, done |-> FALSE] \in Reviews
      BY <1>3 DEF Reviews
    <3> QED
      BY <1>1, <1>2, <3>1 DEF Typed
  <2>3. alias' \in SUBSET (Ids \X Names)
    BY <1>1, <1>2, <1>3, <1>4 DEF Typed
  <2>4. conflicts' \in [Keys \cup DOMAIN Raws -> 0..MaxConflicts]
    <3>1. conflicts[r] \in 0..MaxConflicts /\ conflicts \in [Keys \cup DOMAIN Raws -> 0..MaxConflicts]
          /\ MaxConflicts \in Nat
      BY <1>1, EvidenceAssumption DEF Typed
    <3>2. target.refused => conflicts[r] + 1 \in 0..MaxConflicts
      BY <1>2, <3>1
    <3> QED
      BY <1>2, <3>1, <3>2
  <2> QED
    BY <1>1, <1>2, <2>1, <2>2, <2>3, <2>4 DEF Typed
<1>8. RowsFit'
  <2>1. \A a \in alias' : name[a[1]] # None
    BY <1>1, <1>2, <1>3, <1>4 DEF RowsFit
  <2>2. \A x \in DOMAIN Raws : review'[x] # None => name[review'[x].restaurant] # None
    <3> TAKE x \in DOMAIN Raws
    <3>1. CASE review'[x] = review[x]
      BY <1>1, <3>1 DEF RowsFit
    <3>2. CASE review'[x] # review[x]
      <4>1. target.id # None
            /\ review'[x] = [restaurant |-> target.id, duplicate |-> FALSE, done |-> FALSE]
        BY <1>1, <1>2, <3>2 DEF Typed
      <4> QED
        BY <1>3, <4>1
    <3> QED
      BY <3>1, <3>2
  <2> QED
    BY <1>1, <1>2, <2>1, <2>2 DEF RowsFit
<1>9. Fits("reviews", job["reviews"])' /\ DOMAIN job'["reviews"].txn.name = {}
  <2>1. job'["reviews"] = next
    BY <1>1, <1>5 DEF Typed, Running
  <2>2. Mine(next) = Mine(run)
    BY <1>6 DEF Mine
  <2>3. Fits("reviews", next)
    BY <1>1, <1>6, <2>2 DEF Fits
  <2> QED
    BY <1>1, <1>2, <1>6, <2>1, <2>3, NothingIs DEF Fits, Mine
<1>10. \A h \in Running' : \/ h \in Running /\ job'[h] = job[h]
                           \/ Fits(h, job[h])' /\ DOMAIN job'[h].txn.name = {}
  BY <1>1, <1>5, <1>9 DEF Running, Typed
<1> QED
  BY <1>2, <1>7, <1>8, <1>10, CatalogueStep

LEMMA ProcessKeeps == ASSUME IInv, NEW r \in DOMAIN Raws, Process(r) PROVE IInv'
<1>1. /\ review[r] # None
      /\ review' = [review EXCEPT ![r].done = TRUE, ![r].duplicate = NearDuplicates(r) # {}]
      /\ UNCHANGED <<name, at, closed, alias, source, conflicts, job, begun, of, blind>>
      /\ Typed /\ RowsFit
  BY DEF Process, catalogue, IInv
<1>2. review[r] \in Reviews
  BY <1>1 DEF Typed
<1>3. /\ review' \in [DOMAIN Raws -> Reviews \cup {None}]
      /\ \A x \in DOMAIN Raws : /\ review'[x] # None => review[x] # None
                                /\ review[x] # None => review'[x].restaurant = review[x].restaurant
  BY <1>1, <1>2 DEF Typed, Reviews
<1>4. Typed'
  BY <1>1, <1>3 DEF Typed
<1>5. RowsFit'
  BY <1>1, <1>3 DEF RowsFit
<1>6. \A h \in Running' : h \in Running /\ job'[h] = job[h]
  BY <1>1 DEF Running
<1> QED
  BY <1>1, <1>4, <1>5, <1>6, CatalogueStep

LEMMA MergeKeeps ==
  ASSUME IInv, NEW target \in Ids, NEW duplicate \in Ids, Merge(target, duplicate)
  PROVE  IInv'
<1>1. /\ name[target] # None /\ name[duplicate] # None
      /\ alias' = alias \cup {<<target, name[duplicate]>>}
      /\ closed' = closed \cup {duplicate}
      /\ source' = [k \in Rows |-> IF source[k] # None /\ source[k].restaurant = duplicate
                                   THEN [source[k] EXCEPT !.restaurant = target] ELSE source[k]]
      /\ review' = [r \in DOMAIN Raws |->
                      IF review[r] # None /\ review[r].restaurant = duplicate
                      THEN [review[r] EXCEPT !.restaurant = target] ELSE review[r]]
      /\ UNCHANGED <<name, at, conflicts, job, begun, of, blind>>
  BY DEF Merge
<1>2. Typed /\ RowsFit
  BY DEF IInv
<1>3. ASSUME NEW k \in Rows
      PROVE  /\ source'[k] \in SourceRows \cup {None}
             /\ source'[k] # None <=> source[k] # None
             /\ source[k] # None => /\ source'[k].payload = source[k].payload
                                    /\ source'[k].restaurant \in {source[k].restaurant, target}
  <2>1. CASE source[k] # None /\ source[k].restaurant = duplicate
    <3>1. source'[k] = [source[k] EXCEPT !.restaurant = target] /\ source[k] \in SourceRows
      BY <1>1, <1>2, <2>1 DEF Typed
    <3>2. source'[k] \in SourceRows /\ source'[k].payload = source[k].payload
          /\ source'[k].restaurant = target
      BY <3>1 DEF SourceRows
    <3> QED
      BY <2>1, <3>2, EvidenceAssumption
  <2>2. CASE ~(source[k] # None /\ source[k].restaurant = duplicate)
    BY <1>1, <1>2, <2>2 DEF Typed
  <2> QED
    BY <2>1, <2>2
<1>4. ASSUME NEW r \in DOMAIN Raws
      PROVE  /\ review'[r] \in Reviews \cup {None}
             /\ review'[r] # None => \/ review[r] # None /\ review'[r].restaurant = review[r].restaurant
                                     \/ review'[r].restaurant = target
  <2>1. CASE review[r] # None /\ review[r].restaurant = duplicate
    <3>1. review'[r] = [review[r] EXCEPT !.restaurant = target] /\ review[r] \in Reviews
      BY <1>1, <1>2, <2>1 DEF Typed
    <3> QED
      BY <3>1 DEF Reviews
  <2>2. CASE ~(review[r] # None /\ review[r].restaurant = duplicate)
    BY <1>1, <1>2, <2>2 DEF Typed
  <2> QED
    BY <2>1, <2>2
<1>5. Typed'
  <2>1. alias' \in SUBSET (Ids \X Names) /\ closed' \in SUBSET Ids
    BY <1>1, <1>2 DEF Typed
  <2>2. source' \in [Rows -> SourceRows \cup {None}] /\ \A k \in Keys : source'[k] # None => source'[k].payload \in Payloads
    BY <1>1, <1>2, <1>3 DEF Typed, Rows
  <2>3. review' \in [DOMAIN Raws -> Reviews \cup {None}]
    BY <1>1, <1>4
  <2> QED
    BY <1>1, <1>2, <2>1, <2>2, <2>3 DEF Typed
<1>6. RowsFit'
  <2>1. \A k \in Rows : source'[k] # None => name[source'[k].restaurant] # None
    BY <1>1, <1>2, <1>3 DEF RowsFit
  <2>2. \A r \in DOMAIN Raws : review'[r] # None => name[review'[r].restaurant] # None
    BY <1>1, <1>2, <1>4 DEF RowsFit
  <2> QED
    BY <1>1, <1>2, <2>1, <2>2 DEF RowsFit
<1>7. \A h \in Running' : h \in Running /\ job'[h] = job[h]
  BY <1>1 DEF Running
<1>8. \A k \in Keys : source[k] # None => source'[k] # None
  BY <1>3 DEF Rows
<1> QED
  BY <1>1, <1>5, <1>6, <1>7, <1>8, CatalogueStep

LEMMA ResolveConflictKeeps ==
  ASSUME IInv, NEW x \in Keys \cup DOMAIN Raws, ResolveConflict(x)
  PROVE  IInv'
<1>1. /\ conflicts[x] > 0 /\ conflicts' = [conflicts EXCEPT ![x] = @ - 1]
      /\ UNCHANGED <<name, at, closed, alias, source, review, job, begun, of, blind>>
      /\ Typed /\ RowsFit
  BY DEF ResolveConflict, IInv
<1>2. conflicts' \in [Keys \cup DOMAIN Raws -> 0..MaxConflicts]
  <2>1. conflicts[x] \in 0..MaxConflicts /\ conflicts \in [Keys \cup DOMAIN Raws -> 0..MaxConflicts]
        /\ MaxConflicts \in Nat
    BY <1>1, EvidenceAssumption DEF Typed
  <2>2. conflicts[x] - 1 \in 0..MaxConflicts
    BY <1>1, <2>1
  <2> QED
    BY <1>1, <2>1, <2>2
<1>3. Typed'
  BY <1>1, <1>2 DEF Typed
<1>4. RowsFit'
  BY <1>1 DEF RowsFit
<1>5. \A h \in Running' : h \in Running /\ job'[h] = job[h]
  BY <1>1 DEF Running
<1> QED
  BY <1>1, <1>3, <1>4, <1>5, CatalogueStep

\* A Wikidata item is matched by its name alone, with the names of the restaurants.
Label(e) == [name |-> Entities[e].label, at |-> None, key |-> None]
Bare == {[c EXCEPT !.aliases = {}, !.keys = {}] : c \in Candidates(Seen(Nothing))}
Match(e) == Resolve(Label(e), Bare).id

LEMMA BareAre ==
  ASSUME Typed, RowsFit
  PROVE  /\ Bare \in SUBSET Read /\ \A c, d \in Bare : c.id = d.id => c = d
         /\ \A d \in Bare : /\ d.id \in Ids /\ name[d.id] # None /\ d.name = name[d.id]
                            /\ d.at = at[d.id] /\ d.aliases = {}
<1> DEFINE all == Candidates(Seen(Nothing))
           bare == Bare
<1>1. \A i \in Ids : /\ Seen(Nothing).name[i] = name[i] /\ Seen(Nothing).at[i] = at[i]
                     /\ name[i] # None => at[i] \in Int
  <2>1. \A i \in Ids : Seen(Nothing).name[i] = name[i] /\ Seen(Nothing).at[i] = at[i]
    BY NothingIs, SeenIs
  <2> QED
    BY <2>1 DEF Typed, RowsFit
<1>2. /\ all \in SUBSET Read
      /\ \A c \in all : c.id \in Rowed(Seen(Nothing)) /\ c.name = Seen(Nothing).name[c.id]
                        /\ c.at = Seen(Nothing).at[c.id]
      /\ \A c, d \in all : c.id = d.id => c = d
  BY <1>1, NothingIs, CandidatesAre
<1> HIDE DEF all
<1>3. ASSUME NEW d \in bare
      PROVE  \E c \in all : d = [c EXCEPT !.aliases = {}, !.keys = {}] /\ d.id = c.id /\ d \in Read
                            /\ d.name = c.name /\ d.at = c.at /\ d.aliases = {} /\ d.keys = {}
  <2>1. PICK c \in all : d = [c EXCEPT !.aliases = {}, !.keys = {}]
    BY <1>3 DEF all, Bare
  <2>2. c \in Read
    BY <1>2
  <2> QED
    BY <2>1, <2>2 DEF Read
<1>4. bare \in SUBSET Read /\ \A c, d \in bare : c.id = d.id => c = d
  <2>1. bare \in SUBSET Read
    BY <1>3
  <2>2. ASSUME NEW d \in bare, NEW f \in bare, d.id = f.id PROVE d = f
    <3>1. PICK c \in all : d = [c EXCEPT !.aliases = {}, !.keys = {}] /\ d.id = c.id
      BY <1>3
    <3>2. PICK b \in all : f = [b EXCEPT !.aliases = {}, !.keys = {}] /\ f.id = b.id
      BY <1>3
    <3>3. b = c
      BY <1>2, <2>2, <3>1, <3>2
    <3> QED
      BY <3>1, <3>2, <3>3
  <2> QED
    BY <2>1, <2>2
<1>5. ASSUME NEW d \in bare
      PROVE  /\ d.id \in Ids /\ name[d.id] # None /\ d.name = name[d.id]
             /\ d.at = at[d.id] /\ d.aliases = {}
  <2>1. PICK c \in all : d.id = c.id /\ d.name = c.name /\ d.at = c.at /\ d.aliases = {}
    BY <1>3
  <2>2. c.id \in Ids /\ name[c.id] # None
    BY <1>1, <1>2 DEF Rowed
  <2>3. c.name = name[c.id] /\ c.at = at[c.id]
    BY <1>1, <1>2, <2>2
  <2> QED
    BY <2>1, <2>2, <2>3
<1> QED
  BY <1>4, <1>5

LEMMA MatchIs ==
  ASSUME Typed, RowsFit, NEW e \in DOMAIN Entities, Match(e) # None
  PROVE  /\ Match(e) \in Ids /\ name[Match(e)] # None
         /\ \E d \in Bare : /\ d.id = Match(e) /\ d.name = name[Match(e)]
                           /\ d.at = at[Match(e)] /\ d.aliases = {} /\ Tier(Label(e), d) # None
<1> DEFINE label == Label(e)
           bare == Bare
           found == Match(e)
<1>4. bare \in SUBSET Read /\ \A c, d \in bare : c.id = d.id => c = d
  BY BareAre
<1>5. label.name \in Names /\ label.at \in Int \cup {None} /\ label.key = None
  BY EvidenceAssumption DEF Label
<1>6. PICK d \in bare : d.id = found /\ Tier(label, d) # None
  <2> DEFINE result == Resolve(label, bare)
  <2>1. result = Resolve(label, bare) /\ found = result.id
    BY DEF Match
  <2> HIDE DEF result
  <2>2. result.id # None => \E d \in bare : /\ d.id = result.id
                                          /\ \/ Tier(label, d) # None
                                             \/ label.key # None /\ label.key \in d.keys
    BY ONLY <1>4, <1>5, <2>1, ResolveIs
  <2> QED
    BY <1>5, <2>1, <2>2
<1>7. /\ d.id \in Ids /\ name[d.id] # None /\ d.name = name[d.id]
      /\ d.at = at[d.id] /\ d.aliases = {}
  BY BareAre
<1> QED
  BY <1>6, <1>7

LEMMA EnrichKeeps ==
  ASSUME IInv, NEW e \in DOMAIN Entities, Enrich(e)
  PROVE  IInv'
<1> DEFINE found == Match(e)
<1>1. /\ found # None
      /\ source' = [source EXCEPT ![e] = [restaurant |-> found, payload |-> None]]
      /\ alias' = alias \cup {<<found, n>> : n \in (Entities[e].names \cap Distinctive)
                                                     \ {name[found]}}
      /\ UNCHANGED <<name, at, closed, conflicts, review, job, begun, of, blind>>
      /\ Typed /\ RowsFit
  BY DEF Enrich, IInv, Match, Bare, Label
<1>2. found \in Ids /\ name[found] # None
  BY <1>1, MatchIs
<1>3. /\ source' \in [Rows -> SourceRows \cup {None}] /\ source'[e] # None
      /\ source'[e].restaurant = found
      /\ \A k \in Rows \ {e} : source'[k] = source[k]
      /\ \A k \in Keys : source'[k] = source[k]
  <2>1. [restaurant |-> found, payload |-> None] \in SourceRows /\ e \in Rows /\ e \notin Keys
    BY <1>2, EvidenceAssumption DEF SourceRows, Rows
  <2>2. None \notin SourceRows /\ source \in [Rows -> SourceRows \cup {None}]
    BY <1>1, EvidenceAssumption DEF Typed
  <2> HIDE DEF found
  <2> QED
    BY <1>1, <2>1, <2>2 DEF Rows
<1>4. alias' \in SUBSET (Ids \X Names) /\ \A a \in alias' : a \in alias \/ a[1] = found
  <2>1. Entities[e].names \subseteq Names
    BY EvidenceAssumption
  <2> HIDE DEF found
  <2> QED
    BY <1>1, <1>2, <2>1 DEF Typed
<1> HIDE DEF found
<1>5. Typed'
  BY <1>1, <1>3, <1>4 DEF Typed
<1>6. RowsFit'
  BY <1>1, <1>2, <1>3, <1>4 DEF RowsFit
<1>7. \A h \in Running' : h \in Running /\ job'[h] = job[h]
  BY <1>1 DEF Running
<1>8. \A k \in Keys : source[k] # None => source'[k] # None
  BY <1>3 DEF Rows
<1> QED
  BY <1>1, <1>5, <1>6, <1>7, <1>8, CatalogueStep

LEMMA StepIInv == IInv /\ [Next]_vars => IInv'
<1> SUFFICES ASSUME IInv, [Next]_vars PROVE IInv'
  OBVIOUS
<1>1. CASE UNCHANGED vars
  BY <1>1 DEF vars, catalogue, IInv, Typed, RowsFit, Running, Fits, Mine, Apart
<1>2. ASSUME NEW j \in Jobs, Begin(j) \/ Commit(j) \/ Abort(j) PROVE IInv'
  BY <1>2, BeginKeeps, CommitKeeps, AbortKeeps
<1>3. ASSUME NEW j \in {"osm", "google"}, NEW k \in Keys, NEW p \in Versions[k], Upsert(j, k, p)
      PROVE  IInv'
  <2>1. p \in Payloads /\ job[j] # None /\ k \in job[j].todo
    BY <1>3, EvidenceAssumption DEF Upsert
  <2>2. /\ UNCHANGED <<catalogue, review, begun>>
        /\ Refresh(j, k, p) \/ Refuse(j, k, p) \/ Attach(j, k, p) \/ Create(j, k, p)
    BY <1>3 DEF Upsert
  <2> QED
    BY <2>1, <2>2, RefreshKeeps, RefuseKeeps, AttachKeeps, CreateKeeps
<1>4. ASSUME NEW r \in DOMAIN Raws, Store(r) \/ Process(r) PROVE IInv'
  BY <1>4, StoreKeeps, ProcessKeeps
<1>5. ASSUME NEW target \in Ids, NEW duplicate \in Ids, Merge(target, duplicate) PROVE IInv'
  BY <1>5, MergeKeeps
<1>6. ASSUME NEW x \in Keys \cup DOMAIN Raws, ResolveConflict(x) PROVE IInv'
  BY <1>6, ResolveConflictKeeps
<1>7. ASSUME NEW e \in DOMAIN Entities, Enrich(e) PROVE IInv'
  BY <1>7, EnrichKeeps
<1> QED
  BY <1>1, <1>2, <1>3, <1>4, <1>5, <1>6, <1>7 DEF Next

LEMMA TypeFollows == IInv => TypeOK
<1> SUFFICES ASSUME IInv PROVE TypeOK
  OBVIOUS
<1>1. Typed /\ RowsFit /\ Rowed(Seen(Nothing)) = {i \in Ids : name[i] # None}
  BY SeenNothing DEF IInv
<1>2. /\ closed \subseteq Rowed(Seen(Nothing)) /\ alias \subseteq Rowed(Seen(Nothing)) \X Names
  BY <1>1 DEF Typed, RowsFit
<1>3. \A k \in Rows : source[k] # None => source[k].restaurant \in Rowed(Seen(Nothing))
  BY <1>1 DEF Typed, RowsFit, SourceRows
<1>4. \A r \in DOMAIN Raws : review[r] # None => review[r].restaurant \in Rowed(Seen(Nothing))
  BY <1>1 DEF Typed, RowsFit, Reviews
<1>5. \A j \in Running : job[j].pending \subseteq job[j].txn.alias
  BY DEF IInv, Fits
<1> QED
  BY <1>1, <1>2, <1>3, <1>4, <1>5 DEF Typed, RowsFit, TypeOK

\* The catalogue keeps together (upsert_place, store_review, merge_restaurants,
\* enrich_city_sync): an alias, a source row or a review never refers to a restaurant that was
\* not committed, whichever chunk is rolled back and whatever overlaps.
THEOREM TypeCorrect == Spec => []TypeOK
<1>1. Spec => []IInv
  BY InitIInv, StepIInv, PTL DEF Spec
<1> QED
  BY <1>1, TypeFollows, PTL

-----------------------------------------------------------------------------
(* A name that a record gives. *)

LEMMA RunIs ==
  ASSUME IInv, NEW h \in Running
  PROVE  /\ job[h] \in TaskRuns /\ Fits(h, job[h]) /\ job[h].txn \in Txns
         /\ DOMAIN job[h].txn.name \subseteq Ids
         /\ DOMAIN job[h].txn.payload \subseteq Keys /\ DOMAIN job[h].txn.added \subseteq Keys
<1>1. job[h] \in TaskRuns /\ Fits(h, job[h])
  BY DEF IInv, Typed, Running
<1>2. job[h].txn \in Txns
  BY <1>1 DEF TaskRuns
<1>3. DOMAIN job[h].txn.name \subseteq Ids
  BY <1>2, PartialIs DEF Txns
<1>4. DOMAIN job[h].txn.payload \subseteq Keys
  BY <1>2, PartialIs DEF Txns
<1>5. DOMAIN job[h].txn.added \subseteq Keys
  BY <1>2, PartialIs DEF Txns
<1> QED
  BY <1>1, <1>2, <1>3, <1>4, <1>5

\* A step that writes no name and no payload.
LEMMA SourcedSame ==
  ASSUME IInv, Sourced, IInv',
         \A i \in closed : i \in closed', UNCHANGED name,
         \A k \in Keys : /\ source'[k] = None <=> source[k] = None
                         /\ source[k] # None => source'[k].payload = source[k].payload
                         /\ \A i \in Ids \ closed' : BelongsTo(k, i) => BelongsTo(k, i)',
         \A h \in Running' :
           \/ /\ h \in Running
              /\ job'[h].txn.name = job[h].txn.name
              /\ job'[h].txn.payload = job[h].txn.payload
              /\ job'[h].txn.added = job[h].txn.added
           \/ /\ DOMAIN job'[h].txn.name = {} /\ DOMAIN job'[h].txn.payload = {}
              /\ DOMAIN job'[h].txn.added = {}
  PROVE  Sourced'
<1> DEFINE Same(h) == /\ h \in Running
                      /\ job'[h].txn.name = job[h].txn.name
                      /\ job'[h].txn.payload = job[h].txn.payload
                      /\ job'[h].txn.added = job[h].txn.added
           Empty(h) == /\ DOMAIN job'[h].txn.name = {} /\ DOMAIN job'[h].txn.payload = {}
                       /\ DOMAIN job'[h].txn.added = {}
<1>1. \A h \in Running' : Same(h) \/ Empty(h)
  OBVIOUS
<1>2. ASSUME NEW h \in Running', NEW k \in DOMAIN job'[h].txn.added PROVE source'[k] = None
  <2>1. Same(h)
    BY <1>1, <1>2
  <2>2. k \in Keys /\ source[k] = None
    BY <2>1, RunIs DEF Sourced
  <2> QED
    BY <2>2
<1>3. ASSUME NEW i \in Ids \ closed', name'[i] # None, NEW S \in SUBSET (Quiet(i)')
      PROVE  \E k \in Keys : BelongsTo(k, i)' /\ (Says(S, k)').name = name'[i]
  <2> DEFINE S0 == {h \in S : Same(h)}
  <2>1. S \subseteq Running' /\ \A h \in S : i \notin DOMAIN job'[h].txn.name
    BY DEF Quiet
  <2>2. S0 \in SUBSET Quiet(i)
    BY <2>1 DEF Quiet
  <2>3. PICK k \in Keys : BelongsTo(k, i) /\ Says(S0, k).name = name[i]
    BY <1>3, <2>2 DEF Sourced, StaysSourced
  <2>4. BelongsTo(k, i)' /\ source[k] # None /\ source'[k].payload = source[k].payload
    BY <1>3, <2>3 DEF BelongsTo
  <2>5. Says(S, k)' = Says(S0, k)
    <3> DEFINE h == SourceOf[k]
    <3>1. CASE h \in S /\ Same(h)
      BY <2>4, <3>1 DEF Says
    <3>2. CASE h \in S /\ ~Same(h)
      <4>1. Empty(h)
        BY <1>1, <2>1, <3>2
      <4> QED
        BY <2>4, <3>2, <4>1 DEF Says
    <3>3. CASE h \notin S
      BY <2>4, <3>3 DEF Says
    <3> QED
      BY <3>1, <3>2, <3>3
  <2> QED
    BY <2>3, <2>4, <2>5
<1>4. ASSUME NEW i \in Ids \ closed', NEW h \in Running', i \in DOMAIN job'[h].txn.name
      PROVE  BringsSource(h, i)'
  <2>1. Same(h)
    BY <1>1, <1>4
  <2>2. BringsSource(h, i)
    BY <1>4, <2>1 DEF Sourced
  <2>3. PICK k \in Keys :
          /\ SourceOf[k] = h
          /\ \/ /\ k \in DOMAIN job[h].txn.added
                /\ job[h].txn.added[k].restaurant = i
                /\ job[h].txn.added[k].payload.name = job[h].txn.name[i]
             \/ BelongsTo(k, i) /\ Says({h}, k).name = job[h].txn.name[i]
    BY <2>2 DEF BringsSource
  <2>4. CASE k \in DOMAIN job[h].txn.added /\ job[h].txn.added[k].restaurant = i
             /\ job[h].txn.added[k].payload.name = job[h].txn.name[i]
    BY <2>1, <2>3, <2>4 DEF BringsSource
  <2>5. CASE BelongsTo(k, i) /\ Says({h}, k).name = job[h].txn.name[i]
    <3>1. BelongsTo(k, i)' /\ source[k] # None /\ source'[k].payload = source[k].payload
      BY <1>4, <2>5 DEF BelongsTo
    <3>2. Says({h}, k)' = Says({h}, k)
      BY <2>1, <2>3, <3>1 DEF Says
    <3> QED
      BY <2>1, <2>3, <2>5, <3>1, <3>2 DEF BringsSource
  <2> QED
    BY <2>3, <2>4, <2>5
<1> QED
  BY <1>2, <1>3, <1>4 DEF Sourced, StaysSourced

\* A run adds a row, perhaps with its restaurant.
LEMMA SourcedAdds ==
  ASSUME IInv, Sourced, IInv', UNCHANGED <<name, closed, source>>,
         NEW j \in Running, NEW k \in Keys, SourceOf[k] = j, source[k] = None,
         k \notin DOMAIN job[j].txn.added, NEW row,
         \A h \in Running' : h \in Running /\ (h # j => job'[h] = job[h]),
         job'[j].txn.added = Put(job[j].txn.added, k, row),
         job'[j].txn.payload = job[j].txn.payload,
         \/ job'[j].txn.name = job[j].txn.name
         \/ /\ row.restaurant \notin Existing
            /\ job'[j].txn.name = Put(job[j].txn.name, row.restaurant, row.payload.name)
  PROVE  Sourced'
<1>1. /\ DOMAIN job'[j].txn.added = DOMAIN job[j].txn.added \cup {k} /\ job'[j].txn.added[k] = row
      /\ \A x \in DOMAIN job[j].txn.added : job'[j].txn.added[x] = job[j].txn.added[x]
  BY DEF Put
<1>2. ASSUME NEW i \in DOMAIN job[j].txn.name
      PROVE  i \in DOMAIN job'[j].txn.name /\ job'[j].txn.name[i] = job[j].txn.name[i]
  <2>1. i \in Existing
    BY <1>2, RunIs DEF Existing
  <2> QED
    BY <1>2, <2>1 DEF Put
<1>3. ASSUME NEW i \in DOMAIN job'[j].txn.name
      PROVE  \/ i \in DOMAIN job[j].txn.name
             \/ i = row.restaurant /\ job'[j].txn.name[i] = row.payload.name
  BY <1>3 DEF Put
<1>4. ASSUME NEW S \in SUBSET Running', NEW x PROVE Says(S, x)' = Says(S, x)
  <2>1. SourceOf[x] \in S => job'[SourceOf[x]].txn.payload = job[SourceOf[x]].txn.payload
    BY <1>4
  <2> QED
    BY <2>1 DEF Says
<1>5. ASSUME NEW h \in Running', NEW x \in DOMAIN job'[h].txn.added PROVE source'[x] = None
  <2>1. CASE h = j
    BY <1>1, <1>5, <2>1 DEF Sourced
  <2>2. CASE h # j
    BY <1>5, <2>2 DEF Sourced
  <2> QED
    BY <2>1, <2>2
<1>6. ASSUME NEW i \in Ids \ closed', name'[i] # None, NEW S \in SUBSET (Quiet(i)')
      PROVE  \E x \in Keys : BelongsTo(x, i)' /\ (Says(S, x)').name = name'[i]
  <2>1. S \in SUBSET Running' /\ \A h \in S : i \notin DOMAIN job'[h].txn.name
    BY DEF Quiet
  <2>2. S \in SUBSET Quiet(i)
    BY <1>2, <2>1 DEF Quiet
  <2>3. PICK x \in Keys : BelongsTo(x, i) /\ Says(S, x).name = name[i]
    BY <1>6, <2>2 DEF Sourced, StaysSourced
  <2>4. Says(S, x)' = Says(S, x)
    BY <1>4, <2>1
  <2> QED
    BY <2>3, <2>4 DEF BelongsTo
<1>7. ASSUME NEW i \in Ids \ closed', NEW h \in Running', i \in DOMAIN job'[h].txn.name
      PROVE  BringsSource(h, i)'
  <2>1. CASE i \in DOMAIN job[h].txn.name
    <3>1. BringsSource(h, i) /\ job'[h].txn.name[i] = job[h].txn.name[i]
          /\ \A x \in DOMAIN job[h].txn.added : /\ x \in DOMAIN job'[h].txn.added
                                                /\ job'[h].txn.added[x] = job[h].txn.added[x]
      <4>1. BringsSource(h, i)
        BY <1>7, <2>1 DEF Sourced
      <4> QED
        BY <1>1, <1>2, <2>1, <4>1
    <3>2. PICK x \in Keys :
            /\ SourceOf[x] = h
            /\ \/ /\ x \in DOMAIN job[h].txn.added
                  /\ job[h].txn.added[x].restaurant = i
                  /\ job[h].txn.added[x].payload.name = job[h].txn.name[i]
               \/ BelongsTo(x, i) /\ Says({h}, x).name = job[h].txn.name[i]
      BY <3>1 DEF BringsSource
    <3>3. Says({h}, x)' = Says({h}, x)
      BY <1>4
    <3> QED
      BY <3>1, <3>2, <3>3 DEF BringsSource, BelongsTo
  <2>2. CASE i \notin DOMAIN job[h].txn.name
    <3>1. h = j /\ i = row.restaurant /\ job'[j].txn.name[i] = row.payload.name
      BY <1>3, <1>7, <2>2
    <3>2. /\ k \in DOMAIN job'[j].txn.added /\ job'[j].txn.added[k].restaurant = i
          /\ job'[j].txn.added[k].payload.name = job'[j].txn.name[i]
      BY <1>1, <3>1
    <3> QED
      BY <3>1, <3>2 DEF BringsSource
  <2> QED
    BY <2>1, <2>2
<1> QED
  BY <1>5, <1>6, <1>7 DEF Sourced, StaysSourced

\* A run writes the payload p of the known record k, and its name.
LEMMA SourcedRefreshes ==
  ASSUME IInv, Sourced, IInv', UNCHANGED <<name, closed, source>>,
         NEW j \in Running, NEW k \in Keys, SourceOf[k] = j, NEW i0 \in Ids, BelongsTo(k, i0),
         NEW p \in Payloads, name[i0] # None,
         \A h \in Running' : h \in Running /\ (h # j => job'[h] = job[h]),
         job'[j].txn.added = job[j].txn.added,
         job'[j].txn.payload = Put(job[j].txn.payload, k, p),
         job'[j].txn.name = Changed(job[j].txn.name, i0, Seen(job[j].txn).name[i0], p.name)
  PROVE  Sourced'
<1> DEFINE old == job[j].txn.name
           new == job'[j].txn.name
<1>1. /\ DOMAIN job'[j].txn.payload = DOMAIN job[j].txn.payload \cup {k}
      /\ job'[j].txn.payload[k] = p
      /\ \A x \in DOMAIN job[j].txn.payload : x # k => job'[j].txn.payload[x] = job[j].txn.payload[x]
  BY DEF Put
<1>2. /\ \A i \in DOMAIN old : i \in DOMAIN new
      /\ \A i \in DOMAIN new : i # i0 => i \in DOMAIN old /\ new[i] = old[i]
      /\ i0 \in DOMAIN new => new[i0] = p.name
      /\ i0 \notin DOMAIN new => name[i0] = p.name
  <2>1. old \in Partial(Ids, Names) /\ p.name \in Names
    BY RunIs DEF Txns, Payloads
  <2>2. Seen(job[j].txn).name[i0] = IF i0 \in DOMAIN old THEN old[i0] ELSE name[i0]
    <3>1. Typed /\ job[j].txn \in Txns
      BY RunIs DEF IInv
    <3> QED
      BY <3>1, SeenIs DEF old
  <2>3. CASE Seen(job[j].txn).name[i0] = p.name
    BY <2>2, <2>3 DEF Changed
  <2>4. CASE Seen(job[j].txn).name[i0] # p.name
    <3>1. new = Put(old, i0, p.name)
      BY <2>4 DEF Changed
    <3>2. DOMAIN Put(old, i0, p.name) = DOMAIN old \cup {i0} /\ Put(old, i0, p.name)[i0] = p.name
          /\ \A i \in DOMAIN old : i # i0 => Put(old, i0, p.name)[i] = old[i]
      BY DEF Put
    <3> QED
      BY <3>1, <3>2
  <2> QED
    BY <2>3, <2>4
<1> HIDE DEF old, new
<1>3. ASSUME NEW S \in SUBSET Running', NEW x, x # k \/ j \notin S PROVE Says(S, x)' = Says(S, x)
  <2>1. CASE SourceOf[x] \in S /\ SourceOf[x] # j
    BY <2>1 DEF Says
  <2>2. CASE SourceOf[x] = j /\ j \in S
    BY <1>1, <1>3, <2>2 DEF Says
  <2>3. CASE SourceOf[x] \notin S
    BY <2>3 DEF Says
  <2> QED
    BY <2>1, <2>2, <2>3
<1>4. ASSUME NEW S, j \in S PROVE Says(S, k)' = p
  BY <1>1, <1>4 DEF Says
<1>5. ASSUME NEW h \in Running', NEW x \in DOMAIN job'[h].txn.added PROVE source'[x] = None
  <2>1. x \in DOMAIN job[h].txn.added /\ h \in Running
    BY <1>5
  <2> QED
    BY <2>1 DEF Sourced
<1>6. ASSUME NEW i \in Ids \ closed', name'[i] # None, NEW S \in SUBSET (Quiet(i)')
      PROVE  \E x \in Keys : BelongsTo(x, i)' /\ (Says(S, x)').name = name'[i]
  <2>1. S \in SUBSET Running' /\ \A h \in S : i \notin DOMAIN job'[h].txn.name
    BY DEF Quiet
  <2>2. S \in SUBSET Quiet(i)
    <3> SUFFICES ASSUME NEW h \in S PROVE h \in Running /\ i \notin DOMAIN job[h].txn.name
      BY DEF Quiet
    <3>1. CASE h = j
      BY <1>2, <2>1, <3>1 DEF old, new
    <3>2. CASE h # j
      BY <2>1, <3>2
    <3> QED
      BY <3>1, <3>2
  <2>3. CASE i = i0 /\ j \in S
    <3>1. name[i0] = p.name
      BY <1>2, <2>1, <2>3 DEF new
    <3>2. Says(S, k)' = p
      BY <1>4, <2>3
    <3> QED
      BY <2>3, <3>1, <3>2 DEF BelongsTo
  <2>4. CASE ~(i = i0 /\ j \in S)
    <3>1. PICK x \in Keys : BelongsTo(x, i) /\ Says(S, x).name = name[i]
      BY <1>6, <2>2 DEF Sourced, StaysSourced
    <3>2. x # k \/ j \notin S
      BY <2>4, <3>1 DEF BelongsTo
    <3>3. Says(S, x)' = Says(S, x)
      BY <1>3, <2>1, <3>2
    <3> QED
      BY <3>1, <3>3 DEF BelongsTo
  <2> QED
    BY <2>3, <2>4
<1>7. ASSUME NEW i \in Ids \ closed', NEW h \in Running', i \in DOMAIN job'[h].txn.name
      PROVE  BringsSource(h, i)'
  <2>1. CASE h = j /\ i = i0
    <3>1. Says({j}, k)' = p /\ job'[j].txn.name[i0] = p.name
      BY <1>2, <1>4, <1>7, <2>1 DEF new
    <3> QED
      BY <2>1, <3>1 DEF BringsSource, BelongsTo
  <2>2. CASE ~(h = j /\ i = i0)
    <3>1. i \in DOMAIN job[h].txn.name /\ job'[h].txn.name[i] = job[h].txn.name[i]
          /\ job'[h].txn.added = job[h].txn.added
      BY <1>2, <1>7, <2>2 DEF old, new
    <3>2. BringsSource(h, i)
      BY <1>7, <3>1 DEF Sourced
    <3>3. PICK x \in Keys :
            /\ SourceOf[x] = h
            /\ \/ /\ x \in DOMAIN job[h].txn.added
                  /\ job[h].txn.added[x].restaurant = i
                  /\ job[h].txn.added[x].payload.name = job[h].txn.name[i]
               \/ BelongsTo(x, i) /\ Says({h}, x).name = job[h].txn.name[i]
      BY <3>2 DEF BringsSource
    <3>4. CASE BelongsTo(x, i) /\ Says({h}, x).name = job[h].txn.name[i]
      <4>1. x # k \/ j \notin {h}
        BY <2>2, <3>4 DEF BelongsTo
      <4>2. Says({h}, x)' = Says({h}, x)
        BY <1>3, <4>1
      <4> QED
        BY <3>1, <3>3, <3>4, <4>2 DEF BringsSource, BelongsTo
    <3>5. CASE /\ x \in DOMAIN job[h].txn.added
               /\ job[h].txn.added[x].restaurant = i
               /\ job[h].txn.added[x].payload.name = job[h].txn.name[i]
      BY <3>1, <3>3, <3>5 DEF BringsSource
    <3> QED
      BY <3>3, <3>4, <3>5
  <2> QED
    BY <2>1, <2>2
<1> QED
  BY <1>5, <1>6, <1>7 DEF Sourced, StaysSourced

\* What a commit does to the records: those of its source take what it says of them.
LEMMA CommitSays ==
  ASSUME IInv, NEW j \in Running, NEW k \in Keys,
         \A x \in DOMAIN job[j].txn.added : source[x] = None
  PROVE  LET txn == job[j].txn
             now == Seen(txn).source[k]
         IN  /\ SourceOf[k] # j => now = source[k]
             /\ k \in DOMAIN txn.added => now = txn.added[k]
             /\ source[k] # None => /\ now # None /\ now.restaurant = source[k].restaurant
                                    /\ now.payload = Says({j}, k)
<1> DEFINE txn == job[j].txn
<1>1. /\ txn \in Txns /\ Fits(j, job[j]) /\ Typed /\ k \in Rows
  BY RunIs DEF IInv, Rows
<1>2. Seen(txn).source[k] = IF k \in DOMAIN txn.added THEN txn.added[k]
                            ELSE IF k \in DOMAIN txn.payload
                                 THEN [source[k] EXCEPT !.payload = txn.payload[k]]
                            ELSE source[k]
  <2>1. Seen(txn).source = [x \in Rows |->
            IF x \in DOMAIN txn.added THEN txn.added[x]
            ELSE IF x \in DOMAIN txn.payload THEN [source[x] EXCEPT !.payload = txn.payload[x]]
            ELSE source[x]]
    BY <1>1, SeenIs
  <2> QED
    BY <1>1, <2>1
<1>3. \A x \in DOMAIN txn.added : SourceOf[x] = j
  BY <1>1 DEF Fits
<1>4. \A x \in DOMAIN txn.payload : SourceOf[x] = j
  BY <1>1 DEF Fits
<1>5. CASE source[k] = None
  <2>1. k \notin DOMAIN txn.payload
    BY <1>1, <1>5 DEF Fits
  <2> QED
    BY <1>2, <1>3, <1>5, <2>1
<1>6. CASE source[k] # None
  <2>1. source[k] \in SourceRows /\ k \notin DOMAIN txn.added
    BY <1>1, <1>6 DEF Typed
  <2>2. CASE k \in DOMAIN txn.payload
    <3>1. SourceOf[k] = j /\ Says({j}, k) = txn.payload[k]
      BY <1>4, <2>2 DEF Says
    <3>2. txn.payload[k] \in Payloads
      <4>1. txn.payload \in Partial(Keys, Payloads)
        BY <1>1 DEF Txns
      <4> QED
        BY <2>2, <4>1, PartialIs
    <3>3. LET now == [source[k] EXCEPT !.payload = txn.payload[k]]
          IN  now \in SourceRows /\ now.restaurant = source[k].restaurant /\ now.payload = txn.payload[k]
      BY <2>1, <3>2 DEF SourceRows
    <3> QED
      BY <1>2, <2>1, <2>2, <3>1, <3>3, EvidenceAssumption
  <2>3. CASE k \notin DOMAIN txn.payload
    <3>1. Says({j}, k) = source[k].payload
      BY <2>3 DEF Says
    <3> QED
      BY <1>2, <1>6, <2>1, <2>3, <3>1
  <2> QED
    BY <2>2, <2>3
<1> QED
  BY <1>5, <1>6

LEMMA SourcedCommits == ASSUME IInv, Sourced, IInv', NEW j \in Jobs, Commit(j) PROVE Sourced'
<1> DEFINE txn == job[j].txn
           view == Seen(txn)
<1>1. /\ j \in Running /\ txn \in Txns /\ Fits(j, job[j]) /\ Typed
  BY RunIs DEF Commit, IInv, Running
<1>2. /\ name' = view.name /\ source' = view.source /\ closed' = closed
      /\ \A h \in Jobs \ {j} : job'[h] = job[h]
      /\ j \in Running' => job'[j].txn = Nothing
  <2>1. job' = [job EXCEPT ![j] = IF @.todo = {} THEN None
                                  ELSE [@ EXCEPT !.txn = Nothing, !.pending = {}, !.count = 0]]
    BY DEF Commit
  <2>2. job \in [Jobs -> TaskRuns \cup {None}] /\ job[j] \in TaskRuns
    BY <1>1, RunIs DEF Typed
  <2>3. j \in Running' => job'[j] = [job[j] EXCEPT !.txn = Nothing, !.pending = {}, !.count = 0]
    BY <2>1, <2>2 DEF Running
  <2>4. j \in Running' => job'[j].txn = Nothing
    BY <2>2, <2>3 DEF TaskRuns
  <2> QED
    BY <2>1, <2>2, <2>4 DEF Commit
<1>3. \A h \in Running' : h # j => h \in Running /\ job'[h] = job[h]
  BY <1>2 DEF Running
<1>4. \A i \in Ids : name'[i] = IF i \in DOMAIN txn.name THEN txn.name[i] ELSE name[i]
  BY <1>1, <1>2, SeenIs
<1>5. ASSUME NEW k \in Keys
      PROVE  /\ SourceOf[k] # j => source'[k] = source[k]
             /\ k \in DOMAIN txn.added => source'[k] = txn.added[k]
             /\ source[k] # None => /\ source'[k] # None /\ source'[k].restaurant = source[k].restaurant
                                    /\ source'[k].payload = Says({j}, k)
  <2>1. \A x \in DOMAIN txn.added : source[x] = None
    BY <1>1 DEF Sourced
  <2> QED
    BY <1>1, <1>2, <2>1, CommitSays
<1>6. \A i \in Ids, k \in Keys : BelongsTo(k, i) => BelongsTo(k, i)'
  BY <1>5 DEF BelongsTo
<1> HIDE DEF view
<1>7. ASSUME NEW h \in Running', NEW x \in DOMAIN job'[h].txn.added PROVE source'[x] = None
  <2>1. h # j /\ h \in Running /\ job'[h] = job[h]
    BY <1>2, <1>3, <1>7, NothingIs
  <2>2. x \in Keys /\ SourceOf[x] = h /\ source[x] = None
    BY <1>7, <2>1, RunIs DEF Sourced, Fits
  <2> QED
    BY <1>5, <2>1, <2>2
<1>8. ASSUME NEW S \in SUBSET Running', NEW k \in Keys, source[k] # None
      PROVE  Says(S, k)' = Says(S \cup {j}, k)
  <2>1. CASE SourceOf[k] = j
    <3>1. Says(S, k)' = source'[k].payload
      <4>1. CASE j \in S
        BY <1>2, <2>1, <4>1, NothingIs DEF Says
      <4>2. CASE j \notin S
        BY <2>1, <4>2 DEF Says
      <4> QED
        BY <4>1, <4>2
    <3>2. Says(S \cup {j}, k) = Says({j}, k)
      BY <2>1 DEF Says
    <3> QED
      BY <1>5, <1>8, <3>1, <3>2
  <2>2. CASE SourceOf[k] # j
    <3>1. source'[k] = source[k]
      BY <1>5, <2>2
    <3>2. SourceOf[k] \in S => job'[SourceOf[k]] = job[SourceOf[k]]
      BY <1>3, <2>2
    <3> QED
      BY <2>2, <3>1, <3>2 DEF Says
  <2> QED
    BY <2>1, <2>2
<1>9. ASSUME NEW i \in Ids \ closed', name'[i] # None, NEW S \in SUBSET (Quiet(i)')
      PROVE  \E k \in Keys : BelongsTo(k, i)' /\ (Says(S, k)').name = name'[i]
  <2>1. S \in SUBSET Running' /\ \A h \in S : i \notin DOMAIN job'[h].txn.name
    BY DEF Quiet
  <2>2. CASE i \in DOMAIN txn.name
    <3>1. BringsSource(j, i) /\ name'[i] = txn.name[i]
      BY <1>1, <1>2, <1>4, <1>9, <2>2 DEF Sourced
    <3>2. PICK k \in Keys :
            /\ SourceOf[k] = j
            /\ \/ /\ k \in DOMAIN txn.added
                  /\ txn.added[k].restaurant = i /\ txn.added[k].payload.name = txn.name[i]
               \/ BelongsTo(k, i) /\ Says({j}, k).name = txn.name[i]
      BY <3>1 DEF BringsSource
    <3>3. Says(S, k)' = source'[k].payload
      <4>1. CASE j \in S
        BY <1>2, <2>1, <3>2, <4>1, NothingIs DEF Says
      <4>2. CASE j \notin S
        BY <3>2, <4>2 DEF Says
      <4> QED
        BY <4>1, <4>2
    <3>4. BelongsTo(k, i)' /\ source'[k].payload.name = txn.name[i]
      <4>1. CASE BelongsTo(k, i) /\ Says({j}, k).name = txn.name[i]
        <5>1. source[k] # None
          BY <4>1 DEF BelongsTo
        <5> QED
          BY <1>5, <1>6, <4>1, <5>1
      <4>2. CASE /\ k \in DOMAIN txn.added
                 /\ txn.added[k].restaurant = i /\ txn.added[k].payload.name = txn.name[i]
        <5>1. source'[k] = txn.added[k]
          BY <1>5, <4>2
        <5>2. txn.added[k] # None
          <6> DEFINE S1 == [restaurant : Ids, payload : Payloads]
          <6>1. txn.added \in Partial(Keys, S1)
            BY <1>1 DEF Txns
          <6> HIDE DEF S1
          <6>2. txn.added[k] \in S1
            BY <4>2, <6>1, PartialIs
          <6> QED
            BY <6>2, EvidenceAssumption DEF S1, SourceRows
        <5> QED
          BY <4>2, <5>1, <5>2 DEF BelongsTo
      <4> QED
        BY <3>2, <4>1, <4>2
    <3> QED
      BY <3>1, <3>3, <3>4
  <2>3. CASE i \notin DOMAIN txn.name
    <3>1. name'[i] = name[i]
      BY <1>4, <2>3
    <3>2. S \cup {j} \in SUBSET Quiet(i)
      <4> SUFFICES ASSUME NEW h \in S \cup {j} PROVE h \in Running /\ i \notin DOMAIN job[h].txn.name
        BY DEF Quiet
      <4>1. CASE h = j
        BY <1>1, <2>3, <4>1
      <4>2. CASE h # j
        BY <1>3, <2>1, <4>2
      <4> QED
        BY <4>1, <4>2
    <3>3. PICK k \in Keys : BelongsTo(k, i) /\ Says(S \cup {j}, k).name = name[i]
      BY <1>2, <1>9, <3>1, <3>2 DEF Sourced, StaysSourced
    <3>4. Says(S, k)' = Says(S \cup {j}, k)
      BY <1>8, <2>1, <3>3 DEF BelongsTo
    <3> QED
      BY <1>6, <3>1, <3>3, <3>4
  <2> QED
    BY <2>2, <2>3
<1>10. ASSUME NEW i \in Ids \ closed', NEW h \in Running', i \in DOMAIN job'[h].txn.name
       PROVE  BringsSource(h, i)'
  <2>1. h # j /\ h \in Running /\ job'[h] = job[h]
    BY <1>2, <1>3, <1>10, NothingIs
  <2>2. BringsSource(h, i)
    BY <1>2, <1>10, <2>1 DEF Sourced
  <2>3. PICK k \in Keys :
          /\ SourceOf[k] = h
          /\ \/ /\ k \in DOMAIN job[h].txn.added
                /\ job[h].txn.added[k].restaurant = i
                /\ job[h].txn.added[k].payload.name = job[h].txn.name[i]
             \/ BelongsTo(k, i) /\ Says({h}, k).name = job[h].txn.name[i]
    BY <2>2 DEF BringsSource
  <2>4. CASE BelongsTo(k, i) /\ Says({h}, k).name = job[h].txn.name[i]
    <3>1. source'[k] = source[k]
      BY <1>5, <2>1, <2>3
    <3>2. Says({h}, k)' = Says({h}, k)
      BY <2>1, <2>3, <3>1 DEF Says
    <3> QED
      BY <1>6, <2>1, <2>3, <2>4, <3>2 DEF BringsSource
  <2>5. CASE /\ k \in DOMAIN job[h].txn.added
             /\ job[h].txn.added[k].restaurant = i
             /\ job[h].txn.added[k].payload.name = job[h].txn.name[i]
    BY <2>1, <2>3, <2>5 DEF BringsSource
  <2> QED
    BY <2>3, <2>4, <2>5
<1> QED
  BY <1>7, <1>9, <1>10 DEF Sourced, StaysSourced

\* A record that a run sees no row of has none.
LEMMA UnknownIs ==
  ASSUME IInv, NEW j \in {"osm", "google"}, job[j] # None, NEW k \in job[j].todo,
         Seen(job[j].txn).source[k] = None
  PROVE  source[k] = None
<1> DEFINE txn == job[j].txn
<1>1. k \in Rows /\ k \notin DOMAIN txn.added /\ txn \in Txns /\ Typed /\ k \notin DOMAIN txn.payload
  BY SweepKnows, KnownOnce DEF IInv
<1>2. Seen(txn).source = [x \in Rows |->
            IF x \in DOMAIN txn.added THEN txn.added[x]
            ELSE IF x \in DOMAIN txn.payload THEN [source[x] EXCEPT !.payload = txn.payload[x]]
            ELSE source[x]]
  BY <1>1, SeenIs
<1> QED
  BY <1>1, <1>2

LEMMA UpsertSourced ==
  ASSUME IInv, Sourced, IInv', NEW j \in {"osm", "google"}, NEW k \in Keys, NEW p \in Versions[k],
         Upsert(j, k, p)
  PROVE  Sourced'
<1> DEFINE run == job[j]
<1>1. /\ p \in Payloads /\ run # None /\ k \in run.todo
      /\ UNCHANGED <<name, at, closed, alias, source, conflicts, review, begun>>
      /\ Refresh(j, k, p) \/ Refuse(j, k, p) \/ Attach(j, k, p) \/ Create(j, k, p)
  BY EvidenceAssumption DEF Upsert, catalogue
<1>2. /\ run \in TaskRuns /\ Fits(j, run) /\ j \in Running /\ j \in Jobs
      /\ k \in Rows /\ SourceOf[k] = j /\ k \notin DOMAIN run.txn.added
      /\ job \in [Jobs -> TaskRuns \cup {None}]
  BY <1>1, SweepKnows DEF IInv, Typed
<1>3. ASSUME NEW txn, NEW pending, NEW candidates, NEW knows,
             job' = [job EXCEPT ![j] = After(j, k, txn, pending, candidates, knows)]
      PROVE  /\ job'[j].txn = txn
             /\ \A h \in Running' : h \in Running /\ (h # j => job'[h] = job[h])
  <2>1. job'[j] = After(j, k, txn, pending, candidates, knows) /\ \A h \in Jobs \ {j} : job'[h] = job[h]
    BY <1>2, <1>3
  <2> QED
    BY <1>2, <2>1 DEF After, Running
<1>4. ASSUME \A h \in Running' : h \in Running /\ (h # j => job'[h] = job[h]),
             job'[j].txn.name = run.txn.name, job'[j].txn.payload = run.txn.payload,
             job'[j].txn.added = run.txn.added
      PROVE  Sourced'
  <2>1. \A x \in Keys : /\ source'[x] = None <=> source[x] = None
                        /\ source[x] # None => source'[x].payload = source[x].payload
                        /\ \A i \in Ids \ closed' : BelongsTo(x, i) => BelongsTo(x, i)'
    BY <1>1 DEF BelongsTo
  <2>2. \A h \in Running' : /\ h \in Running
                            /\ job'[h].txn.name = job[h].txn.name
                            /\ job'[h].txn.payload = job[h].txn.payload
                            /\ job'[h].txn.added = job[h].txn.added
    BY <1>4
  <2> QED
    BY <1>1, <2>1, <2>2, SourcedSame
<1>5. CASE Refresh(j, k, p)
  <2> DEFINE i == source[k].restaurant
  <2>1. PICK txn \in Txns : Refreshes(j, k, p, i, txn)
    BY <1>1, <1>5, RefreshIs
  <2>2. /\ job' = [job EXCEPT ![j] = After(j, k, txn, run.pending, run.candidates, run.knows)]
        /\ source[k] # None /\ i \in Ids /\ name[i] # None /\ txn.added = run.txn.added
    BY <2>1 DEF Refreshes
  <2>3. job'[j].txn = txn /\ \A h \in Running' : h \in Running /\ (h # j => job'[h] = job[h])
    BY <1>3, <2>2
  <2>4. CASE txn = run.txn
    BY <1>4, <2>3, <2>4
  <2>5. CASE txn # run.txn
    <3>1. /\ txn.name = Changed(run.txn.name, i, Seen(run.txn).name[i], p.name)
          /\ txn.payload = Put(run.txn.payload, k, p)
      BY <2>1, <2>5 DEF Refreshes
    <3>2. BelongsTo(k, i)
      BY <2>2 DEF BelongsTo
    <3> HIDE DEF i
    <3> QED
      BY <1>1, <1>2, <2>2, <2>3, <3>1, <3>2, SourcedRefreshes
  <2> QED
    BY <2>4, <2>5
<1>6. CASE Refuse(j, k, p)
  <2>1. PICK txn \in Txns : Refuses(j, k, txn)
    BY <1>1, <1>6, RefuseIs
  <2>2. /\ job' = [job EXCEPT ![j] = After(j, k, txn, run.pending, run.candidates, run.knows)]
        /\ txn.name = run.txn.name /\ txn.payload = run.txn.payload /\ txn.added = run.txn.added
    BY <2>1 DEF Refuses
  <2>3. job'[j].txn = txn /\ \A h \in Running' : h \in Running /\ (h # j => job'[h] = job[h])
    BY <1>3, <2>2
  <2> QED
    BY <1>4, <2>2, <2>3
<1>7. CASE Attach(j, k, p)
  <2>1. source[k] = None
    <3>1. Seen(run.txn).source[k] = None
      BY <1>7 DEF Attach
    <3> QED
      BY <1>1, <3>1, UnknownIs
  <2>2. PICK txn \in Txns, i \in Ids, fresh \in SUBSET (Ids \X Names) :
          Attaches(j, k, p, i, fresh, txn)
    BY <1>1, <1>7, AttachIs
  <2> DEFINE row == [restaurant |-> i, payload |-> p]
  <2>3. /\ job' = [job EXCEPT ![j] = After(j, k, txn, run.pending \cup fresh, run.candidates, run.knows)]
        /\ txn.added = Put(run.txn.added, k, row)
        /\ txn.name = run.txn.name /\ txn.payload = run.txn.payload
    BY <2>2 DEF Attaches
  <2>4. job'[j].txn = txn /\ \A h \in Running' : h \in Running /\ (h # j => job'[h] = job[h])
    BY <1>3, <2>3
  <2> HIDE DEF row
  <2>5. /\ job'[j].txn.added = Put(job[j].txn.added, k, row)
        /\ job'[j].txn.name = job[j].txn.name /\ job'[j].txn.payload = job[j].txn.payload
    BY <2>3, <2>4
  <2> HIDE DEF run
  <2> QED
    BY <1>1, <1>2, <2>1, <2>4, <2>5, SourcedAdds DEF run
<1>8. CASE Create(j, k, p)
  <2>1. source[k] = None
    <3>1. Seen(run.txn).source[k] = None
      BY <1>8 DEF Create
    <3> QED
      BY <1>1, <3>1, UnknownIs
  <2> DEFINE i == NextId
  <2>2. PICK txn \in Txns, candidates \in SUBSET Read, knows \in SUBSET Ids :
          Makes(j, k, p, i, txn, candidates, knows)
    BY <1>1, <1>8, CreateIs
  <2> DEFINE row == [restaurant |-> i, payload |-> p]
  <2> HIDE DEF i
  <2>3. /\ job' = [job EXCEPT ![j] = After(j, k, txn, {}, candidates, knows)]
        /\ txn.added = Put(run.txn.added, k, row) /\ txn.payload = run.txn.payload
        /\ txn.name = Put(run.txn.name, row.restaurant, row.payload.name)
        /\ row.restaurant \notin Existing
    BY <2>2 DEF Makes
  <2>4. job'[j].txn = txn /\ \A h \in Running' : h \in Running /\ (h # j => job'[h] = job[h])
    BY <1>3, <2>3
  <2> HIDE DEF row
  <2> QED
    BY <1>1, <1>2, <2>1, <2>3, <2>4, SourcedAdds
<1> QED
  BY <1>1, <1>5, <1>6, <1>7, <1>8

LEMMA StepSourced == IInv /\ Sourced /\ IInv' /\ [Next]_vars => Sourced'
<1> SUFFICES ASSUME IInv, Sourced, IInv', [Next]_vars PROVE Sourced'
  OBVIOUS
<1>0. job \in [Jobs -> TaskRuns \cup {None}] /\ source \in [Rows -> SourceRows \cup {None}]
  BY DEF IInv, Typed
<1>1. ASSUME UNCHANGED <<name, closed>>,
             \A k \in Keys : source'[k] = source[k],
             \A h \in Running' : \/ h \in Running /\ job'[h].txn = job[h].txn
                                 \/ job'[h].txn = Nothing
      PROVE  Sourced'
  <2>1. \A k \in Keys : /\ source'[k] = None <=> source[k] = None
                        /\ source[k] # None => source'[k].payload = source[k].payload
                        /\ \A i \in Ids \ closed' : BelongsTo(k, i) => BelongsTo(k, i)'
    BY <1>1 DEF BelongsTo
  <2>2. \A h \in Running' :
           \/ /\ h \in Running
              /\ job'[h].txn.name = job[h].txn.name
              /\ job'[h].txn.payload = job[h].txn.payload
              /\ job'[h].txn.added = job[h].txn.added
           \/ /\ DOMAIN job'[h].txn.name = {} /\ DOMAIN job'[h].txn.payload = {}
              /\ DOMAIN job'[h].txn.added = {}
    BY <1>1, NothingIs
  <2> QED
    BY <1>1, <2>1, <2>2, SourcedSame
<1>2. CASE UNCHANGED vars
  BY <1>1, <1>2 DEF vars, catalogue, Running
<1>3. ASSUME NEW j \in Jobs, Begin(j) PROVE Sourced'
  <2>1. UNCHANGED <<name, closed, source>>
    BY <1>3 DEF Begin, catalogue
  <2>2. \A h \in Jobs : IF h = j THEN job'[h].txn = Nothing ELSE job'[h] = job[h]
    BY <1>0, <1>3 DEF Begin
  <2> QED
    BY <1>1, <2>1, <2>2 DEF Running
<1>4. ASSUME NEW j \in Jobs, Commit(j) PROVE Sourced'
  BY <1>4, SourcedCommits
<1>5. ASSUME NEW j \in Jobs, Abort(j) PROVE Sourced'
  <2>1. UNCHANGED <<name, closed, source>>
    BY <1>5 DEF Abort, catalogue
  <2>2. \A h \in Jobs : IF h = j THEN job'[h] = None ELSE job'[h] = job[h]
    BY <1>0, <1>5 DEF Abort
  <2> QED
    BY <1>1, <2>1, <2>2 DEF Running
<1>6. ASSUME NEW j \in {"osm", "google"}, NEW k \in Keys, NEW p \in Versions[k], Upsert(j, k, p)
      PROVE  Sourced'
  BY <1>6, UpsertSourced
<1>7. ASSUME NEW r \in DOMAIN Raws, Store(r) PROVE Sourced'
  <2>1. UNCHANGED <<name, closed, source>> /\ job["reviews"] # None
    BY <1>7 DEF Store
  <2>2. job' = [job EXCEPT !["reviews"].todo = @ \ {r}] /\ job["reviews"] \in TaskRuns
    BY <1>0, <1>7, <2>1 DEF Store, Jobs
  <2>3. \A h \in Jobs : /\ h # "reviews" => job'[h] = job[h]
                        /\ h = "reviews" => job'[h].txn = job[h].txn
    BY <1>0, <2>2 DEF TaskRuns
  <2> QED
    BY <1>1, <2>1, <2>3 DEF Running
<1>8. ASSUME NEW r \in DOMAIN Raws, Process(r) PROVE Sourced'
  BY <1>1, <1>8 DEF Process, catalogue, Running
<1>9. ASSUME NEW target \in Ids, NEW duplicate \in Ids, Merge(target, duplicate) PROVE Sourced'
  <2>1. /\ closed' = closed \cup {duplicate} /\ UNCHANGED <<name, job>>
        /\ source' = [k \in Rows |-> IF source[k] # None /\ source[k].restaurant = duplicate
                                     THEN [source[k] EXCEPT !.restaurant = target] ELSE source[k]]
    BY <1>9 DEF Merge
  <2>2. ASSUME NEW k \in Keys
        PROVE  /\ source'[k] = None <=> source[k] = None
               /\ source[k] # None => source'[k].payload = source[k].payload
               /\ \A i \in Ids \ closed' : BelongsTo(k, i) => BelongsTo(k, i)'
    <3>1. CASE source[k] # None /\ source[k].restaurant = duplicate
      <4>1. source'[k] = [source[k] EXCEPT !.restaurant = target] /\ source[k] \in SourceRows
        BY <1>0, <2>1, <3>1 DEF Rows
      <4>2. source'[k] \in SourceRows /\ source'[k].payload = source[k].payload
        BY <4>1 DEF SourceRows
      <4> QED
        BY <2>1, <3>1, <4>2, EvidenceAssumption DEF BelongsTo
    <3>2. CASE ~(source[k] # None /\ source[k].restaurant = duplicate)
      <4>1. source'[k] = source[k]
        BY <2>1, <3>2 DEF Rows
      <4> QED
        BY <4>1 DEF BelongsTo
    <3> QED
      BY <3>1, <3>2
  <2>3. \A h \in Running' : h \in Running /\ job'[h] = job[h]
    BY <2>1 DEF Running
  <2> QED
    BY <2>1, <2>2, <2>3, SourcedSame
<1>10. ASSUME NEW x \in Keys \cup DOMAIN Raws, ResolveConflict(x) PROVE Sourced'
  BY <1>1, <1>10 DEF ResolveConflict, Running
<1>11. ASSUME NEW e \in DOMAIN Entities, Enrich(e) PROVE Sourced'
  <2>1. UNCHANGED <<name, closed, job>> /\ \E row : source' = [source EXCEPT ![e] = row]
    BY <1>11 DEF Enrich
  <2>2. \A k \in Keys : k # e /\ k \in Rows
    BY EvidenceAssumption DEF Rows
  <2>3. \A k \in Keys : source'[k] = source[k]
    BY <1>0, <2>1, <2>2
  <2> QED
    BY <1>1, <2>1, <2>3 DEF Running
<1> QED
  BY <1>2, <1>3, <1>4, <1>5, <1>6, <1>7, <1>8, <1>9, <1>10, <1>11 DEF Next

\* An open restaurant is called what one of its records says now (upsert_place), for any number
\* of records, and whatever the two sweeps write over each other: the sweep that renames a
\* restaurant commits the record that names it in the same transaction, and only one sweep
\* writes a given record.
THEOREM NameIsSourcedHolds == Spec => []NameIsSourced
<1>1. Init => Sourced
  BY DEF Init, Sourced, Running
<1>2. IInv /\ Sourced => NameIsSourced
  <2> SUFFICES ASSUME IInv, Sourced, NEW i \in Rowed(Seen(Nothing)) \ closed
               PROVE  \E k \in Keys : BelongsTo(k, i) /\ source[k].payload.name = name[i]
    BY DEF NameIsSourced, BelongsTo
  <2>1. i \in Ids /\ name[i] # None
    BY SeenNothing DEF IInv
  <2>2. {} \in SUBSET Quiet(i)
    OBVIOUS
  <2>3. PICK k \in Keys : BelongsTo(k, i) /\ Says({}, k).name = name[i]
    BY <2>1, <2>2 DEF Sourced, StaysSourced
  <2> QED
    BY <2>3 DEF Says
<1>3. Spec => []IInv
  BY InitIInv, StepIInv, PTL DEF Spec
<1>4. IInv /\ Sourced /\ IInv' /\ [Next]_vars => Sourced'
  BY StepSourced
<1> QED
  BY <1>1, <1>2, <1>3, <1>4, PTL DEF Spec

-----------------------------------------------------------------------------
(* One place each. *)

LEMMA RecordIs ==
  ASSUME PlacesDiffer, NEW k \in Keys, NEW v \in Versions[k]
  PROVE  /\ v.name \in RecordNames(RealPlace[k]) /\ v.at \in RecordSpots(RealPlace[k])
         /\ RealPlace[k] \in Places /\ ToldApart(v.name, v.at, RealPlace[k])
<1>1. k \in {h \in Keys : RealPlace[h] = RealPlace[k]}
  OBVIOUS
<1>2. v.name \in {u.name : u \in Versions[k]} /\ v.at \in {u.at : u \in Versions[k]}
  OBVIOUS
<1>3. RealPlace[k] \in Places
  BY EvidenceAssumption DEF Rows
<1> QED
  BY <1>1, <1>2, <1>3 DEF PlacesDiffer, RecordNames, RecordSpots

LEMMA NamesAre ==
  ASSUME PlacesDiffer, NEW p, NEW n \in RecordNames(p)
  PROVE  p \in Places /\ n \in PlaceNames[p]
<1>1. PICK k \in {h \in Keys : RealPlace[h] = p} : n \in {v.name : v \in Versions[k]}
  BY DEF RecordNames
<1>2. PICK v \in Versions[k] : n = v.name
  BY <1>1
<1>3. RealPlace[k] \in Places
  BY <1>1, EvidenceAssumption DEF Rows
<1> QED
  BY <1>1, <1>2, <1>3 DEF PlacesDiffer

\* What is told apart from other places stands on no rung of theirs.
LEMMA TierTells ==
  ASSUME NEW incoming, incoming.name \in Names, incoming.at \in Int \cup {None},
         NEW place \in Places, NEW q \in Places, ToldApart(incoming.name, incoming.at, place),
         NEW c \in Read, c.name \in PlaceNames[q], c.at \in RecordSpots(q),
         c.aliases \subseteq PlaceNames[q], Tier(incoming, c) # None
  PROVE  q = place
<1> SUFFICES ASSUME q # place PROVE FALSE
  OBVIOUS
<1> DEFINE n == incoming.name
           x == incoming.at
           m == c.name
           y == c.at
           s == NameSimilarity[<<n, m>>]
           d == Distance(incoming, c)
<1>1. Unlike(n, x, m, y) /\ (n \in c.aliases => Unlike(n, x, n, y))
  BY DEF ToldApart
<1>2. n \in Names /\ m \in Names /\ y \in Int /\ x \in Int \cup {None}
  BY DEF Read
<1>3. /\ s \in 0..100 /\ NameSimilarity[<<n, n>>] = 100 /\ (m = n => s = 100)
      /\ EXACT_DISTANCE \in Nat /\ CHAIN_DISTANCE \in Nat /\ STRONG \in Nat /\ MODERATE \in Nat
      /\ EXACT_DISTANCE <= CHAIN_DISTANCE /\ STRONG <= 100 /\ MODERATE <= STRONG
  BY <1>2, ResolutionAssumption
<1>4. d = IF x = None THEN None ELSE Abs(x - y)
  BY DEF Distance
<1>5. None \notin Int
  BY EvidenceAssumption
<1>6. \/ m = n /\ Within(d, EXACT_DISTANCE)
      \/ n \in c.aliases /\ Within(d, CHAIN_DISTANCE)
      \/ s >= MODERATE /\ Within(d, EXACT_DISTANCE)
      \/ s >= STRONG /\ (d = None \/ Within(d, CHAIN_DISTANCE))
  BY DEF Tier
<1> HIDE DEF n, x, m, y, s, d
<1>7. Unlike(n, x, m, y) <=> \/ x # None /\ Abs(x - y) > CHAIN_DISTANCE
                             \/ s < STRONG /\ (s < MODERATE \/ x = None \/ Abs(x - y) > EXACT_DISTANCE)
  BY DEF Unlike, s
<1>8. Unlike(n, x, n, y) => x # None /\ Abs(x - y) > CHAIN_DISTANCE
  <2>1. ~(NameSimilarity[<<n, n>>] < STRONG)
    BY ONLY <1>3
  <2> QED
    BY <2>1 DEF Unlike
<1>9. x # None => Abs(x - y) \in Nat
  BY <1>2, <1>5 DEF Abs
<1> QED
  <2>1. CASE x = None
    <3>1. d = None /\ s >= STRONG
      BY <1>4, <1>6, <2>1 DEF Within
    <3>2. s < STRONG
      BY <1>1, <1>7, <2>1
    <3> QED
      BY ONLY <1>3, <3>1, <3>2
  <2>2. CASE x # None
    <3> DEFINE a == Abs(x - y)
    <3>1. d = a /\ a \in Nat
      BY <1>4, <1>9, <2>2
    <3>2. /\ a > CHAIN_DISTANCE \/ (s < STRONG /\ (s < MODERATE \/ a > EXACT_DISTANCE))
          /\ n \in c.aliases => a > CHAIN_DISTANCE
      BY <1>1, <1>7, <1>8, <2>2
    <3>3. d # None
      BY <1>5, <3>1
    <3> HIDE DEF a
    <3>4. \/ m = n /\ a <= EXACT_DISTANCE
          \/ n \in c.aliases /\ a <= CHAIN_DISTANCE
          \/ s >= MODERATE /\ a <= EXACT_DISTANCE
          \/ s >= STRONG /\ a <= CHAIN_DISTANCE
      BY <1>6, <3>1, <3>3 DEF Within
    <3> QED
      BY ONLY <1>3, <3>1, <3>2, <3>4
  <2> QED
    BY <2>1, <2>2

\* The resolver finds the place that the record or text is about.
LEMMA FoundIsRight ==
  ASSUME PlacesDiffer, NEW candidates \in SUBSET Read, \A c, d \in candidates : c.id = d.id => c = d,
         \A c \in candidates : CandidateTrue(of, c),
         NEW incoming, incoming.name \in Names, incoming.at \in Int \cup {None},
         NEW place \in Places, ToldApart(incoming.name, incoming.at, place),
         incoming.key # None => RealPlace[incoming.key] = place,
         NEW found, found = Resolve(incoming, candidates), found.id # None
  PROVE  of[found.id] = place
<1>1. PICK c \in candidates : /\ c.id = found.id
                              /\ \/ Tier(incoming, c) # None
                                 \/ incoming.key # None /\ incoming.key \in c.keys
  <2>1. found.id # None => \E c \in candidates : /\ c.id = found.id
                                                 /\ \/ Tier(incoming, c) # None
                                                    \/ incoming.key # None /\ incoming.key \in c.keys
    BY ONLY ResolveIs, candidates \in SUBSET Read, \A c, d \in candidates : c.id = d.id => c = d,
            incoming.name \in Names, incoming.at \in Int \cup {None}, found = Resolve(incoming, candidates)
  <2> QED
    BY <2>1
<1>2. CandidateTrue(of, c) /\ c \in Read
  OBVIOUS
<1>3. CASE incoming.key # None /\ incoming.key \in c.keys
  BY <1>1, <1>2, <1>3 DEF CandidateTrue
<1>4. CASE Tier(incoming, c) # None
  <2>1. c.name \in RecordNames(of[c.id]) /\ c.at \in RecordSpots(of[c.id])
        /\ c.aliases \subseteq PlaceNames[of[c.id]]
    BY <1>2 DEF CandidateTrue
  <2>2. of[c.id] \in Places /\ c.name \in PlaceNames[of[c.id]]
    BY <2>1, NamesAre
  <2> QED
    BY <1>1, <1>2, <1>4, <2>1, <2>2, TierTells
<1> QED
  BY <1>1, <1>3, <1>4

LEMMA TargetIsRight ==
  ASSUME PlacesDiffer, IInv, AllTrue, NEW j \in Running, NEW r \in DOMAIN Raws,
         Target(r, job[j].candidates).id # None
  PROVE  of[Target(r, job[j].candidates).id] = RealPlace[r]
<1> DEFINE run == job[j]
           raw == Raws[r]
           incoming == [name |-> raw.hint, at |-> raw.at, key |-> None]
           hinted == IF raw.hint = None THEN Resolution(None, "new", 0)
                     ELSE Resolve(incoming, run.candidates)
           target == Target(r, run.candidates)
<1>1. /\ run.candidates \in SUBSET Read /\ \A c, d \in run.candidates : c.id = d.id => c = d
      /\ \A c \in run.candidates : CandidateTrue(of, c)
  <2>1. run \in TaskRuns /\ Fits(j, run) /\ RunTrue(of, run)
    BY RunIs DEF AllTrue
  <2> QED
    BY <2>1 DEF TaskRuns, Fits, RunTrue
<1>2. RealPlace[r] \in Places
  BY EvidenceAssumption
<1>3. target.id = hinted.id \/ target.id = ResolveMention(raw.named, run.candidates)
  BY DEF Target
<1>4. hinted.id # None => of[hinted.id] = RealPlace[r]
  <2>1. CASE raw.hint = None
    BY <2>1 DEF Resolution
  <2>2. CASE raw.hint # None
    <3>1. /\ incoming.name \in Names /\ incoming.at \in Int \cup {None} /\ incoming.key = None
          /\ hinted = Resolve(incoming, run.candidates)
          /\ ToldApart(incoming.name, incoming.at, RealPlace[r])
      BY <2>2, EvidenceAssumption DEF PlacesDiffer
    <3> HIDE DEF hinted, incoming
    <3> QED
      BY <1>1, <1>2, <3>1, FoundIsRight
  <2> QED
    BY <2>1, <2>2
<1>5. ResolveMention(raw.named, run.candidates) # None =>
        of[ResolveMention(raw.named, run.candidates)] = RealPlace[r]
  <2> DEFINE i == ResolveMention(raw.named, run.candidates)
  <2> SUFFICES ASSUME i # None, of[i] # RealPlace[r] PROVE FALSE
    OBVIOUS
  <2>1. PICK c \in run.candidates : c.id = i /\ (c.shown \cup c.aliases) \cap raw.named \cap Distinctive # {}
    BY MentionIs
  <2> HIDE DEF i
  <2>2. /\ c.name \in RecordNames(of[i])
        /\ c.shown \cup c.aliases \subseteq PlaceNames[of[i]]
    BY <1>1, <2>1 DEF CandidateTrue
  <2>3. of[i] \in Places
    BY <2>2, NamesAre
  <2>4. raw.named \cap PlaceNames[of[i]] \cap Distinctive = {}
    BY <2>3 DEF PlacesDiffer
  <2> QED
    BY <2>1, <2>2, <2>4
<1> HIDE DEF hinted, target
<1>6. target.id # None
  BY DEF target
<1>7. of[target.id] = RealPlace[r]
  BY <1>3, <1>4, <1>5, <1>6
<1> QED
  BY <1>7 DEF target

LEMMA ViewTrue ==
  ASSUME IInv, AllTrue, NEW j \in Running
  PROVE  LET view == Seen(job[j].txn)
         IN  /\ \A i \in Ids : /\ view.name[i] # None => view.name[i] \in RecordNames(of[i])
                               /\ view.at[i] # None => view.at[i] \in RecordSpots(of[i])
             /\ view.alias = alias \cup job[j].txn.alias
             /\ \A a \in view.alias : a[2] \in PlaceNames[of[a[1]]]
             /\ \A k \in Rows : view.source[k] # None => of[view.source[k].restaurant] = RealPlace[k]
<1> DEFINE txn == job[j].txn
           view == Seen(txn)
<1>1. /\ txn \in Txns /\ Fits(j, job[j]) /\ Typed /\ RowsFit /\ TxnTrue(of, txn) /\ CatalogueTrue
  BY RunIs DEF IInv, AllTrue, RunTrue
<1>2. /\ \A i \in Ids : /\ view.name[i] = IF i \in DOMAIN txn.name THEN txn.name[i] ELSE name[i]
                        /\ view.at[i] = IF i \in DOMAIN txn.at THEN txn.at[i] ELSE at[i]
      /\ view.alias = alias \cup txn.alias
  BY <1>1, SeenIs
<1>3. view.source = [k \in Rows |->
              IF k \in DOMAIN txn.added THEN txn.added[k]
              ELSE IF k \in DOMAIN txn.payload THEN [source[k] EXCEPT !.payload = txn.payload[k]]
              ELSE source[k]]
  BY <1>1, SeenIs
<1> HIDE DEF view
<1>4. ASSUME NEW i \in Ids
      PROVE  /\ view.name[i] # None => view.name[i] \in RecordNames(of[i])
             /\ view.at[i] # None => view.at[i] \in RecordSpots(of[i])
  BY <1>1, <1>2 DEF TxnTrue, CatalogueTrue, RowsFit
<1>5. \A a \in view.alias : a[2] \in PlaceNames[of[a[1]]]
  BY <1>1, <1>2 DEF TxnTrue, CatalogueTrue
<1>6. ASSUME NEW k \in Rows, view.source[k] # None PROVE of[view.source[k].restaurant] = RealPlace[k]
  <2>1. CASE k \in DOMAIN txn.added
    BY <1>1, <1>3, <2>1 DEF TxnTrue
  <2>2. CASE k \notin DOMAIN txn.added /\ k \in DOMAIN txn.payload
    <3>1. source[k] # None /\ source[k] \in SourceRows
      BY <1>1, <2>2 DEF Fits, Typed
    <3>2. [source[k] EXCEPT !.payload = txn.payload[k]].restaurant = source[k].restaurant
      BY <3>1 DEF SourceRows
    <3> QED
      BY <1>1, <1>3, <2>2, <3>1, <3>2 DEF CatalogueTrue
  <2>3. CASE k \notin DOMAIN txn.added /\ k \notin DOMAIN txn.payload
    BY <1>1, <1>3, <1>6, <2>3 DEF CatalogueTrue
  <2> QED
    BY <2>1, <2>2, <2>3
<1> QED
  BY <1>2, <1>4, <1>5, <1>6 DEF view

LEMMA CandidatesTrue ==
  ASSUME PlacesDiffer, IInv, CatalogueTrue
  PROVE  \A c \in Candidates(Seen(Nothing)) : CandidateTrue(of, c)
<1>1. Typed /\ RowsFit
  BY DEF IInv
<1>2. /\ \A i \in Ids : Seen(Nothing).name[i] = name[i] /\ Seen(Nothing).at[i] = at[i]
      /\ \A k \in Rows : Seen(Nothing).source[k] = source[k]
  <2>1. \A i \in Ids : Seen(Nothing).name[i] = name[i] /\ Seen(Nothing).at[i] = at[i]
    BY <1>1, NothingIs, SeenIs
  <2>2. Seen(Nothing).source = [k \in Rows |->
            IF k \in DOMAIN Nothing.added THEN Nothing.added[k]
            ELSE IF k \in DOMAIN Nothing.payload THEN [source[k] EXCEPT !.payload = Nothing.payload[k]]
            ELSE source[k]]
    BY <1>1, NothingIs, SeenIs
  <2> QED
    BY <2>1, <2>2, NothingIs
<1>3. ASSUME NEW c \in Candidates(Seen(Nothing)) PROVE CandidateTrue(of, c)
  <2>1. \A i \in Ids : Seen(Nothing).name[i] # None => Seen(Nothing).at[i] \in Int
    BY <1>1, <1>2 DEF Typed, RowsFit
  <2>2. /\ c.id \in Rowed(Seen(Nothing))
        /\ c.name = Seen(Nothing).name[c.id] /\ c.at = Seen(Nothing).at[c.id]
        /\ c.shown \subseteq {c.name}
        /\ \A n \in c.aliases : <<c.id, n>> \in alias \cup Nothing.alias
        /\ \A k \in c.keys : /\ k \in Rows /\ Seen(Nothing).source[k] # None
                             /\ Seen(Nothing).source[k].restaurant = c.id
    BY <1>1, <2>1, NothingIs, CandidatesAre
  <2>3. /\ c.id \in Ids /\ name[c.id] # None /\ c.name = name[c.id] /\ c.at = at[c.id]
        /\ \A n \in c.aliases : <<c.id, n>> \in alias
        /\ \A k \in c.keys : k \in Rows /\ source[k] # None /\ source[k].restaurant = c.id
    BY <1>2, <2>2, NothingIs DEF Rowed
  <2>4. c.name \in RecordNames(of[c.id]) /\ c.at \in RecordSpots(of[c.id])
    BY <2>3 DEF CatalogueTrue
  <2>5. c.name \in PlaceNames[of[c.id]]
    BY <2>4, NamesAre
  <2>6. c.aliases \subseteq PlaceNames[of[c.id]]
    BY <2>3 DEF CatalogueTrue
  <2>7. \A k \in c.keys : RealPlace[k] = of[c.id]
    BY <2>3 DEF CatalogueTrue
  <2> QED
    BY <2>2, <2>4, <2>5, <2>6, <2>7 DEF CandidateTrue
<1> QED
  BY <1>3

LEMMA RunTrueStays ==
  ASSUME NEW h, NEW run \in TaskRuns, Fits(h, run), RunTrue(of, run),
         NEW made, \A i \in Mine(run) : made[i] = of[i]
  PROVE  RunTrue(made, run)
<1>1. DOMAIN run.txn.name \subseteq Ids
  BY PartialIs DEF TaskRuns, Txns
<1>2. \A i \in DOMAIN run.txn.name : i \in Mine(run)
  BY <1>1 DEF Mine
<1>3. TxnTrue(made, run.txn)
  BY <1>2 DEF Fits, RunTrue, TxnTrue
<1>4. \A c \in run.candidates : CandidateTrue(made, c)
  BY DEF Fits, RunTrue, CandidateTrue
<1> QED
  BY <1>3, <1>4 DEF RunTrue

LEMMA CatalogueTrueStays ==
  ASSUME IInv, CatalogueTrue, UNCHANGED <<name, at, alias, source, review>>,
         \A i \in Ids : name[i] # None => of'[i] = of[i]
  PROVE  CatalogueTrue'
<1>1. /\ \A i \in Ids : name[i] # None => at[i] # None
      /\ \A a \in alias : a[1] \in Ids /\ name[a[1]] # None
      /\ \A k \in Rows : source[k] # None => source[k].restaurant \in Ids /\ name[source[k].restaurant] # None
      /\ \A r \in DOMAIN Raws :
           review[r] # None => review[r].restaurant \in Ids /\ name[review[r].restaurant] # None
  BY DEF IInv, Typed, RowsFit, SourceRows, Reviews
<1> QED
  BY <1>1 DEF CatalogueTrue

LEMMA TrueStep ==
  ASSUME IInv, AllTrue, CatalogueTrue', \A i \in Existing : of'[i] = of[i],
         \A h \in Running' : \/ h \in Running /\ job'[h] = job[h]
                             \/ RunTrue(of', job'[h])
  PROVE  AllTrue'
<1>1. ASSUME NEW h \in Running' PROVE RunTrue(of', job'[h])
  <2>1. CASE h \in Running /\ job'[h] = job[h]
    <3>1. job[h] \in TaskRuns /\ Fits(h, job[h]) /\ RunTrue(of, job[h])
      BY <2>1, RunIs DEF AllTrue
    <3>2. \A i \in Mine(job[h]) : of'[i] = of[i]
      BY <2>1 DEF Mine, Existing
    <3> QED
      BY <2>1, <3>1, <3>2, RunTrueStays
  <2> QED
    BY <1>1, <2>1
<1> QED
  BY <1>1 DEF AllTrue

\* A record goes where the resolver sends it.
LEMMA SweepIsRight ==
  ASSUME PlacesDiffer, IInv, AllTrue, NEW j \in Running, NEW k \in Keys, NEW p \in Versions[k],
         NEW i, i = Resolve(Incoming(k, p), job[j].candidates).id, i # None
  PROVE  of[i] = RealPlace[k]
<1>1. /\ job[j].candidates \in SUBSET Read /\ \A c, d \in job[j].candidates : c.id = d.id => c = d
      /\ \A c \in job[j].candidates : CandidateTrue(of, c)
  <2>1. job[j] \in TaskRuns /\ Fits(j, job[j]) /\ RunTrue(of, job[j])
    BY RunIs DEF AllTrue
  <2> QED
    BY <2>1 DEF TaskRuns, Fits, RunTrue
<1>2. RealPlace[k] \in Places /\ ToldApart(p.name, p.at, RealPlace[k])
  BY RecordIs
<1>3. /\ Incoming(k, p).name \in Names /\ Incoming(k, p).at \in Int \cup {None}
      /\ Incoming(k, p).key # None => RealPlace[Incoming(k, p).key] = RealPlace[k]
      /\ ToldApart(Incoming(k, p).name, Incoming(k, p).at, RealPlace[k])
  BY <1>2, EvidenceAssumption DEF Incoming, Payloads
<1>4. PICK found : found = Resolve(Incoming(k, p), job[j].candidates)
  OBVIOUS
<1>5. found.id # None
  BY <1>4
<1>6. of[found.id] = RealPlace[k]
  BY <1>1, <1>2, <1>3, <1>4, <1>5, FoundIsRight
<1> QED
  BY <1>4, <1>6

LEMMA UpsertTrue ==
  ASSUME PlacesDiffer, IInv, AllTrue, NEW j \in {"osm", "google"}, NEW k \in Keys,
         NEW p \in Versions[k], Upsert(j, k, p)
  PROVE  AllTrue'
<1> DEFINE run == job[j]
           place == RealPlace[k]
<1>1. /\ p \in Payloads /\ run # None /\ k \in run.todo
      /\ UNCHANGED <<name, at, closed, alias, source, conflicts, review, begun>>
      /\ Refresh(j, k, p) \/ Refuse(j, k, p) \/ Attach(j, k, p) \/ Create(j, k, p)
  BY EvidenceAssumption DEF Upsert, catalogue
<1>2. /\ run \in TaskRuns /\ Fits(j, run) /\ j \in Running /\ run.txn \in Txns
      /\ k \in Rows /\ TxnTrue(of, run.txn) /\ RunTrue(of, run) /\ CatalogueTrue
      /\ of \in [Ids -> Places \cup {None}]
      /\ j \in Jobs /\ job \in [Jobs -> TaskRuns \cup {None}]
  BY <1>1, SweepKnows DEF AllTrue, RunTrue, IInv, Typed
<1>3. /\ p.name \in RecordNames(place) /\ p.at \in RecordSpots(place) /\ p.name \in PlaceNames[place]
  BY RecordIs, NamesAre
<1>4. ASSUME of' = of PROVE CatalogueTrue' /\ \A i \in Existing : of'[i] = of[i]
  BY <1>1, <1>2, <1>4, CatalogueTrueStays
<1>9. ASSUME NEW txn, NEW pending, NEW candidates, NEW knows,
             job' = [job EXCEPT ![j] = After(j, k, txn, pending, candidates, knows)]
      PROVE  /\ job'[j].txn = txn /\ job'[j].candidates = candidates
             /\ \A h \in Running' : h \in Running /\ (h # j => job'[h] = job[h])
  <2>1. job'[j] = After(j, k, txn, pending, candidates, knows) /\ \A h \in Jobs \ {j} : job'[h] = job[h]
    BY <1>2, <1>9
  <2> QED
    BY <1>2, <2>1 DEF After, Running
<1>5. CASE Refresh(j, k, p)
  <2> DEFINE i == source[k].restaurant
  <2>1. PICK txn \in Txns : Refreshes(j, k, p, i, txn)
    BY <1>1, <1>5, RefreshIs
  <2>2. /\ job' = [job EXCEPT ![j] = After(j, k, txn, run.pending, run.candidates, run.knows)]
        /\ source[k] # None /\ i \in Ids /\ txn.alias = run.txn.alias /\ txn.added = run.txn.added
        /\ of' = of
    BY <2>1 DEF Refreshes
  <2>3. /\ job'[j].txn = txn /\ job'[j].candidates = run.candidates
        /\ \A h \in Running' : h \in Running /\ (h # j => job'[h] = job[h])
    BY <1>9, <2>2
  <2>4. of[i] = place
    BY <1>2, <2>2 DEF CatalogueTrue
  <2> HIDE DEF i
  <2>5. /\ \A x \in DOMAIN txn.name : txn.name[x] \in RecordNames(of[x])
        /\ \A x \in DOMAIN txn.at : txn.at[x] \in RecordSpots(of[x])
    <3>1. CASE txn = run.txn
      BY <1>2, <3>1 DEF TxnTrue
    <3>2. CASE txn # run.txn
      <4>1. /\ txn.name = Changed(run.txn.name, i, Seen(run.txn).name[i], p.name)
            /\ txn.at = Changed(run.txn.at, i, Seen(run.txn).at[i], p.at)
        BY <2>1, <3>2 DEF Refreshes
      <4>2. \A x \in DOMAIN txn.name : \/ x \in DOMAIN run.txn.name /\ txn.name[x] = run.txn.name[x]
                                       \/ x = i /\ txn.name[x] = p.name
        BY <4>1 DEF Changed, Put
      <4>3. \A x \in DOMAIN txn.at : \/ x \in DOMAIN run.txn.at /\ txn.at[x] = run.txn.at[x]
                                     \/ x = i /\ txn.at[x] = p.at
        BY <4>1 DEF Changed, Put
      <4> QED
        BY <1>2, <1>3, <2>4, <4>2, <4>3 DEF TxnTrue
    <3> QED
      BY <3>1, <3>2
  <2>6. RunTrue(of, job[j])'
    BY <1>2, <2>2, <2>3, <2>5 DEF RunTrue, TxnTrue, CandidateTrue
  <2> QED
    BY <1>4, <2>2, <2>3, <2>6, TrueStep
<1>6. CASE Refuse(j, k, p)
  <2>1. PICK txn \in Txns : Refuses(j, k, txn)
    BY <1>1, <1>6, RefuseIs
  <2>2. /\ job' = [job EXCEPT ![j] = After(j, k, txn, run.pending, run.candidates, run.knows)]
        /\ txn.name = run.txn.name /\ txn.at = run.txn.at /\ txn.alias = run.txn.alias
        /\ txn.added = run.txn.added /\ of' = of
    BY <2>1 DEF Refuses
  <2>3. /\ job'[j].txn = txn /\ job'[j].candidates = run.candidates
        /\ \A h \in Running' : h \in Running /\ (h # j => job'[h] = job[h])
    BY <1>9, <2>2
  <2>4. RunTrue(of, job[j])'
    BY <1>2, <2>2, <2>3 DEF RunTrue, TxnTrue, CandidateTrue
  <2> QED
    BY <1>4, <2>2, <2>3, <2>4, TrueStep
<1>7. CASE Attach(j, k, p)
  <2>1. PICK txn \in Txns, i \in Ids, fresh \in SUBSET (Ids \X Names) :
          Attaches(j, k, p, i, fresh, txn)
    BY <1>1, <1>7, AttachIs
  <2>2. /\ job' = [job EXCEPT ![j] = After(j, k, txn, run.pending \cup fresh, run.candidates, run.knows)]
        /\ i = Resolve(Incoming(k, p), run.candidates).id /\ i # None
        /\ fresh \subseteq {<<i, p.name>>} /\ txn.alias = run.txn.alias \cup fresh
        /\ txn.added = Put(run.txn.added, k, [restaurant |-> i, payload |-> p])
        /\ txn.name = run.txn.name /\ txn.at = run.txn.at /\ of' = of
    BY <2>1 DEF Attaches
  <2>3. /\ job'[j].txn = txn /\ job'[j].candidates = run.candidates
        /\ \A h \in Running' : h \in Running /\ (h # j => job'[h] = job[h])
    BY <1>9, <2>2
  <2>4. of[i] = place
    BY <1>2, <2>2, SweepIsRight
  <2>5. \A a \in txn.alias : a[2] \in PlaceNames[of[a[1]]]
    BY <1>2, <1>3, <2>2, <2>4 DEF TxnTrue
  <2>6. \A x \in DOMAIN txn.added : of[txn.added[x].restaurant] = RealPlace[x]
    BY <1>2, <2>2, <2>4 DEF TxnTrue, Put
  <2>7. RunTrue(of, job[j])'
    BY <1>2, <2>2, <2>3, <2>5, <2>6 DEF RunTrue, TxnTrue, CandidateTrue
  <2> QED
    BY <1>4, <2>2, <2>3, <2>7, TrueStep
<1>8. CASE Create(j, k, p)
  <2> DEFINE i == NextId
  <2>1. PICK txn \in Txns, candidates \in SUBSET Read, knows \in SUBSET Ids :
          Makes(j, k, p, i, txn, candidates, knows)
    BY <1>1, <1>8, CreateIs
  <2> HIDE DEF i
  <2>2. /\ job' = [job EXCEPT ![j] = After(j, k, txn, {}, candidates, knows)]
        /\ txn.name = Put(run.txn.name, i, p.name) /\ txn.at = Put(run.txn.at, i, p.at)
        /\ txn.alias = run.txn.alias
        /\ txn.added = Put(run.txn.added, k, [restaurant |-> i, payload |-> p])
        /\ i \in Ids \ Existing /\ i \notin Mine(run)
        /\ of' = [of EXCEPT ![i] = place]
        /\ \A c \in candidates : KnownAfter(run, k, i, p, c)
    BY <2>1 DEF Makes
  <2>3. /\ job'[j].txn = txn /\ job'[j].candidates = candidates
        /\ \A h \in Running' : h \in Running /\ (h # j => job'[h] = job[h])
    BY <1>9, <2>2
  <2>4. /\ of'[i] = place /\ \A x : x # i => of'[x] = of[x]
        /\ \A x \in Existing : of'[x] = of[x]
    BY <1>2, <2>2
  <2>5. \A x \in Ids : name[x] # None => of'[x] = of[x]
    BY <2>4 DEF Existing
  <2>6. CatalogueTrue'
    BY <1>1, <1>2, <2>5, CatalogueTrueStays
  <2>7. TxnTrue(of', run.txn) /\ \A c \in run.candidates : CandidateTrue(of', c)
    <3>1. \A x \in Mine(run) : of'[x] = of[x]
      BY <2>2, <2>4
    <3> QED
      BY <1>2, <3>1, RunTrueStays DEF RunTrue
  <2>8. TxnTrue(of', txn)
    <3>1. \A x \in DOMAIN txn.name : txn.name[x] \in RecordNames(of'[x])
      BY <1>3, <2>2, <2>4, <2>7 DEF TxnTrue, Put
    <3>2. \A x \in DOMAIN txn.at : txn.at[x] \in RecordSpots(of'[x])
      BY <1>3, <2>2, <2>4, <2>7 DEF TxnTrue, Put
    <3>3. \A a \in txn.alias : a[2] \in PlaceNames[of'[a[1]]]
      BY <2>2, <2>7 DEF TxnTrue
    <3>4. \A x \in DOMAIN txn.added : of'[txn.added[x].restaurant] = RealPlace[x]
      BY <2>2, <2>4, <2>7 DEF TxnTrue, Put
    <3> QED
      BY <3>1, <3>2, <3>3, <3>4 DEF TxnTrue
  <2>9. ASSUME NEW c \in candidates PROVE CandidateTrue(of', c)
    <3>1. CASE c \in run.candidates
      BY <2>7, <3>1
    <3>2. CASE /\ c.id \in Mine(run) \cup {i}
               /\ c.id = i => c.name = p.name /\ c.at = p.at
               /\ c.id # i => c.name = Seen(run.txn).name[c.id] /\ c.at = Seen(run.txn).at[c.id]
               /\ c.shown \subseteq {c.name}
               /\ \A n \in c.aliases : <<c.id, n>> \in alias \cup run.txn.alias
               /\ \A x \in c.keys : \/ x = k /\ c.id = i
                                    \/ /\ x \in Rows /\ Seen(run.txn).source[x] # None
                                       /\ Seen(run.txn).source[x].restaurant = c.id
      <4> DEFINE view == Seen(run.txn)
      <4>1. /\ \A x \in Ids : /\ view.name[x] # None => view.name[x] \in RecordNames(of[x])
                              /\ view.at[x] # None => view.at[x] \in RecordSpots(of[x])
            /\ view.alias = alias \cup run.txn.alias
            /\ \A a \in view.alias : a[2] \in PlaceNames[of[a[1]]] /\ a[1] \in Mine(run)
            /\ \A x \in Rows : view.source[x] # None => /\ of[view.source[x].restaurant] = RealPlace[x]
                                                        /\ view.source[x].restaurant \in Mine(run)
        <5>1. /\ \A x \in Ids : /\ view.name[x] # None => view.name[x] \in RecordNames(of[x])
                                /\ view.at[x] # None => view.at[x] \in RecordSpots(of[x])
              /\ view.alias = alias \cup run.txn.alias
              /\ \A a \in view.alias : a[2] \in PlaceNames[of[a[1]]]
              /\ \A x \in Rows : view.source[x] # None => of[view.source[x].restaurant] = RealPlace[x]
          BY <1>2, ViewTrue
        <5>2. /\ \A a \in view.alias : a[1] \in Mine(run)
              /\ \A x \in Rows : view.source[x] # None => view.source[x].restaurant \in Mine(run)
          BY <1>2, ViewIs
        <5> HIDE DEF view
        <5> QED
          BY <5>1, <5>2
      <4>2. \A x \in Mine(run) : x \in Ids /\ view.name[x] # None /\ view.at[x] # None
        <5>1. \A x \in Ids : /\ x \in Mine(run) <=> view.name[x] # None
                             /\ view.name[x] = None <=> view.at[x] = None
          BY <1>2, ViewIs
        <5> HIDE DEF view
        <5> QED
          BY <5>1 DEF Mine
      <4>3. /\ c.id = i => c.name = p.name /\ c.at = p.at
            /\ c.id # i => c.id \in Mine(run) /\ c.name = view.name[c.id] /\ c.at = view.at[c.id]
            /\ \A n \in c.aliases : <<c.id, n>> \in view.alias
            /\ \A x \in c.keys : \/ x = k /\ c.id = i
                                 \/ /\ x \in Rows /\ view.source[x] # None
                                    /\ view.source[x].restaurant = c.id
        BY <3>2, <4>1
      <4> HIDE DEF view
      <4>4. c.name \in RecordNames(of'[c.id]) /\ c.at \in RecordSpots(of'[c.id])
        BY <1>3, <2>4, <4>1, <4>2, <4>3
      <4>5. c.name \in PlaceNames[of'[c.id]]
        BY <4>4, NamesAre
      <4>6. c.aliases \subseteq PlaceNames[of'[c.id]]
        <5> SUFFICES ASSUME NEW n \in c.aliases PROVE n \in PlaceNames[of'[c.id]]
          OBVIOUS
        <5>1. <<c.id, n>> \in view.alias
          BY <4>3
        <5>2. n \in PlaceNames[of[c.id]] /\ c.id \in Mine(run)
          BY <4>1, <5>1
        <5> QED
          BY <2>2, <2>4, <5>2
      <4>7. \A x \in c.keys : RealPlace[x] = of'[c.id]
        BY <2>2, <2>4, <4>1, <4>3
      <4> QED
        BY <3>2, <4>4, <4>5, <4>6, <4>7 DEF CandidateTrue
    <3> QED
      BY <2>2, <3>1, <3>2 DEF KnownAfter
  <2>10. RunTrue(of, job[j])'
    BY <2>3, <2>8, <2>9 DEF RunTrue
  <2> QED
    BY <2>3, <2>4, <2>6, <2>10, TrueStep
<1> QED
  BY <1>1, <1>5, <1>6, <1>7, <1>8

LEMMA CommitTrue == ASSUME IInv, AllTrue, NEW j \in Jobs, Commit(j) PROVE AllTrue'
<1> DEFINE view == Seen(job[j].txn)
<1>1. /\ j \in Running /\ job[j] \in TaskRuns /\ CatalogueTrue /\ RunTrue(of, job[j])
      /\ job \in [Jobs -> TaskRuns \cup {None}]
  BY RunIs DEF Commit, Running, AllTrue, IInv, Typed
<1>2. /\ name' = view.name /\ at' = view.at /\ alias' = view.alias /\ source' = view.source
      /\ review' = review /\ of' = of
      /\ job' = [job EXCEPT ![j] = IF @.todo = {} THEN None
                                   ELSE [@ EXCEPT !.txn = Nothing, !.pending = {}, !.count = 0]]
  BY DEF Commit
<1>3. /\ \A i \in Ids : /\ view.name[i] # None => view.name[i] \in RecordNames(of[i])
                        /\ view.at[i] # None => view.at[i] \in RecordSpots(of[i])
      /\ \A a \in view.alias : a[2] \in PlaceNames[of[a[1]]]
      /\ \A k \in Rows : view.source[k] # None => of[view.source[k].restaurant] = RealPlace[k]
  BY <1>1, ViewTrue
<1>4. \A i \in Ids : view.name[i] = None <=> view.at[i] = None
  BY <1>1, ViewIs
<1> HIDE DEF view
<1>5. CatalogueTrue'
  BY <1>1, <1>2, <1>3, <1>4 DEF CatalogueTrue
<1>6. ASSUME NEW h \in Running' PROVE (h \in Running /\ job'[h] = job[h]) \/ RunTrue(of', job'[h])
  <2>1. CASE h = j
    <3>1. job'[j] = [job[j] EXCEPT !.txn = Nothing, !.pending = {}, !.count = 0]
      BY <1>1, <1>2, <2>1 DEF Running
    <3>2. job'[j].txn = Nothing /\ job'[j].candidates = job[j].candidates
      BY <1>1, <3>1 DEF TaskRuns
    <3> QED
      BY <1>1, <1>2, <2>1, <3>2, NothingIs DEF RunTrue, TxnTrue
  <2>2. CASE h # j
    BY <1>1, <1>2, <2>2 DEF Running
  <2> QED
    BY <2>1, <2>2
<1> QED
  BY <1>2, <1>5, <1>6, TrueStep

LEMMA StoreTrue == ASSUME PlacesDiffer, IInv, AllTrue, NEW r \in DOMAIN Raws, Store(r) PROVE AllTrue'
<1> DEFINE run == job["reviews"]
           target == Target(r, run.candidates)
           place == RealPlace[r]
<1>1. /\ "reviews" \in Running /\ run \in TaskRuns /\ CatalogueTrue /\ RunTrue(of, run)
      /\ job \in [Jobs -> TaskRuns \cup {None}] /\ review \in [DOMAIN Raws -> Reviews \cup {None}]
  BY RunIs DEF Store, Running, Jobs, AllTrue, IInv, Typed
<1>2. /\ job' = [job EXCEPT !["reviews"].todo = @ \ {r}]
      /\ review' = IF target.id = None \/ review[r] # None THEN review
                   ELSE [review EXCEPT ![r] = [restaurant |-> target.id, duplicate |-> FALSE,
                                               done |-> FALSE]]
      /\ alias' = IF target.learns THEN alias \cup {<<target.id, Raws[r].hint>>} ELSE alias
      /\ UNCHANGED <<name, at, source, of>>
  BY DEF Store
<1>3. target.id # None => of[target.id] = place
  BY <1>1, TargetIsRight
<1>4. target.learns => target.id # None /\ Raws[r].hint \in PlaceNames[place]
  <2> DEFINE hinted == IF Raws[r].hint = None THEN Resolution(None, "new", 0)
                       ELSE Resolve([name |-> Raws[r].hint, at |-> Raws[r].at, key |-> None],
                                    run.candidates)
             accepted == hinted.id # None /\ hinted.confidence >= 900
  <2>1. target.learns => accepted
    BY DEF Target
  <2>2. accepted => target.id = hinted.id
    BY DEF Target
  <2>3. accepted => Raws[r].hint # None
    BY DEF Resolution
  <2>4. accepted => hinted.id # None
    OBVIOUS
  <2> HIDE DEF accepted, hinted, target
  <2>5. Raws[r].hint # None => Raws[r].hint \in PlaceNames[place]
    BY DEF PlacesDiffer
  <2> QED
    BY <2>1, <2>2, <2>3, <2>4, <2>5
<1> HIDE DEF target
<1>5. CatalogueTrue'
  <2>1. \A a \in alias' : a[2] \in PlaceNames[of[a[1]]]
    BY <1>1, <1>2, <1>3, <1>4 DEF CatalogueTrue
  <2>2. \A x \in DOMAIN Raws : review'[x] # None => of[review'[x].restaurant] = RealPlace[x]
    BY <1>1, <1>2, <1>3 DEF CatalogueTrue
  <2> QED
    BY <1>1, <1>2, <2>1, <2>2 DEF CatalogueTrue
<1>6. /\ \A h \in Running' : h # "reviews" => h \in Running /\ job'[h] = job[h]
      /\ job'["reviews"].txn = run.txn /\ job'["reviews"].candidates = run.candidates
  <2>1. job'["reviews"] = [run EXCEPT !.todo = @ \ {r}] /\ \A h \in Jobs : h # "reviews" => job'[h] = job[h]
    BY <1>1, <1>2 DEF Jobs
  <2> QED
    BY <1>1, <2>1 DEF Running, TaskRuns
<1>7. RunTrue(of', job'["reviews"])
  BY <1>1, <1>2, <1>6 DEF RunTrue
<1> QED
  BY <1>2, <1>5, <1>6, <1>7, TrueStep

LEMMA MergeTrue ==
  ASSUME PlacesDiffer, IInv, AllTrue, NEW target \in Ids, NEW duplicate \in Ids, Merge(target, duplicate)
  PROVE  AllTrue'
<1>1. /\ CatalogueTrue /\ source \in [Rows -> SourceRows \cup {None}]
      /\ review \in [DOMAIN Raws -> Reviews \cup {None}]
  BY DEF AllTrue, IInv, Typed
<1>2. /\ name[duplicate] # None /\ of[target] = of[duplicate]
      /\ alias' = alias \cup {<<target, name[duplicate]>>}
      /\ source' = [k \in Rows |-> IF source[k] # None /\ source[k].restaurant = duplicate
                                   THEN [source[k] EXCEPT !.restaurant = target] ELSE source[k]]
      /\ review' = [r \in DOMAIN Raws |->
                      IF review[r] # None /\ review[r].restaurant = duplicate
                      THEN [review[r] EXCEPT !.restaurant = target] ELSE review[r]]
      /\ UNCHANGED <<name, at, job, of>>
  BY DEF Merge
<1>3. name[duplicate] \in PlaceNames[of[target]]
  <2>1. name[duplicate] \in RecordNames(of[target])
    BY <1>1, <1>2 DEF CatalogueTrue
  <2> QED
    BY <2>1, NamesAre
<1>4. ASSUME NEW k \in Rows, source'[k] # None PROVE of[source'[k].restaurant] = RealPlace[k]
  <2>1. CASE source[k] # None /\ source[k].restaurant = duplicate
    <3>1. source'[k] = [source[k] EXCEPT !.restaurant = target] /\ source[k] \in SourceRows
      BY <1>1, <1>2, <2>1
    <3>2. source'[k].restaurant = target
      BY <3>1 DEF SourceRows
    <3> QED
      BY <1>1, <1>2, <2>1, <3>2 DEF CatalogueTrue
  <2>2. CASE ~(source[k] # None /\ source[k].restaurant = duplicate)
    BY <1>1, <1>2, <1>4, <2>2 DEF CatalogueTrue
  <2> QED
    BY <2>1, <2>2
<1>5. ASSUME NEW r \in DOMAIN Raws, review'[r] # None PROVE of[review'[r].restaurant] = RealPlace[r]
  <2>1. CASE review[r] # None /\ review[r].restaurant = duplicate
    <3>1. review'[r] = [review[r] EXCEPT !.restaurant = target] /\ review[r] \in Reviews
      BY <1>1, <1>2, <2>1
    <3>2. review'[r].restaurant = target
      BY <3>1 DEF Reviews
    <3> QED
      BY <1>1, <1>2, <2>1, <3>2 DEF CatalogueTrue
  <2>2. CASE ~(review[r] # None /\ review[r].restaurant = duplicate)
    BY <1>1, <1>2, <1>5, <2>2 DEF CatalogueTrue
  <2> QED
    BY <2>1, <2>2
<1>6. CatalogueTrue'
  BY <1>1, <1>2, <1>3, <1>4, <1>5 DEF CatalogueTrue
<1>7. \A h \in Running' : h \in Running /\ job'[h] = job[h]
  BY <1>2 DEF Running
<1> QED
  BY <1>2, <1>6, <1>7, TrueStep

LEMMA EnrichTrue ==
  ASSUME PlacesDiffer, IInv, AllTrue, NEW e \in DOMAIN Entities, Enrich(e)
  PROVE  AllTrue'
<1> DEFINE found == Match(e)
           place == RealPlace[e]
<1>1. /\ found # None
      /\ source' = [source EXCEPT ![e] = [restaurant |-> found, payload |-> None]]
      /\ alias' = alias \cup {<<found, n>> : n \in (Entities[e].names \cap Distinctive)
                                                     \ {name[found]}}
      /\ UNCHANGED <<name, at, review, job, of>>
  BY DEF Enrich, Match, Bare, Label
<1>2. CatalogueTrue /\ Typed /\ RowsFit /\ source \in [Rows -> SourceRows \cup {None}]
  BY DEF AllTrue, IInv, Typed
<1>3. /\ place \in Places /\ Entities[e].names \subseteq PlaceNames[place]
      /\ ToldApart(Entities[e].label, None, place) /\ Entities[e].label \in Names
  BY EvidenceAssumption DEF PlacesDiffer, Rows
<1>4. of[found] = place
  <2>1. /\ found \in Ids /\ name[found] # None
        /\ \E d \in Bare : /\ d.id = found /\ d.name = name[found] /\ d.at = at[found]
                           /\ d.aliases = {} /\ Tier(Label(e), d) # None
    BY <1>1, <1>2, MatchIs
  <2>2. PICK d \in Bare : /\ d.id = found /\ d.name = name[found] /\ d.at = at[found]
                          /\ d.aliases = {} /\ Tier(Label(e), d) # None
    BY <2>1
  <2>3. d \in Read
    BY <1>2, BareAre
  <2>4. name[found] \in RecordNames(of[found]) /\ at[found] \in RecordSpots(of[found])
    BY <1>2, <2>1 DEF CatalogueTrue
  <2>5. of[found] \in Places /\ name[found] \in PlaceNames[of[found]]
    BY <2>4, NamesAre
  <2>6. Label(e).name \in Names /\ Label(e).at = None /\ ToldApart(Label(e).name, Label(e).at, place)
    BY <1>3 DEF Label
  <2> HIDE DEF found
  <2>7. d.aliases \subseteq PlaceNames[of[found]]
    BY <2>2
  <2> QED
    BY <1>3, <2>2, <2>3, <2>4, <2>5, <2>6, <2>7, TierTells
<1> HIDE DEF found
<1>5. CatalogueTrue'
  <2>1. \A a \in alias' : a[2] \in PlaceNames[of[a[1]]]
    BY <1>1, <1>2, <1>3, <1>4 DEF CatalogueTrue
  <2>2. \A k \in Rows : source'[k] # None => of[source'[k].restaurant] = RealPlace[k]
    BY <1>1, <1>2, <1>4 DEF CatalogueTrue
  <2> QED
    BY <1>1, <1>2, <2>1, <2>2 DEF CatalogueTrue
<1>6. \A h \in Running' : h \in Running /\ job'[h] = job[h]
  BY <1>1 DEF Running
<1> QED
  BY <1>1, <1>5, <1>6, TrueStep

LEMMA StepTrue == PlacesDiffer /\ IInv /\ AllTrue /\ [Next]_vars => AllTrue'
<1> SUFFICES ASSUME PlacesDiffer, IInv, AllTrue, [Next]_vars PROVE AllTrue'
  OBVIOUS
<1>0. CatalogueTrue /\ job \in [Jobs -> TaskRuns \cup {None}]
  BY DEF AllTrue, IInv, Typed
<1>1. ASSUME UNCHANGED <<name, at, alias, source, of>>,
             \A r \in DOMAIN Raws :
               review'[r] # None => review[r] # None /\ review'[r].restaurant = review[r].restaurant,
             \A h \in Running' : (h \in Running /\ job'[h] = job[h]) \/ RunTrue(of', job'[h])
      PROVE  AllTrue'
  <2>1. CatalogueTrue'
    BY <1>0, <1>1 DEF CatalogueTrue
  <2> QED
    BY <1>1, <2>1, TrueStep
<1>2. CASE UNCHANGED vars
  BY <1>1, <1>2 DEF vars, catalogue, Running
<1>3. ASSUME NEW j \in Jobs, Begin(j) PROVE AllTrue'
  <2>1. UNCHANGED <<name, at, alias, source, review, of>>
    BY <1>3 DEF Begin, catalogue
  <2>2. /\ \A h \in Jobs \ {j} : job'[h] = job[h]
        /\ job'[j].txn = Nothing /\ job'[j].candidates = Candidates(Seen(Nothing))
    BY <1>0, <1>3 DEF Begin
  <2>3. RunTrue(of, job'[j])
    BY <1>0, <2>2, NothingIs, CandidatesTrue DEF RunTrue, TxnTrue
  <2>4. \A h \in Running' : (h \in Running /\ job'[h] = job[h]) \/ RunTrue(of', job'[h])
    BY <2>1, <2>2, <2>3 DEF Running
  <2> QED
    BY <1>1, <2>1, <2>4
<1>4. ASSUME NEW j \in Jobs, Commit(j) PROVE AllTrue'
  BY <1>4, CommitTrue
<1>5. ASSUME NEW j \in Jobs, Abort(j) PROVE AllTrue'
  <2>1. UNCHANGED <<name, at, alias, source, review, of>>
    BY <1>5 DEF Abort, catalogue
  <2>2. \A h \in Jobs : IF h = j THEN job'[h] = None ELSE job'[h] = job[h]
    BY <1>0, <1>5 DEF Abort
  <2> QED
    BY <1>1, <2>1, <2>2 DEF Running
<1>6. ASSUME NEW j \in {"osm", "google"}, NEW k \in Keys, NEW p \in Versions[k], Upsert(j, k, p)
      PROVE  AllTrue'
  BY <1>6, UpsertTrue
<1>7. ASSUME NEW r \in DOMAIN Raws, Store(r) PROVE AllTrue'
  BY <1>7, StoreTrue
<1>8. ASSUME NEW r \in DOMAIN Raws, Process(r) PROVE AllTrue'
  <2>1. /\ review[r] # None /\ UNCHANGED <<name, at, alias, source, job, of>>
        /\ review' = [review EXCEPT ![r].done = TRUE, ![r].duplicate = NearDuplicates(r) # {}]
    BY <1>8 DEF Process, catalogue
  <2>2. review \in [DOMAIN Raws -> Reviews \cup {None}] /\ review[r] \in Reviews
    BY <2>1 DEF IInv, Typed
  <2>3. \A x \in DOMAIN Raws :
          review'[x] # None => review[x] # None /\ review'[x].restaurant = review[x].restaurant
    BY <2>1, <2>2 DEF Reviews
  <2>4. \A h \in Running' : h \in Running /\ job'[h] = job[h]
    BY <2>1 DEF Running
  <2> QED
    BY <1>1, <2>1, <2>3, <2>4
<1>9. ASSUME NEW target \in Ids, NEW duplicate \in Ids, Merge(target, duplicate) PROVE AllTrue'
  BY <1>9, MergeTrue
<1>10. ASSUME NEW x \in Keys \cup DOMAIN Raws, ResolveConflict(x) PROVE AllTrue'
  BY <1>1, <1>10 DEF ResolveConflict, Running
<1>11. ASSUME NEW e \in DOMAIN Entities, Enrich(e) PROVE AllTrue'
  BY <1>11, EnrichTrue
<1> QED
  BY <1>2, <1>3, <1>4, <1>5, <1>6, <1>7, <1>8, <1>9, <1>10, <1>11 DEF Next

\* What is attached to a restaurant is about the place it was made for (upsert_place,
\* store_review, merge_restaurants, enrich_city_sync), for any number of records, in every world
\* whose places differ: a run that reads old candidates, a chunk rolled back or a merge never
\* make the resolver's next answer wrong.
THEOREM OnePlaceEachHolds == PlacesDiffer => (Spec => []OnePlaceEach)
<1> SUFFICES ASSUME PlacesDiffer PROVE Spec => []OnePlaceEach
  OBVIOUS
<1>1. Init => AllTrue
  BY DEF Init, AllTrue, CatalogueTrue, Running
<1>2. AllTrue => OnePlaceEach
  BY DEF AllTrue, CatalogueTrue, OnePlaceEach
<1>3. Spec => []IInv
  BY InitIInv, StepIInv, PTL DEF Spec
<1>4. IInv /\ AllTrue /\ [Next]_vars => AllTrue'
  BY StepTrue
<1> QED
  BY <1>1, <1>2, <1>3, <1>4, PTL DEF Spec

-----------------------------------------------------------------------------
(* Twins. *)

\* A record stands on a rung of every candidate for its place.
LEMMA AlikeIsFound ==
  ASSUME RecordsAlike, NEW p \in Places, NEW incoming, incoming.name \in RecordNames(p),
         incoming.at \in RecordSpots(p), incoming.at \in Int,
         NEW c \in Read, c.name \in RecordNames(p), c.at \in RecordSpots(p)
  PROVE  Tier(incoming, c) # None
<1>1. /\ NameSimilarity[<<incoming.name, c.name>>] >= MODERATE
      /\ Abs(incoming.at - c.at) <= EXACT_DISTANCE
  BY DEF RecordsAlike
<1>2. Abs(incoming.at - c.at) \in Int
  BY DEF Read, Abs
<1>3. Distance(incoming, c) = Abs(incoming.at - c.at) /\ Distance(incoming, c) # None
  BY <1>2, EvidenceAssumption DEF Distance
<1>4. Within(Distance(incoming, c), EXACT_DISTANCE)
  BY <1>1, <1>3 DEF Within
<1> QED
  BY <1>1, <1>4, ResolutionAssumption DEF Tier, Tiers

\* A sweep that has read every restaurant makes none for a place that has one.
LEMMA NewIsAlone ==
  ASSUME PlacesDiffer, RecordsAlike, IInv, AllTrue, NEW j \in Running,
         NEW k \in Keys, NEW p \in Versions[k],
         Resolve(Incoming(k, p), job[j].candidates).method = "new", NEW x \in job[j].knows
  PROVE  of[x] # RealPlace[k]
<1>1. job[j] \in TaskRuns /\ Fits(j, job[j]) /\ RunTrue(of, job[j])
  BY RunIs DEF AllTrue
<1>2. job[j].candidates \in SUBSET Read /\ \A c, d \in job[j].candidates : c.id = d.id => c = d
  BY <1>1 DEF TaskRuns, Fits
<1>3. PICK c \in job[j].candidates : c.id = x
  BY <1>1 DEF Fits
<1>4. c \in Read /\ c.name \in RecordNames(of[x]) /\ c.at \in RecordSpots(of[x])
  BY <1>1, <1>2, <1>3 DEF RunTrue, CandidateTrue
<1>5. /\ Incoming(k, p).name \in Names /\ Incoming(k, p).at \in Int
      /\ Incoming(k, p).name \in RecordNames(RealPlace[k])
      /\ Incoming(k, p).at \in RecordSpots(RealPlace[k]) /\ RealPlace[k] \in Places
  BY RecordIs, EvidenceAssumption DEF Incoming, Payloads
<1>6. PICK found : found = Resolve(Incoming(k, p), job[j].candidates)
  OBVIOUS
<1>7. Tier(Incoming(k, p), c) = None
  <2>1. found.method = "new" => \A d \in job[j].candidates : Tier(Incoming(k, p), d) = None
    BY <1>2, <1>5, <1>6, ResolveIs
  <2> QED
    BY <1>6, <2>1
<1> QED
  BY <1>4, <1>5, <1>7, AlikeIsFound

\* A step that makes no restaurant.
LEMMA TwinsSame ==
  ASSUME Twins, UNCHANGED <<of, blind>>, \A i \in Existing' : i \in Existing
  PROVE  Twins'
BY DEF Twins

LEMMA ExistingSame ==
  ASSUME \A i \in Ids : name'[i] # None => i \in Existing,
         \A h \in Running' : \/ h \in Running /\ job'[h].txn = job[h].txn
                             \/ DOMAIN job'[h].txn.name = {}
  PROVE  \A i \in Existing' : i \in Existing
BY DEF Existing

LEMMA StepTwins == PlacesDiffer /\ RecordsAlike /\ IInv /\ AllTrue /\ Twins /\ [Next]_vars => Twins'
<1> SUFFICES ASSUME PlacesDiffer, RecordsAlike, IInv, AllTrue, Twins, [Next]_vars PROVE Twins'
  OBVIOUS
<1>0. job \in [Jobs -> TaskRuns \cup {None}] /\ Typed
  BY DEF IInv, Typed
<1>1. ASSUME UNCHANGED <<name, of, blind>>,
             \A h \in Running' : \/ h \in Running /\ job'[h].txn = job[h].txn
                                 \/ DOMAIN job'[h].txn.name = {}
      PROVE  Twins'
  <2>1. \A i \in Ids : name'[i] # None => i \in Existing
    BY <1>1 DEF Existing
  <2> QED
    BY <1>1, <2>1, TwinsSame, ExistingSame
<1>2. CASE UNCHANGED vars
  BY <1>1, <1>2 DEF vars, catalogue, Running
<1>3. ASSUME NEW j \in Jobs, Begin(j) PROVE Twins'
  <2>1. UNCHANGED <<name, of, blind>>
    BY <1>3 DEF Begin, catalogue
  <2>2. /\ \A h \in Jobs \ {j} : job'[h] = job[h]
        /\ job'[j].txn = Nothing
    BY <1>0, <1>3 DEF Begin
  <2>3. \A h \in Running' : \/ h \in Running /\ job'[h].txn = job[h].txn
                            \/ DOMAIN job'[h].txn.name = {}
    BY <2>2, NothingIs DEF Running
  <2> QED
    BY <1>1, <2>1, <2>3
<1>4. ASSUME NEW j \in Jobs, Commit(j) PROVE Twins'
  <2> DEFINE txn == job[j].txn
  <2>1. /\ name' = Seen(txn).name /\ UNCHANGED <<of, blind>> /\ j \in Running
        /\ job' = [job EXCEPT ![j] = IF @.todo = {} THEN None
                                     ELSE [@ EXCEPT !.txn = Nothing, !.pending = {}, !.count = 0]]
    BY <1>4 DEF Commit, Running
  <2>2. txn \in Txns /\ job[j] \in TaskRuns
    BY <2>1, RunIs
  <2>3. \A i \in Ids : name'[i] = IF i \in DOMAIN txn.name THEN txn.name[i] ELSE name[i]
    BY <1>0, <2>1, <2>2, SeenIs
  <2>4. \A i \in Ids : name'[i] # None => i \in Existing
    BY <2>1, <2>3 DEF Existing
  <2>5. ASSUME NEW h \in Running'
        PROVE  \/ h \in Running /\ job'[h].txn = job[h].txn
               \/ DOMAIN job'[h].txn.name = {}
    <3>1. CASE h = j
      <4>1. job'[j] = [job[j] EXCEPT !.txn = Nothing, !.pending = {}, !.count = 0]
        BY <1>0, <2>1, <3>1 DEF Running
      <4>2. job'[j].txn = Nothing
        BY <2>2, <4>1 DEF TaskRuns
      <4> QED
        BY <3>1, <4>2, NothingIs
    <3>2. CASE h # j
      BY <1>0, <2>1, <3>2 DEF Running
    <3> QED
      BY <3>1, <3>2
  <2> QED
    BY <2>1, <2>4, <2>5, TwinsSame, ExistingSame
<1>5. ASSUME NEW j \in Jobs, Abort(j) PROVE Twins'
  <2>1. UNCHANGED <<name, of, blind>>
    BY <1>5 DEF Abort, catalogue
  <2>2. \A h \in Jobs : IF h = j THEN job'[h] = None ELSE job'[h] = job[h]
    BY <1>0, <1>5 DEF Abort
  <2> QED
    BY <1>1, <2>1, <2>2 DEF Running
<1>6. ASSUME NEW j \in {"osm", "google"}, NEW k \in Keys, NEW p \in Versions[k], Upsert(j, k, p)
      PROVE  Twins'
  <2> DEFINE run == job[j]
  <2>1. /\ p \in Payloads /\ run # None /\ k \in run.todo /\ name' = name
        /\ Refresh(j, k, p) \/ Refuse(j, k, p) \/ Attach(j, k, p) \/ Create(j, k, p)
    BY <1>6, EvidenceAssumption DEF Upsert, catalogue
  <2>2. j \in Running /\ j \in Jobs /\ run \in TaskRuns
    BY <2>1, SweepKnows
  <2>3. ASSUME NEW txn, NEW pending, NEW candidates, NEW knows,
               job' = [job EXCEPT ![j] = After(j, k, txn, pending, candidates, knows)]
        PROVE  job'[j].txn = txn /\ \A h \in Running' : h \in Running /\ (h # j => job'[h] = job[h])
    <3>1. job'[j] = After(j, k, txn, pending, candidates, knows) /\ \A h \in Jobs \ {j} : job'[h] = job[h]
      BY <1>0, <2>2, <2>3
    <3> QED
      BY <2>2, <3>1 DEF After, Running
  <2>4. ASSUME \A h \in Running' : h \in Running /\ (h # j => job'[h] = job[h]),
               \A i \in DOMAIN job'[j].txn.name : i \in DOMAIN run.txn.name \/ name[i] # None
        PROVE  \A i \in Existing' : i \in Existing
    BY <2>1, <2>4 DEF Existing
  <2>5. CASE Refresh(j, k, p)
    <3>1. PICK txn \in Txns : Refreshes(j, k, p, source[k].restaurant, txn)
      BY <2>1, <2>5, RefreshIs
    <3>2. /\ job' = [job EXCEPT ![j] = After(j, k, txn, run.pending, run.candidates, run.knows)]
          /\ name[source[k].restaurant] # None /\ UNCHANGED <<of, blind>>
          /\ \/ txn = run.txn
             \/ txn.name = Changed(run.txn.name, source[k].restaurant,
                                   Seen(run.txn).name[source[k].restaurant], p.name)
      BY <3>1 DEF Refreshes
    <3>3. \A i \in DOMAIN txn.name : i \in DOMAIN run.txn.name \/ name[i] # None
      BY <3>2 DEF Changed, Put
    <3> QED
      BY <2>3, <2>4, <3>2, <3>3, TwinsSame
  <2>6. CASE Refuse(j, k, p)
    <3>1. PICK txn \in Txns : Refuses(j, k, txn)
      BY <2>1, <2>6, RefuseIs
    <3>2. /\ job' = [job EXCEPT ![j] = After(j, k, txn, run.pending, run.candidates, run.knows)]
          /\ txn.name = run.txn.name /\ UNCHANGED <<of, blind>>
      BY <3>1 DEF Refuses
    <3> QED
      BY <2>3, <2>4, <3>2, TwinsSame
  <2>7. CASE Attach(j, k, p)
    <3>1. PICK txn \in Txns, i \in Ids, fresh \in SUBSET (Ids \X Names) :
            Attaches(j, k, p, i, fresh, txn)
      BY <2>1, <2>7, AttachIs
    <3>2. /\ job' = [job EXCEPT ![j] = After(j, k, txn, run.pending \cup fresh, run.candidates, run.knows)]
          /\ txn.name = run.txn.name /\ UNCHANGED <<of, blind>>
      BY <3>1 DEF Attaches
    <3> QED
      BY <2>3, <2>4, <3>2, TwinsSame
  <2>8. CASE Create(j, k, p)
    <3> DEFINE i == NextId
    <3>1. PICK txn \in Txns, candidates \in SUBSET Read, knows \in SUBSET Ids :
            Makes(j, k, p, i, txn, candidates, knows)
      BY <2>1, <2>8, CreateIs
    <3> HIDE DEF i
    <3>2. /\ job' = [job EXCEPT ![j] = After(j, k, txn, {}, candidates, knows)]
          /\ txn.name = Put(run.txn.name, i, p.name) /\ i \in Ids \ Existing
          /\ of' = [of EXCEPT ![i] = RealPlace[k]]
          /\ blind' = IF Existing \subseteq run.knows THEN blind \ {i} ELSE blind \cup {i}
          /\ Resolve(Incoming(k, p), run.candidates).method = "new"
      BY <3>1 DEF Makes
    <3>3. job'[j].txn = txn /\ \A h \in Running' : h \in Running /\ (h # j => job'[h] = job[h])
      BY <2>3, <3>2
    <3>4. ASSUME NEW x \in Existing' PROVE x \in Existing \/ x = i
      <4>1. DOMAIN txn.name = DOMAIN run.txn.name \cup {i}
        BY <3>2 DEF Put
      <4>2. x \in Ids /\ (name[x] # None \/ \E h \in Running' : x \in DOMAIN job'[h].txn.name)
        BY <2>1, <3>4 DEF Existing
      <4>3. CASE name[x] # None
        BY <4>2, <4>3 DEF Existing
      <4>4. ASSUME NEW h \in Running', x \in DOMAIN job'[h].txn.name PROVE x \in Existing \/ x = i
        <5>1. CASE h = j
          BY <2>1, <3>3, <4>1, <4>2, <4>4, <5>1 DEF Existing
        <5>2. CASE h # j
          BY <3>3, <4>2, <4>4, <5>2 DEF Existing
        <5> QED
          BY <5>1, <5>2
      <4> QED
        BY <4>2, <4>3, <4>4
    <3>5. /\ of'[i] = RealPlace[k] /\ \A x \in Existing : of'[x] = of[x] /\ (x \in blind => x \in blind')
      BY <1>0, <3>2 DEF Typed
    <3>6. ASSUME NEW x \in Existing, of[x] = RealPlace[k] PROVE i \in blind'
      <4>1. ~(Existing \subseteq run.knows)
        BY <2>2, <3>2, <3>6, NewIsAlone
      <4> QED
        BY <3>2, <4>1
    <3> SUFFICES ASSUME NEW x \in Existing', NEW y \in Existing', x # y, of'[x] = of'[y]
                 PROVE  x \in blind' \/ y \in blind'
      BY DEF Twins
    <3>7. CASE x \in Existing /\ y \in Existing
      BY <3>5, <3>7 DEF Twins
    <3>8. CASE x = i \/ y = i
      BY <3>4, <3>5, <3>6, <3>8
    <3> QED
      BY <3>4, <3>7, <3>8
  <2> QED
    BY <2>1, <2>5, <2>6, <2>7, <2>8
<1>7. ASSUME NEW r \in DOMAIN Raws, Store(r) PROVE Twins'
  <2>1. UNCHANGED <<name, of, blind>> /\ job["reviews"] # None
    BY <1>7 DEF Store
  <2>2. job' = [job EXCEPT !["reviews"].todo = @ \ {r}] /\ job["reviews"] \in TaskRuns
    BY <1>0, <1>7, <2>1 DEF Store, Jobs
  <2>3. \A h \in Jobs : /\ h # "reviews" => job'[h] = job[h]
                        /\ h = "reviews" => job'[h].txn = job[h].txn
    BY <1>0, <2>2 DEF TaskRuns
  <2> QED
    BY <1>1, <2>1, <2>3 DEF Running
<1>8. ASSUME NEW r \in DOMAIN Raws, Process(r) PROVE Twins'
  BY <1>1, <1>8 DEF Process, catalogue, Running
<1>9. ASSUME NEW target \in Ids, NEW duplicate \in Ids, Merge(target, duplicate) PROVE Twins'
  BY <1>1, <1>9 DEF Merge, Running
<1>10. ASSUME NEW x \in Keys \cup DOMAIN Raws, ResolveConflict(x) PROVE Twins'
  BY <1>1, <1>10 DEF ResolveConflict, Running
<1>11. ASSUME NEW e \in DOMAIN Entities, Enrich(e) PROVE Twins'
  <2>1. UNCHANGED <<name, job, of, blind>>
    BY <1>11 DEF Enrich
  <2> QED
    BY <1>1, <2>1 DEF Running
<1> QED
  BY <1>2, <1>3, <1>4, <1>5, <1>6, <1>7, <1>8, <1>9, <1>10, <1>11 DEF Next

\* A place has two open restaurants only if a sweep made one without having read the other
\* (discover_places, upsert_place, candidate_from_place), for any number of records and of runs,
\* in every world whose places differ and whose records of a place are alike: a sweep that has
\* read or made all there is never makes a twin.
THEOREM TwinsOnlyBlindHolds == PlacesDiffer /\ RecordsAlike => (Spec => []TwinsOnlyBlind)
<1> SUFFICES ASSUME PlacesDiffer, RecordsAlike PROVE Spec => []TwinsOnlyBlind
  OBVIOUS
<1>1. Init => AllTrue /\ Twins
  BY DEF Init, AllTrue, CatalogueTrue, Running, Twins, Existing
<1>2. IInv /\ Twins => TwinsOnlyBlind
  <2> SUFFICES ASSUME IInv, Twins PROVE TwinsOnlyBlind
    OBVIOUS
  <2>1. \A i \in Rowed(Seen(Nothing)) : i \in Existing
    BY SeenNothing DEF IInv, Existing
  <2> QED
    BY <2>1 DEF Twins, TwinsOnlyBlind
<1>3. Spec => []IInv
  BY InitIInv, StepIInv, PTL DEF Spec
<1>4. IInv /\ AllTrue /\ [Next]_vars => AllTrue'
  BY StepTrue
<1>5. IInv /\ AllTrue /\ Twins /\ [Next]_vars => Twins'
  BY StepTwins
<1> QED
  BY <1>1, <1>2, <1>3, <1>4, <1>5, PTL DEF Spec
=============================================================================
