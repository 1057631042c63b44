--------------------------- MODULE RankingProofs ---------------------------
(***************************************************************************)
(* Proofs about Ranking, for any dishes, restaurants, mentions, workers,   *)
(* thresholds and faults: type correctness, and that no committed score    *)
(* has moved away from its newest snapshot.                                *)
(***************************************************************************)
EXTENDS Ranking, FiniteSetTheorems, TLAPS

\* Uncommitted rows belong to one task.
Exclusive ==
  \A v, w \in Workers :
    (v # w /\ task[v].pc # "idle" /\ task[w].pc # "idle")
      => DOMAIN task[v].rows \cap DOMAIN task[w].rows = {}

\* A task about to commit brings a snapshot for each of its rows that is due one.
Pending ==
  \A w \in Workers : task[w].pc \in {"rollup", "commit"} =>
    /\ DOMAIN task[w].snaps \subseteq DOMAIN task[w].rows
    /\ \A p \in DOMAIN task[w].rows :
         IF p \in DOMAIN task[w].snaps THEN task[w].snaps[p] = Count(task[w].rows[p])
         ELSE ~SnapshotDue(task[w].rows[p], snapshot[p])

IInv == TypeOK /\ SnapshotsFollow /\ Exclusive /\ Pending

\* The number of mentions of a row is a number.
LEMMA CountNat == ASSUME NEW row \in Row PROVE Count(row) \in Nat
<1>1. row.seen \subseteq Mentions
  BY DEF Row
<1>2. IsFiniteSet(row.seen)
  BY <1>1, RankingAssumption, FS_Subset
<1>3. QED
  BY <1>2, FS_CardinalityType DEF Count

\* A snapshot just taken is not due again.
LEMMA NotDueAfter == ASSUME NEW row \in Row PROVE ~SnapshotDue(row, Count(row))
<1>1. Count(row) \in Nat
  BY CountNat
<1>2. MIN_MENTIONS \in Nat \ {0} /\ SNAPSHOT_DELTA \in Nat \ {0}
  BY RankingAssumption
<1>3. QED
  BY <1>1, <1>2 DEF SnapshotDue, Ranked

\* A row is none of the missing ones.
LEMMA NoRowIsNone == NoRow \notin Row /\ NoRow \notin Pairs
BY RankingAssumption DEF Row

\* What is read for a pair is a row.
LEMMA LoadedRow ==
  ASSUME NEW p \in Pairs
  PROVE  [seen |-> Evidence(p), prior |-> CityPrior(p[1]), old |-> FALSE] \in Row
BY DEF Row, Evidence, CityPrior

\* Committed rows with a task's own over them.
LEMMA OverTypes ==
  ASSUME NEW S, NEW T, NEW own, NEW committed \in [S -> T],
         \A k \in S \cap DOMAIN own : own[k] \in T
  PROVE  /\ Over(own, committed) \in [S -> T]
         /\ \A k \in S : Over(own, committed)[k] = IF k \in DOMAIN own THEN own[k]
                                                   ELSE committed[k]
BY DEF Over

\* The pairs of a sweep and of a request are pairs.
LEMMA SweptPairs == TypeOK => StalePairs \subseteq Pairs /\ \A m \in Mentions : PairOf(m) \in Pairs
<1>1. TypeOK => \A m \in Mentions : PairOf(m) \in Pairs
  BY DEF TypeOK, PairOf, Pairs
<1>2. QED
  BY <1>1 DEF StalePairs

\* The initial state satisfies the invariant.
LEMMA InvInit == Init => IInv
<1> SUFFICES ASSUME Init PROVE IInv
  OBVIOUS
<1>1. \A w \in Workers : task[w] = NoTask /\ task[w].pc = "idle"
  BY DEF Init, NoTask
<1>2. mention \in [Mentions -> [dish : Dishes, restaurant : Restaurants,
                                state : {"absent", "counted", "hidden"}]]
  <2>1. \A m \in Mentions : Said[m][1] \in Dishes /\ Said[m][2] \in Restaurants
    BY RankingAssumption DEF Pairs
  <2>2. QED
    BY <2>1 DEF Init
<1>3. TypeOK
  BY <1>1, <1>2, RankingAssumption DEF Init, TypeOK, TaskOK
<1>4. SnapshotsFollow
  BY DEF Init, SnapshotsFollow
<1>5. QED
  BY <1>1, <1>3, <1>4 DEF IInv, Exclusive, Pending

\* A task that takes its next step without touching what is committed, and changes its own rows
\* at most by one that no other task holds, keeps the invariant.
LEMMA OwnStep ==
  ASSUME IInv, NEW w \in Workers,
         UNCHANGED <<mention, closed, storedVars>>,
         changes' \in 0..MaxChanges, faults' \in 0..MaxFaults, queue' \subseteq Request,
         DOMAIN task' = Workers,
         \A v \in Workers : v # w => task'[v] = task[v],
         TaskOK(task'[w]),
         \A v \in Workers : (v # w /\ task'[w].pc # "idle" /\ task[v].pc # "idle")
            => DOMAIN task[v].rows \cap DOMAIN task'[w].rows = {},
         task'[w].pc \in {"rollup", "commit"} =>
            /\ DOMAIN task'[w].snaps \subseteq DOMAIN task'[w].rows
            /\ \A p \in DOMAIN task'[w].rows :
                 IF p \in DOMAIN task'[w].snaps
                 THEN task'[w].snaps[p] = Count(task'[w].rows[p])
                 ELSE ~SnapshotDue(task'[w].rows[p], snapshot[p])
  PROVE  IInv'
<1>1. TypeOK'
  BY DEF IInv, TypeOK, storedVars
<1>2. SnapshotsFollow'
  BY DEF IInv, SnapshotsFollow, SnapshotDue, Ranked, Count, storedVars
<1>3. Exclusive'
  BY DEF IInv, Exclusive
<1>4. snapshot' = snapshot
  BY DEF storedVars
<1>5. Pending'
  BY <1>4 DEF IInv, Pending, SnapshotDue, Ranked, Count
<1>6. QED
  BY <1>1, <1>2, <1>3, <1>5 DEF IInv

\* A task that ends leaves nothing behind.
LEMMA EndStep ==
  ASSUME IInv, NEW w \in Workers, UNCHANGED <<mention, closed, storedVars>>,
         changes' \in 0..MaxChanges, faults' \in 0..MaxFaults, queue' \subseteq Request,
         task' = [task EXCEPT ![w] = NoTask]
  PROVE  IInv'
<1>1. DOMAIN task' = Workers /\ \A v \in Workers : v # w => task'[v] = task[v]
  BY DEF IInv, TypeOK
<1>2. task'[w] = NoTask /\ task'[w].pc = "idle"
  BY DEF IInv, TypeOK, NoTask
<1>3. TaskOK(task'[w])
  BY <1>2 DEF TaskOK
<1>4. QED
  BY <1>1, <1>2, <1>3, OwnStep

\* A task that begins holds no row.
LEMMA BeginStep ==
  ASSUME IInv, NEW w \in Workers, UNCHANGED <<mention, closed, storedVars>>,
         changes' \in 0..MaxChanges, faults' = faults, queue' \subseteq Request,
         NEW request \in SUBSET Request, NEW pairs \in SUBSET Pairs, NEW nightly,
         Begin(w, request, pairs, nightly)
  PROVE  IInv'
<1>1. DOMAIN task' = Workers /\ \A v \in Workers : v # w => task'[v] = task[v]
  BY DEF IInv, TypeOK, Begin
<1>2. task'[w] = [pc |-> "next", request |-> request, nightly |-> nightly,
                  todo |-> pairs, at |-> NoRow, row |-> NoRow, exists |-> FALSE,
                  rows |-> Empty, dishes |-> Empty, snaps |-> Empty, badges |-> Empty,
                  restaurants |-> Empty]
  BY DEF IInv, TypeOK, Begin
<1>3. DOMAIN Empty = {}
  BY DEF Empty
<1>4. TaskOK(task'[w])
  BY <1>2, <1>3 DEF TaskOK, Partial
<1>5. task'[w].pc = "next" /\ DOMAIN task'[w].rows = {}
  BY <1>2, <1>3
<1>6. QED
  BY <1>1, <1>4, <1>5, OwnStep DEF IInv, TypeOK

\* Reading the evidence of the next pair.
LEMMA LoadStep == ASSUME IInv, NEW w \in Workers, Load(w) PROVE IInv'
<1>1. PICK p \in task[w].todo :
        task' = [task EXCEPT ![w].pc = "write", ![w].todo = @ \ {p}, ![w].at = p,
                             ![w].row = [seen |-> Evidence(p), prior |-> CityPrior(p[1]),
                                         old |-> FALSE]]
  BY DEF Load
<1>2. TaskOK(task[w]) /\ task[w].pc = "next" /\ task[w] # NoTask
  <2>1. task[w].pc = "next"
    BY DEF Load
  <2>2. TaskOK(task[w])
    BY DEF IInv, TypeOK
  <2>3. QED
    BY <2>1, <2>2 DEF NoTask
<1>3. p \in Pairs
  BY <1>1, <1>2 DEF TaskOK
<1>4. [seen |-> Evidence(p), prior |-> CityPrior(p[1]), old |-> FALSE] \in Row
  BY <1>3, LoadedRow
<1>5. DOMAIN task' = Workers /\ \A v \in Workers : v # w => task'[v] = task[v]
  BY <1>1 DEF IInv, TypeOK
<1>6. /\ DOMAIN task'[w] = DOMAIN task[w]
      /\ task'[w].pc = "write" /\ task'[w].todo = task[w].todo \ {p} /\ task'[w].at = p
      /\ task'[w].row = [seen |-> Evidence(p), prior |-> CityPrior(p[1]), old |-> FALSE]
      /\ task'[w].request = task[w].request /\ task'[w].rows = task[w].rows
      /\ task'[w].snaps = task[w].snaps
  BY <1>1, <1>2 DEF IInv, TypeOK, TaskOK
<1>7. TaskOK(task'[w])
  BY <1>2, <1>3, <1>4, <1>6 DEF TaskOK
<1>8. \A v \in Workers : (v # w /\ task'[w].pc # "idle" /\ task[v].pc # "idle")
         => DOMAIN task[v].rows \cap DOMAIN task'[w].rows = {}
  BY <1>2, <1>6 DEF IInv, Exclusive
<1>9. QED
  BY <1>5, <1>6, <1>7, <1>8, OwnStep
     DEF Load, RunUnchanged, IInv, TypeOK, evidenceVars, storedVars

\* Waiting for another task's row.
LEMMA WaitStep == ASSUME IInv, NEW w \in Workers, Wait(w) PROVE IInv'
<1>1. task' = [task EXCEPT ![w].pc = "wait", ![w].exists = score[task[w].at] # NoRow]
  BY DEF Wait
<1>2. TaskOK(task[w]) /\ task[w].pc = "write" /\ task[w] # NoTask
  <2>1. task[w].pc = "write"
    BY DEF Wait
  <2>2. TaskOK(task[w])
    BY DEF IInv, TypeOK
  <2>3. QED
    BY <2>1, <2>2 DEF NoTask
<1>3. DOMAIN task' = Workers /\ \A v \in Workers : v # w => task'[v] = task[v]
  BY <1>1 DEF IInv, TypeOK
<1>4. /\ DOMAIN task'[w] = DOMAIN task[w]
      /\ task'[w].pc = "wait" /\ task'[w].todo = task[w].todo /\ task'[w].at = task[w].at
      /\ task'[w].row = task[w].row
      /\ task'[w].request = task[w].request /\ task'[w].rows = task[w].rows
      /\ task'[w].snaps = task[w].snaps
  BY <1>1, <1>2 DEF IInv, TypeOK, TaskOK
<1>5. TaskOK(task'[w])
  BY <1>2, <1>4 DEF TaskOK
<1>6. \A v \in Workers : (v # w /\ task'[w].pc # "idle" /\ task[v].pc # "idle")
         => DOMAIN task[v].rows \cap DOMAIN task'[w].rows = {}
  BY <1>2, <1>4 DEF IInv, Exclusive
<1>7. QED
  BY <1>3, <1>4, <1>5, <1>6, OwnStep
     DEF Wait, RunUnchanged, IInv, TypeOK, evidenceVars, storedVars

\* Writing a row nobody else holds.
LEMMA WriteStep == ASSUME IInv, NEW w \in Workers, Write(w) PROVE IInv'
<1> DEFINE own == [p \in DOMAIN task[w].rows \cup {task[w].at} |->
                     IF p = task[w].at THEN task[w].row ELSE task[w].rows[p]]
<1>1. task' = [task EXCEPT ![w].pc = "next", ![w].rows = own,
                           ![w].at = NoRow, ![w].row = NoRow, ![w].exists = FALSE]
  BY DEF Write
<1>2. TaskOK(task[w]) /\ task[w].pc \in {"write", "wait"} /\ task[w] # NoTask
  <2>1. task[w].pc \in {"write", "wait"}
    BY DEF Write
  <2>2. TaskOK(task[w])
    BY DEF IInv, TypeOK
  <2>3. QED
    BY <2>1, <2>2 DEF NoTask
<1>3. task[w].at \in Pairs /\ task[w].row \in Row
  BY <1>2 DEF TaskOK
<1>4. DOMAIN task' = Workers /\ \A v \in Workers : v # w => task'[v] = task[v]
  BY <1>1 DEF IInv, TypeOK
<1>5. /\ DOMAIN task'[w] = DOMAIN task[w]
      /\ task'[w].pc = "next" /\ task'[w].todo = task[w].todo
      /\ task'[w].request = task[w].request /\ task'[w].rows = own
      /\ task'[w].snaps = task[w].snaps
  <2> HIDE DEF own
  <2>1. QED
    BY <1>1, <1>2 DEF IInv, TypeOK, TaskOK
<1>6. Partial(own, Pairs, Row)
  BY <1>2, <1>3 DEF TaskOK, Partial
<1>7. TaskOK(task'[w])
  BY <1>2, <1>5, <1>6 DEF TaskOK
<1>8. \A v \in Workers : (v # w /\ task'[w].pc # "idle" /\ task[v].pc # "idle")
         => DOMAIN task[v].rows \cap DOMAIN task'[w].rows = {}
  <2> SUFFICES ASSUME NEW v \in Workers, v # w, task[v].pc # "idle"
               PROVE  DOMAIN task[v].rows \cap DOMAIN own = {}
    BY <1>5
  <2>1. task[w].at \notin DOMAIN task[v].rows
    BY <1>2 DEF Write, Blocked, Taken
  <2>2. DOMAIN task[v].rows \cap DOMAIN task[w].rows = {}
    BY <1>2 DEF IInv, Exclusive
  <2>3. QED
    BY <2>1, <2>2
<1>9. QED
  BY <1>4, <1>5, <1>7, <1>8, OwnStep
     DEF Write, RunUnchanged, IInv, TypeOK, evidenceVars, storedVars

\* Taking the snapshots that are due: the task's own rows are the only candidates.
LEMMA RefreshStep == ASSUME IInv, NEW w \in Workers, RefreshDishes(w) PROVE IInv'
<1> DEFINE due == Due(w)
           taken == [p \in Due(w) |-> Count(View(w)[p])]
<1>1. PICK chosen \in [Pairs -> BOOLEAN] :
        task' = [task EXCEPT ![w].pc = "rollup",
                             ![w].dishes = [d \in Touched(w) |-> DishAggregate(View(w), d)],
                             ![w].snaps = taken, ![w].badges = BadgeChanges(w, chosen)]
  BY DEF RefreshDishes
<1>2. TaskOK(task[w]) /\ task[w].pc = "next" /\ task[w] # NoTask
  <2>1. task[w].pc = "next"
    BY DEF RefreshDishes
  <2>2. TaskOK(task[w])
    BY DEF IInv, TypeOK
  <2>3. QED
    BY <2>1, <2>2 DEF NoTask
<1>3. DOMAIN task' = Workers /\ \A v \in Workers : v # w => task'[v] = task[v]
  BY <1>1 DEF IInv, TypeOK
<1>4. /\ DOMAIN task'[w] = DOMAIN task[w]
      /\ task'[w].pc = "rollup" /\ task'[w].todo = task[w].todo
      /\ task'[w].request = task[w].request /\ task'[w].rows = task[w].rows
      /\ task'[w].snaps = taken
  <2> HIDE DEF taken
  <2>1. QED
    BY <1>1, <1>2 DEF IInv, TypeOK, TaskOK
<1>5. /\ DOMAIN task[w].rows \subseteq Pairs
      /\ \A p \in DOMAIN task[w].rows : task[w].rows[p] \in Row
  BY <1>2 DEF TaskOK, Partial
<1>6. \A p \in Pairs : View(w)[p] = IF p \in DOMAIN task[w].rows THEN task[w].rows[p]
                                   ELSE score[p]
  BY DEF View, Over, IInv, TypeOK
<1>7. due \subseteq Pairs /\ \A p \in due : View(w)[p] \in Row
  BY <1>5, <1>6 DEF IInv, TypeOK, Due
<1>8. due \subseteq DOMAIN task[w].rows
  BY <1>6, <1>7 DEF IInv, SnapshotsFollow, Due
<1>9. Partial(taken, Pairs, Nat)
  <2>1. \A p \in due : Count(View(w)[p]) \in Nat
    BY <1>7, CountNat
  <2>2. QED
    BY <1>7, <2>1 DEF Partial
<1>10. TaskOK(task'[w])
  <2> HIDE DEF taken
  <2>1. QED
    BY <1>2, <1>4, <1>9 DEF TaskOK
<1>11. \A p \in DOMAIN task[w].rows :
         IF p \in due THEN taken[p] = Count(task[w].rows[p])
         ELSE ~SnapshotDue(task[w].rows[p], snapshot[p])
  <2> TAKE p \in DOMAIN task[w].rows
  <2>1. View(w)[p] = task[w].rows[p] /\ task[w].rows[p] \in Row /\ p \in Pairs
    BY <1>5, <1>6
  <2>2. task[w].rows[p] # NoRow /\ p[1] \in Touched(w)
    BY <2>1, NoRowIsNone DEF Touched
  <2>3. QED
    BY <2>1, <2>2 DEF Due
<1>12. \A v \in Workers : (v # w /\ task'[w].pc # "idle" /\ task[v].pc # "idle")
         => DOMAIN task[v].rows \cap DOMAIN task'[w].rows = {}
  BY <1>2, <1>4 DEF IInv, Exclusive
<1>13. DOMAIN taken = due
  OBVIOUS
<1>14. QED
  <2> HIDE DEF taken, due
  <2>1. /\ DOMAIN task'[w].snaps \subseteq DOMAIN task'[w].rows
        /\ \A p \in DOMAIN task'[w].rows :
             IF p \in DOMAIN task'[w].snaps THEN task'[w].snaps[p] = Count(task'[w].rows[p])
             ELSE ~SnapshotDue(task'[w].rows[p], snapshot[p])
    BY <1>4, <1>8, <1>11, <1>13
  <2>2. QED
    BY <1>3, <1>10, <1>12, <2>1, OwnStep
       DEF RefreshDishes, RunUnchanged, IInv, TypeOK, evidenceVars, storedVars

\* Computing the rollups.
LEMMA RollupStep == ASSUME IInv, NEW w \in Workers, RecomputeRestaurants(w) PROVE IInv'
<1> DEFINE rolled == [r \in {p[2] : p \in DOMAIN task[w].rows} |->
                        RestaurantRollup(View(w), r, Signature(r))]
<1>1. task' = [task EXCEPT ![w].pc = "commit", ![w].restaurants = rolled]
  BY DEF RecomputeRestaurants
<1> HIDE DEF rolled
<1>2. TaskOK(task[w]) /\ task[w].pc = "rollup" /\ task[w] # NoTask
  <2>1. task[w].pc = "rollup"
    BY DEF RecomputeRestaurants
  <2>2. TaskOK(task[w])
    BY DEF IInv, TypeOK
  <2>3. QED
    BY <2>1, <2>2 DEF NoTask
<1>3. DOMAIN task' = Workers /\ \A v \in Workers : v # w => task'[v] = task[v]
  BY <1>1 DEF IInv, TypeOK
<1>4. /\ DOMAIN task'[w] = DOMAIN task[w]
      /\ task'[w].pc = "commit" /\ task'[w].todo = task[w].todo
      /\ task'[w].request = task[w].request /\ task'[w].rows = task[w].rows
      /\ task'[w].snaps = task[w].snaps
  BY <1>1, <1>2 DEF IInv, TypeOK, TaskOK
<1>5. TaskOK(task'[w])
  BY <1>2, <1>4 DEF TaskOK
<1>6. \A v \in Workers : (v # w /\ task'[w].pc # "idle" /\ task[v].pc # "idle")
         => DOMAIN task[v].rows \cap DOMAIN task'[w].rows = {}
  BY <1>2, <1>4 DEF IInv, Exclusive
<1>7. /\ DOMAIN task'[w].snaps \subseteq DOMAIN task'[w].rows
      /\ \A p \in DOMAIN task'[w].rows :
           IF p \in DOMAIN task'[w].snaps THEN task'[w].snaps[p] = Count(task'[w].rows[p])
           ELSE ~SnapshotDue(task'[w].rows[p], snapshot[p])
  BY <1>2, <1>4 DEF IInv, Pending
<1>8. QED
  BY <1>3, <1>5, <1>6, <1>7, OwnStep
     DEF RecomputeRestaurants, RunUnchanged, IInv, TypeOK, evidenceVars, storedVars

\* The commit brings rows and their snapshots together; other tasks' rows are other pairs'.
LEMMA CommitStep == ASSUME IInv, NEW w \in Workers, Commit(w) PROVE IInv'
<1> DEFINE t == task[w]
<1>1. /\ t.pc = "commit"
      /\ score' = Over(t.rows, score) /\ snapshot' = Over(t.snaps, snapshot)
      /\ task' = [task EXCEPT ![w] = NoTask]
      /\ UNCHANGED <<mention, closed, changes, queue, faults>>
  BY DEF Commit, evidenceVars
<1>2. TaskOK(t) /\ t # NoTask
  BY <1>1 DEF IInv, TypeOK, NoTask
<1>3. Partial(t.rows, Pairs, Row) /\ Partial(t.snaps, Pairs, Nat)
  BY <1>2 DEF TaskOK
<1>4. /\ score' \in [Pairs -> Row \cup {NoRow}]
      /\ \A p \in Pairs : score'[p] = IF p \in DOMAIN t.rows THEN t.rows[p] ELSE score[p]
  BY <1>1, <1>3 DEF Over, Partial, IInv, TypeOK
<1>5. /\ snapshot' \in [Pairs -> Nat]
      /\ \A p \in Pairs : snapshot'[p] = IF p \in DOMAIN t.snaps THEN t.snaps[p]
                                         ELSE snapshot[p]
  BY <1>1, <1>3 DEF Over, Partial, IInv, TypeOK
<1>6. /\ DOMAIN t.snaps \subseteq DOMAIN t.rows
      /\ \A p \in DOMAIN t.rows : IF p \in DOMAIN t.snaps THEN t.snaps[p] = Count(t.rows[p])
                                  ELSE ~SnapshotDue(t.rows[p], snapshot[p])
  BY <1>1 DEF IInv, Pending
<1>7. DOMAIN task' = Workers /\ task'[w] = NoTask /\ \A v \in Workers : v # w => task'[v] = task[v]
  BY <1>1 DEF IInv, TypeOK
<1>8. task'[w].pc = "idle" /\ TaskOK(task'[w])
  BY <1>7 DEF NoTask, TaskOK
<1>9. TypeOK'
  <2>1. best' \subseteq Pairs
    BY DEF Commit
  <2>2. QED
    BY <1>1, <1>4, <1>5, <1>7, <1>8, <2>1 DEF IInv, TypeOK
<1>10. \A p \in Pairs : score'[p] # NoRow => ~SnapshotDue(score'[p], snapshot'[p])
  <2> SUFFICES ASSUME NEW p \in Pairs, score'[p] # NoRow
               PROVE  ~SnapshotDue(score'[p], snapshot'[p])
    OBVIOUS
  <2>1. CASE p \in DOMAIN t.snaps
    <3>1. p \in DOMAIN t.rows /\ snapshot'[p] = Count(t.rows[p]) /\ score'[p] = t.rows[p]
      BY <1>4, <1>5, <1>6, <2>1
    <3>2. t.rows[p] \in Row
      BY <1>3, <3>1 DEF Partial
    <3>3. QED
      BY <3>1, <3>2, NotDueAfter
  <2>2. CASE p \notin DOMAIN t.snaps
    BY <1>4, <1>5, <1>6, <2>2 DEF IInv, SnapshotsFollow
  <2>3. QED
    BY <2>1, <2>2
<1>11. SnapshotsFollow'
  BY <1>10 DEF SnapshotsFollow, SnapshotDue, Ranked, Count
<1>12. Exclusive'
  BY <1>7, <1>8 DEF IInv, Exclusive
<1>13. Pending'
  <2> SUFFICES ASSUME NEW v \in Workers, task'[v].pc \in {"rollup", "commit"}
               PROVE  /\ DOMAIN task'[v].snaps \subseteq DOMAIN task'[v].rows
                      /\ \A p \in DOMAIN task'[v].rows :
                           IF p \in DOMAIN task'[v].snaps
                           THEN task'[v].snaps[p] = Count(task'[v].rows[p])
                           ELSE ~SnapshotDue(task'[v].rows[p], snapshot'[p])
    BY DEF Pending, SnapshotDue, Ranked, Count
  <2>1. v # w /\ task'[v] = task[v]
    BY <1>7, <1>8
  <2>2. DOMAIN task[v].rows \cap DOMAIN t.rows = {}
    BY <1>1, <2>1 DEF IInv, Exclusive
  <2>3. DOMAIN task[v].rows \subseteq Pairs
    BY <2>1 DEF IInv, TypeOK, TaskOK, NoTask, Partial
  <2>4. \A p \in DOMAIN task[v].rows : snapshot'[p] = snapshot[p]
    BY <1>5, <1>6, <2>2, <2>3
  <2>5. QED
    BY <2>1, <2>4 DEF IInv, Pending
<1>14. QED
  BY <1>9, <1>11, <1>12, <1>13 DEF IInv

\* A change of the evidence that leaves scores, snapshots and tasks keeps the invariant.
LEMMA EvidenceStep ==
  ASSUME IInv,
         mention' \in [Mentions -> [dish : Dishes, restaurant : Restaurants,
                                    state : {"absent", "counted", "hidden"}]],
         closed' \subseteq Restaurants, queue' \subseteq Request,
         score' \in [Pairs -> Row \cup {NoRow}],
         \A p \in Pairs : /\ score'[p] = NoRow <=> (score'[p] = NoRow \/ score[p] = NoRow)
                          /\ score'[p] # NoRow => score'[p].seen = score[p].seen,
         best' \subseteq best, changes' \in 0..MaxChanges, UNCHANGED <<snapshot, task, faults>>
  PROVE  IInv'
<1>1. TypeOK'
  BY DEF IInv, TypeOK
<1>2. SnapshotsFollow'
  BY DEF IInv, SnapshotsFollow, SnapshotDue, Ranked, Count
<1>3. Exclusive' /\ Pending'
  BY DEF IInv, Exclusive, Pending, SnapshotDue, Ranked, Count
<1>4. QED
  BY <1>1, <1>2, <1>3 DEF IInv

\* Every step keeps the invariant.
LEMMA InvStep == IInv /\ [Next]_vars => IInv'
<1> SUFFICES ASSUME IInv, [Next]_vars PROVE IInv'
  OBVIOUS
<1>0. /\ TypeOK /\ \A m \in Mentions : PairOf(m) \in Pairs
      /\ changes \in 0..MaxChanges /\ faults \in 0..MaxFaults /\ MaxChanges \in Nat
      /\ MaxFaults \in Nat
  BY SweptPairs, RankingAssumption DEF IInv, TypeOK
<1>1. Change => changes' \in 0..MaxChanges
  BY <1>0 DEF Change
<1>2. ASSUME NEW m \in Mentions, Publish(m) \/ Decide(m) PROVE IInv'
  <2>1. queue' \subseteq Request
    BY <1>0, <1>2 DEF Publish, Decide, Send, Request, TypeOK
  <2>2. mention' \in [Mentions -> [dish : Dishes, restaurant : Restaurants,
                                   state : {"absent", "counted", "hidden"}]]
    BY <1>0, <1>2 DEF Publish, Decide, TypeOK
  <2>3. changes' \in 0..MaxChanges /\ UNCHANGED <<closed, score, best, snapshot, task, faults>>
    BY <1>1, <1>2 DEF Publish, Decide, storedVars
  <2>4. QED
    BY <1>0, <2>1, <2>2, <2>3, EvidenceStep DEF TypeOK
<1>3. ASSUME NEW m \in Mentions, NEW d \in Dishes, Remap(m, d) PROVE IInv'
  <2>1. mention' \in [Mentions -> [dish : Dishes, restaurant : Restaurants,
                                   state : {"absent", "counted", "hidden"}]]
    BY <1>0, <1>3 DEF Remap, TypeOK
  <2>2. changes' \in 0..MaxChanges /\ UNCHANGED <<closed, score, best, snapshot, queue, task, faults>>
    BY <1>1, <1>3 DEF Remap, storedVars
  <2>3. QED
    BY <1>0, <2>1, <2>2, EvidenceStep DEF TypeOK
<1>4. ASSUME NEW target \in Restaurants, NEW duplicate \in Restaurants, Merge(target, duplicate)
      PROVE  IInv'
  <2> DEFINE cleared == {p \in Pairs : p[2] \in {target, duplicate}}
  <2>1. score' = [p \in Pairs |-> IF p \in cleared THEN NoRow ELSE score[p]]
    BY <1>4 DEF Merge
  <2>2. score' \in [Pairs -> Row \cup {NoRow}]
    BY <1>0, <2>1 DEF TypeOK
  <2>3. mention' \in [Mentions -> [dish : Dishes, restaurant : Restaurants,
                                   state : {"absent", "counted", "hidden"}]]
    BY <1>0, <1>4 DEF Merge, TypeOK
  <2>4. closed' \subseteq Restaurants /\ best' \subseteq best
    BY <1>0, <1>4 DEF Merge, TypeOK
  <2>5. changes' \in 0..MaxChanges /\ UNCHANGED <<snapshot, queue, task, faults>>
    BY <1>1, <1>4 DEF Merge
  <2>6. QED
    BY <1>0, <2>1, <2>2, <2>3, <2>4, <2>5, EvidenceStep DEF TypeOK
<1>5. ASSUME NEW p \in Pairs, Age(p) PROVE IInv'
  <2>1. score[p] \in Row
    BY <1>0, <1>5 DEF Age, TypeOK
  <2>2. [score[p] EXCEPT !.old = TRUE] \in Row
    BY <2>1 DEF Row
  <2>3. score' = [score EXCEPT ![p] = [score[p] EXCEPT !.old = TRUE]]
    BY <1>5 DEF Age
  <2>4. score' \in [Pairs -> Row \cup {NoRow}]
    BY <1>0, <2>2, <2>3 DEF TypeOK
  <2>5. score'[p] = [score[p] EXCEPT !.old = TRUE] /\ score'[p].seen = score[p].seen
    BY <1>0, <2>1, <2>3 DEF TypeOK, Row
  <2>6. \A q \in Pairs : q # p => score'[q] = score[q]
    BY <1>0, <2>3 DEF TypeOK
  <2>7. UNCHANGED <<mention, closed, changes, best, snapshot, queue, task, faults>>
    BY <1>5 DEF Age, evidenceVars
  <2>8. \A q \in Pairs : /\ score'[q] = NoRow <=> (score'[q] = NoRow \/ score[q] = NoRow)
                         /\ score'[q] # NoRow => score'[q].seen = score[q].seen
    BY <1>5, <2>5, <2>6 DEF Age
  <2>9. QED
    BY <1>0, <2>4, <2>7, <2>8, EvidenceStep DEF TypeOK
<1>6. ASSUME NEW w \in Workers, StartRequested(w) PROVE IInv'
  <2>1. PICK request \in queue :
          /\ queue' = queue \ {request}
          /\ Begin(w, {request}, IF request.kind = "pairs" THEN {request.of}
                                 ELSE PairsForReview(request.of), FALSE)
    BY <1>6 DEF StartRequested
  <2>2. request \in Request
    BY <1>0, <2>1 DEF TypeOK
  <2>3. (IF request.kind = "pairs" THEN {request.of} ELSE PairsForReview(request.of))
           \in SUBSET Pairs
    BY <1>0, <2>2 DEF Request, PairsForReview
  <2>4. QED
    BY <1>0, <1>6, <2>1, <2>2, <2>3, BeginStep DEF StartRequested, TypeOK, evidenceVars
<1>7. ASSUME NEW w \in Workers, NightlySweep(w) PROVE IInv'
  BY <1>0, <1>7, SweptPairs, BeginStep DEF NightlySweep, RunUnchanged, TypeOK, evidenceVars
<1>8. ASSUME NEW w \in Workers, ForceRecompute(w) PROVE IInv'
  <2>1. PICK pairs \in {StalePairs, {p \in Pairs : score[p] # NoRow}} :
          Begin(w, {}, pairs, FALSE)
    BY <1>8 DEF ForceRecompute
  <2>2. pairs \in SUBSET Pairs
    BY <1>0, SweptPairs
  <2>3. QED
    BY <1>0, <1>1, <1>8, <2>1, <2>2, BeginStep DEF ForceRecompute, TypeOK
<1>9. ASSUME NEW w \in Workers, Run(w) PROVE IInv'
  <2>1. CASE Fail(w)
    BY <1>0, <2>1, EndStep DEF Fail, RunUnchanged, TypeOK, evidenceVars
  <2>2. QED
    BY <1>9, <2>1, LoadStep, WaitStep, WriteStep, RefreshStep, RollupStep, CommitStep DEF Run
<1>10. ASSUME NEW w \in Workers, Die(w) PROVE IInv'
  <2>1. task[w].request \subseteq Request
    BY <1>0, <1>10 DEF Die, TypeOK, TaskOK, NoTask
  <2>2. faults' \in 0..MaxFaults
    BY <1>0, <1>10 DEF Die
  <2>3. queue' \subseteq Request
    BY <1>0, <1>10, <2>1 DEF Die, TypeOK
  <2>4. UNCHANGED <<mention, closed, changes, storedVars>> /\ task' = [task EXCEPT ![w] = NoTask]
    BY <1>10 DEF Die, evidenceVars
  <2>5. QED
    BY <1>0, <2>2, <2>3, <2>4, EndStep
<1>11. CASE UNCHANGED vars
  BY <1>11 DEF IInv, TypeOK, SnapshotsFollow, Exclusive, Pending, SnapshotDue, Ranked, Count,
               vars, evidenceVars, storedVars
<1>12. QED
  BY <1>2, <1>3, <1>4, <1>5, <1>6, <1>7, <1>8, <1>9, <1>10, <1>11 DEF Next

\* Type correctness of ranking_service's rows and tasks, for every instance.
THEOREM TypeCorrect == Spec => []TypeOK
<1>1. IInv => TypeOK
  BY DEF IInv
<1>2. QED
  BY <1>1, InvInit, InvStep, PTL DEF Spec

\* No committed score of dish_scores has moved away from its newest ranking snapshot, whatever
\* tasks overlap, fail or die and whatever is merged, remapped or hidden meanwhile.
THEOREM SnapshotsFollowHolds == Spec => []SnapshotsFollow
<1>1. IInv => SnapshotsFollow
  BY DEF IInv
<1>2. QED
  BY <1>1, InvInit, InvStep, PTL DEF Spec
=============================================================================
