------------------------------- MODULE Ranking -------------------------------
(***************************************************************************)
(* The ranking service: the Celery tasks that rebuild dish scores, dish    *)
(* counters and restaurant rollups from the stored evidence, the admin and *)
(* moderation changes that move evidence under them.  A task is one READ   *)
(* COMMITTED transaction: it reads a pair's evidence, locks and writes the *)
(* pair's row, and goes to the next pair; other tasks see its rows only    *)
(* after the commit.  A score is represented by the evidence it was        *)
(* computed from.                                                          *)
(***************************************************************************)
EXTENDS Naturals, FiniteSets, FiniteSetsExt

CONSTANTS
  Dishes, Restaurants, Workers,
  Mentions,          \* dish mentions, each of a review of its own
  Said,              \* [Mentions -> Dishes \X Restaurants], as first stored
  NoRow,             \* no such row
  MIN_MENTIONS,      \* settings.ranking_min_mentions
  PRIOR_MIN,         \* mentions of a dish in the city that make a prior
  SNAPSHOT_DELTA,    \* settings.snapshot_mention_delta
  SIGNATURE_MIN,     \* mentions that make a signature dish
  MaxChanges,        \* changes of the evidence and full passes, bounds the model
  MaxFaults          \* failed or killed tasks, bounds the model

Pairs == Dishes \X Restaurants

ASSUME RankingAssumption ==
  /\ Said \in [Mentions -> Dishes \X Restaurants]
  /\ {MIN_MENTIONS, PRIOR_MIN, SNAPSHOT_DELTA, SIGNATURE_MIN} \subseteq Nat \ {0}
  /\ {MaxChanges, MaxFaults} \subseteq Nat
  /\ IsFiniteSet(Mentions)
  /\ NoRow \notin Pairs
  /\ NoRow \notin [seen : SUBSET Mentions, prior : SUBSET Mentions, old : BOOLEAN]

VARIABLES
  mention,    \* the review's mention: its pair, and absent until the analysis stores it,
              \* then counted or hidden with its review
  closed,     \* restaurants.is_closed
  score,      \* dish_scores
  best,       \* pairs with dish_scores.is_best_value, for the badges given among peers
  aggregate,  \* dishes.mention_count, dishes.restaurant_count
  rollup,     \* restaurant_scores and restaurant_dishes.is_signature
  snapshot,   \* mention count of the pair's newest ranking_snapshots row, 0 for none
  queue,      \* requests waiting in the broker
  task,       \* what each worker process is doing
  changes, faults

evidenceVars == <<mention, closed, changes>>
storedVars == <<score, best, aggregate, rollup, snapshot>>
vars == <<evidenceVars, storedVars, queue, task, faults>>

Row == [seen : SUBSET Mentions, prior : SUBSET Mentions, old : BOOLEAN]
Request == [kind : {"pairs"}, of : Pairs] \cup [kind : {"review"}, of : Mentions]
NoTask == [pc |-> "idle"]
Rollup == [scores : SUBSET (Dishes \X SUBSET Mentions), evidence : Nat,
           signature : SUBSET Dishes]

-----------------------------------------------------------------------------
(* Evidence and what is computed from it. *)

PairOf(m) == <<mention[m].dish, mention[m].restaurant>>

\* Only published, non-duplicate reviews count toward a score.
Evidence(p) == {m \in Mentions : mention[m].state = "counted" /\ PairOf(m) = p}

\* Mutant of CityPrior: names the dish's pairs instead of its mentions.
CityPriorPairs(d) == {PairOf(m) : m \in {n \in Mentions : mention[n].dish = d}}

\* The shrinkage target: every mention of the dish in the city, unless they are too few.
CityPrior(d) ==
  LET all == {m \in Mentions : mention[m].state = "counted" /\ mention[m].dish = d}
  IN  IF Cardinality(all) < PRIOR_MIN THEN {} ELSE all

Count(row) == Cardinality(row.seen)
Ranked(row) == Count(row) >= MIN_MENTIONS

\* The rows of a table of scores that concern a dish, or a restaurant.
RowsOfDish(view, d) == {p \in Pairs : p[1] = d /\ view[p] # NoRow}
RowsOfRestaurant(view, r) == {p \in Pairs : p[2] = r /\ view[p] # NoRow}
Mentioned(view, ps) == MapThenSumSet(LAMBDA p : Count(view[p]), ps)

DishAggregate(view, d) ==
  LET ps == RowsOfDish(view, d)
  IN  [mentions |-> Mentioned(view, ps),
       restaurants |-> Cardinality({p \in ps : Ranked(view[p])})]

\* A badge goes to one of the ranked rows that no ranked peer beats; the order of equals is the
\* database's.  Here a row is better with more mentions.
Winners(view, d) ==
  LET ranked == {p \in RowsOfDish(view, d) : Ranked(view[p])}
  IN  {p \in ranked : \A q \in ranked : Count(view[q]) <= Count(view[p])}

\* Flags of dishes without a score row are not touched, and none is when nothing is mentioned.
RestaurantRollup(view, r, was) ==
  LET ps == RowsOfRestaurant(view, r)
      total == Mentioned(view, ps)
      share(p) == /\ 4 * Count(view[p]) >= total
                  /\ Count(view[p]) >= SIGNATURE_MIN
  IN  [scores |-> {<<p[1], view[p].seen>> : p \in {q \in ps : Ranked(view[q])}},
       evidence |-> total,
       signature |-> IF total = 0 THEN was
                     ELSE {p[1] : p \in {q \in ps : share(q)}}
                          \cup (was \ {p[1] : p \in ps})]

\* A snapshot is due for a ranked row that moved far enough from the last one.
SnapshotDue(row, last) ==
  /\ Ranked(row)
  /\ \/ last = 0
     \/ Count(row) >= last + SNAPSHOT_DELTA
     \/ last >= Count(row) + SNAPSHOT_DELTA

\* Mutant of StalePairs: only scores there are, not the pairs that lack one.
StaleRows == {p \in Pairs : score[p] # NoRow /\ score[p].old}

\* The nightly sweep: scores older than a day, and mentioned pairs without a score.
StalePairs == {p \in Pairs : score[p] # NoRow /\ score[p].old}
                \cup {PairOf(m) : m \in {n \in Mentions : /\ mention[n].state # "absent"
                                                       /\ score[PairOf(n)] = NoRow}}

PairsForReview(m) == {PairOf(m)}

-----------------------------------------------------------------------------
Init ==
  /\ \E stored \in SUBSET Mentions :
       mention = [m \in Mentions |-> [dish |-> Said[m][1], restaurant |-> Said[m][2],
                                      state |-> IF m \in stored THEN "counted" ELSE "absent"]]
  /\ closed = {}
  /\ score = [p \in Pairs |-> NoRow]
  /\ best = {}
  /\ aggregate = [d \in Dishes |-> [mentions |-> 0, restaurants |-> 0]]
  /\ rollup = [r \in Restaurants |-> NoRow]
  /\ snapshot = [p \in Pairs |-> 0]
  /\ queue = {}
  /\ task = [w \in Workers |-> NoTask]
  /\ changes = 0
  /\ faults = 0

-----------------------------------------------------------------------------
(* Changes of the evidence, and the requests they send. *)

Change == changes < MaxChanges /\ changes' = changes + 1

\* .delay() may fail, and a process may die between its commit and the call.
Send(request) == queue' = queue \/ queue' = queue \cup {request}

\* The AI stores a published review's mention and reports the pair it touched.
Publish(m) ==
  /\ Change
  /\ mention[m].state = "absent"
  /\ mention' = [mention EXCEPT ![m].state = "counted"]
  /\ Send([kind |-> "pairs", of |-> PairOf(m)])
  /\ UNCHANGED <<closed, storedVars, task, faults>>

\* A moderator's decision publishes or hides the review, and requests it by review.
Decide(m) ==
  /\ Change
  /\ mention[m].state # "absent"
  /\ mention' = [mention EXCEPT ![m].state = IF @ = "counted" THEN "hidden" ELSE "counted"]
  /\ Send([kind |-> "review", of |-> m])
  /\ UNCHANGED <<closed, storedVars, task, faults>>

\* Correcting a dish attribution by hand requests nothing.
Remap(m, d) ==
  /\ Change
  /\ mention[m].state # "absent"
  /\ d # mention[m].dish
  /\ mention' = [mention EXCEPT ![m].dish = d]
  /\ UNCHANGED <<closed, storedVars, queue, task, faults>>

\* A row is locked by the task that updated it until the task commits.
Locked(p) == /\ score[p] # NoRow
             /\ \E w \in Workers : /\ task[w].pc # "idle"
                                  /\ p \in DOMAIN task[w].rows \cup DOMAIN task[w].badges

\* Merging repoints the evidence and deletes the dish scores of both, waiting for locked rows.
Merge(target, duplicate) ==
  LET cleared == {p \in Pairs : p[2] \in {target, duplicate}}
  IN  /\ Change
      /\ target # duplicate
      /\ \A p \in cleared : ~Locked(p)
      /\ mention' = [m \in Mentions |->
                       IF mention[m].restaurant = duplicate
                       THEN [mention[m] EXCEPT !.restaurant = target] ELSE mention[m]]
      /\ score' = [p \in Pairs |-> IF p \in cleared THEN NoRow ELSE score[p]]
      /\ best' = best \ cleared
      /\ closed' = closed \cup {duplicate}
      /\ UNCHANGED <<aggregate, rollup, snapshot, queue, task, faults>>

\* A score row becomes older than a day.
Age(p) ==
  /\ score[p] # NoRow /\ ~score[p].old
  /\ score' = [score EXCEPT ![p].old = TRUE]
  /\ UNCHANGED <<evidenceVars, best, aggregate, rollup, snapshot, queue, task, faults>>

-----------------------------------------------------------------------------
(* The recompute tasks. *)

Empty == [p \in {} |-> NoRow]

Begin(w, request, pairs, nightly) ==
  task' = [task EXCEPT ![w] = [pc |-> "next", request |-> request, nightly |-> nightly,
                               todo |-> pairs, at |-> NoRow, row |-> NoRow, exists |-> FALSE,
                               rows |-> Empty, dishes |-> Empty, snaps |-> Empty,
                               badges |-> Empty, restaurants |-> Empty]]

RunUnchanged == UNCHANGED <<evidenceVars, storedVars, queue, faults>>

\* recompute_pairs_task and recompute_for_review: the pairs of the request.
StartRequested(w) ==
  /\ task[w].pc = "idle"
  /\ \E request \in queue :
       /\ queue' = queue \ {request}
       /\ Begin(w, {request}, IF request.kind = "pairs" THEN {request.of}
                              ELSE PairsForReview(request.of), FALSE)
  /\ UNCHANGED <<evidenceVars, storedVars, faults>>

\* The beat starts a sweep every 24 hours and a task's time limit is shorter: one at a time.
NightlySweep(w) ==
  /\ task[w].pc = "idle"
  /\ \A v \in Workers : task[v].pc # "idle" => ~task[v].nightly
  /\ StalePairs # {}
  /\ Begin(w, {}, StalePairs, TRUE)
  /\ RunUnchanged

\* An administrator's request: a sweep, or a full pass over the rows there are.
ForceRecompute(w) ==
  /\ task[w].pc = "idle"
  /\ Change
  /\ \E pairs \in {StalePairs, {p \in Pairs : score[p] # NoRow}} :
       pairs # {} /\ Begin(w, {}, pairs, FALSE)
  /\ UNCHANGED <<mention, closed, storedVars, queue, faults>>

\* A task's own rows over the committed ones.
Over(own, committed) == [k \in DOMAIN committed |-> IF k \in DOMAIN own THEN own[k] ELSE committed[k]]
View(w) == Over(task[w].rows, score)

\* Reads the evidence of the next pair.
Load(w) ==
  /\ task[w].pc = "next"
  /\ \E p \in task[w].todo :
       task' = [task EXCEPT ![w].pc = "write", ![w].todo = @ \ {p}, ![w].at = p,
                            ![w].row = [seen |-> Evidence(p), prior |-> CityPrior(p[1]),
                                        old |-> FALSE]]
  /\ RunUnchanged

\* Another task's uncommitted row for the pair makes the flush wait.
Taken(w, v) ==
  /\ w # v
  /\ task[w].pc \in {"write", "wait"}
  /\ task[v].pc # "idle"
  /\ task[w].at \in DOMAIN task[v].rows \cup DOMAIN task[v].badges

Blocked(w) == \E v \in Workers : Taken(w, v)

\* The statement that waits was decided by the row found: an UPDATE, or an INSERT.
Wait(w) ==
  /\ task[w].pc = "write"
  /\ Blocked(w)
  /\ task' = [task EXCEPT ![w].pc = "wait", ![w].exists = score[task[w].at] # NoRow]
  /\ RunUnchanged

\* The row was inserted, or deleted, while the statement waited: it raises.
Raises(w) == task[w].pc = "wait" /\ task[w].exists # (score[task[w].at] # NoRow)

Write(w) ==
  /\ task[w].pc \in {"write", "wait"}
  /\ ~Blocked(w)
  /\ ~Raises(w)
  /\ task' = [task EXCEPT ![w].pc = "next",
                          ![w].rows = [p \in DOMAIN @ \cup {task[w].at} |->
                                         IF p = task[w].at THEN task[w].row ELSE @[p]],
                          ![w].at = NoRow, ![w].row = NoRow, ![w].exists = FALSE]
  /\ RunUnchanged

Touched(w) == {p[1] : p \in DOMAIN task[w].rows}

\* Mutant of Due: looks for due snapshots among the committed rows, not its own.
DueCommitted(w) == {p \in Pairs : /\ p[1] \in Touched(w)
                                  /\ score[p] # NoRow
                                  /\ SnapshotDue(score[p], snapshot[p])}

\* The rows of the dishes touched, as the task sees them, that need a snapshot.
Due(w) == {p \in Pairs : /\ p[1] \in Touched(w)
                         /\ View(w)[p] # NoRow
                         /\ SnapshotDue(View(w)[p], snapshot[p])}

\* Mutant of BadgeChanges: gives badges and takes none back.
BadgesGiven(w, chosen) ==
  [p \in {q \in Pairs : q \notin best /\ chosen[q] } |-> TRUE]

\* The flags that differ from those read: an UPDATE names no others.
BadgeChanges(w, chosen) ==
  [p \in {q \in Pairs : /\ q[1] \in Touched(w) /\ View(w)[q] # NoRow
                        /\ (q \in best) # chosen[q]} |-> chosen[p]]

\* After the pairs: the badges, counters and snapshots of every dish touched, from the rows
\* seen now.
RefreshDishes(w) ==
  /\ task[w].pc = "next"
  /\ task[w].todo = {}
  /\ \E chosen \in [Pairs -> BOOLEAN] :
       /\ \A p \in Pairs : chosen[p] => p \in Winners(View(w), p[1]) /\ p[1] \in Touched(w)
       /\ \A d \in Touched(w) :
            Winners(View(w), d) # {} => Cardinality({p \in Pairs : p[1] = d /\ chosen[p]}) = 1
       /\ task' = [task EXCEPT ![w].pc = "rollup",
                               ![w].dishes = [d \in Touched(w) |-> DishAggregate(View(w), d)],
                               ![w].snaps = [p \in Due(w) |-> Count(View(w)[p])],
                               ![w].badges = BadgeChanges(w, chosen)]
  /\ RunUnchanged

Signature(r) == IF rollup[r] = NoRow THEN {} ELSE rollup[r].signature

\* Then the rollup of every restaurant touched.
RecomputeRestaurants(w) ==
  /\ task[w].pc = "rollup"
  /\ task' = [task EXCEPT ![w].pc = "commit",
                          ![w].restaurants = [r \in {p[2] : p \in DOMAIN task[w].rows} |->
                                                RestaurantRollup(View(w), r, Signature(r))]]
  /\ RunUnchanged

\* Commits; the pages are invalidated after it (module PageCache).
Commit(w) ==
  LET t == task[w]
  IN  /\ t.pc = "commit"
      /\ score' = Over(t.rows, score)
      /\ best' = {p \in Pairs : IF p \in DOMAIN t.badges THEN t.badges[p] ELSE p \in best}
      /\ aggregate' = Over(t.dishes, aggregate)
      /\ rollup' = Over(t.restaurants, rollup)
      /\ snapshot' = Over(t.snaps, snapshot)
      /\ task' = [task EXCEPT ![w] = NoTask]
      /\ UNCHANGED <<evidenceVars, queue, faults>>

\* Two tasks that hold rows of one dish or of one restaurant also update its counters.
Contend(w, v) ==
  /\ v # w
  /\ task[v].pc # "idle"
  /\ \E p \in DOMAIN task[w].rows, q \in DOMAIN task[v].rows : p[1] = q[1] \/ p[2] = q[2]

\* A flush that raises, or the victim of a deadlock over rows of scores or counters: rolled
\* back, and the request is gone.
Fail(w) ==
  /\ \/ task[w].pc = "wait" /\ ~Blocked(w) /\ Raises(w)
     \/ task[w].pc = "wait" /\ \E v \in Workers : Taken(w, v) /\ Taken(v, w)
     \/ /\ (task[w].pc = "rollup") \/ (task[w].pc = "next" /\ task[w].todo = {})
        /\ \E v \in Workers : Contend(w, v)
  /\ task' = [task EXCEPT ![w] = NoTask]
  /\ RunUnchanged

\* The worker process dies: rolled back, and the broker delivers the request again.
Die(w) ==
  /\ task[w].pc # "idle"
  /\ faults < MaxFaults
  /\ faults' = faults + 1
  /\ queue' = queue \cup task[w].request
  /\ task' = [task EXCEPT ![w] = NoTask]
  /\ UNCHANGED <<evidenceVars, storedVars>>


Run(w) == Load(w) \/ Wait(w) \/ Write(w) \/ RefreshDishes(w) \/ RecomputeRestaurants(w)
          \/ Commit(w) \/ Fail(w)

Next ==
  \/ \E m \in Mentions : Publish(m) \/ Decide(m)
  \/ \E m \in Mentions, d \in Dishes : Remap(m, d)
  \/ \E target, duplicate \in Restaurants : Merge(target, duplicate)
  \/ \E p \in Pairs : Age(p)
  \/ \E w \in Workers : \/ StartRequested(w) \/ NightlySweep(w) \/ ForceRecompute(w)
                        \/ Run(w) \/ Die(w)

\* A started task goes on, and a released lock goes to the task that waits for it; the beat
\* starts the sweep every night; time passes.  Requests need not be taken.
Fairness ==
  /\ \A w \in Workers : SF_vars(Run(w))
  /\ SF_vars(\E w \in Workers : NightlySweep(w))
  /\ \A p \in Pairs : WF_vars(Age(p))

Spec == Init /\ [][Next]_vars
FairSpec == Spec /\ Fairness

-----------------------------------------------------------------------------
(* Properties. *)

Partial(f, S, T) == DOMAIN f \subseteq S /\ \A x \in DOMAIN f : f[x] \in T

TaskOK(t) ==
  \/ t = NoTask
  \/ /\ DOMAIN t = {"pc", "request", "nightly", "todo", "at", "row", "exists", "rows", "dishes",
                   "snaps", "badges", "restaurants"}
     /\ t.pc \in {"next", "write", "wait", "rollup", "commit"}
     /\ t.request \subseteq Request
     /\ t.todo \subseteq Pairs
     /\ t.pc \in {"write", "wait"} => t.at \in Pairs /\ t.row \in Row
     /\ Partial(t.rows, Pairs, Row)
     /\ Partial(t.snaps, Pairs, Nat)

\* Types: score rows hold mentions and age, tasks hold rows, counts and requests of known pairs
\* (recompute_pairs, models/score.py).
TypeOK ==
  /\ mention \in [Mentions -> [dish : Dishes, restaurant : Restaurants,
                              state : {"absent", "counted", "hidden"}]]
  /\ closed \subseteq Restaurants
  /\ score \in [Pairs -> Row \cup {NoRow}]
  /\ best \subseteq Pairs
  /\ snapshot \in [Pairs -> Nat]
  /\ queue \subseteq Request
  /\ DOMAIN task = Workers /\ \A w \in Workers : TaskOK(task[w])
  /\ changes \in 0..MaxChanges /\ faults \in 0..MaxFaults

Exact(p) ==
  /\ Evidence(p) # {} => score[p] # NoRow
  /\ score[p] # NoRow => score[p].seen = Evidence(p) /\ score[p].prior = CityPrior(p[1])

\* Once evidence stops changing, every pair's score becomes and stays the score of its evidence
\* and of the city's, whatever requests were lost, tasks died or overlapped, and older evidence
\* was written last: stale_pairs and the nightly sweep repair it.
ScoresConverge == <>[](\A p \in Pairs : Exact(p))

SummedUp ==
  /\ \A d \in Dishes : RowsOfDish(score, d) # {} =>
       /\ aggregate[d] = DishAggregate(score, d)
       /\ LET badged == {p \in best : p[1] = d}
          IN  /\ badged \subseteq Winners(score, d)
              /\ Cardinality(badged) = IF Winners(score, d) = {} THEN 0 ELSE 1
  /\ \A r \in Restaurants \ closed :
       RowsOfRestaurant(score, r) # {} =>
         rollup[r] # NoRow /\ rollup[r] = RestaurantRollup(score, r, rollup[r].signature)

\* The counters and the one badge of each dish and the rollups of open restaurants, each computed
\* by a task that sees only its own uncommitted rows, end as those of the committed scores
\* (_refresh_dish_aggregate, recompute_restaurant_score).
SummariesConverge == <>[]SummedUp

\* No committed score has moved further from its newest snapshot than snapshot_mention_delta:
\* scores and snapshots are written in one transaction, and no other task's rows come in between
\* (_persist_ranking_snapshots).
SnapshotsFollow ==
  \A p \in Pairs : score[p] # NoRow => ~SnapshotDue(score[p], snapshot[p])

=============================================================================
