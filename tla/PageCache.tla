------------------------------ MODULE PageCache ------------------------------
(***************************************************************************)
(* The read-through cache of the public pages (core/cache.py) beside the   *)
(* ranking tasks that change what the pages show (workers/ranking_tasks.py)*)
(* A reader looks a page up, produces it from the database on a miss and   *)
(* stores it; a task commits, and only then drops the pages prefix by      *)
(* prefix.  Nothing orders the two.                                        *)
(***************************************************************************)
EXTENDS Naturals

CONSTANTS
  Dishes,      \* their slugs: dish d has the page d
  Search, Trending,   \* the pages about all dishes
  SlugsFrom,   \* [Dishes -> SUBSET Dishes]: the slugs that begin with that of d, d's own included
  Readers, Tasks,
  None,
  MaxChanges   \* bound on the commits

VARIABLES
  version,   \* version[p]: how often what page p shows has changed
  cached,    \* the pages Redis holds
  saw,       \* saw[p]: the version the stored page p shows
  excused,   \* stored pages that an invalidation could not reach (history)
  reading,   \* reading[r]: the page reader r has read the database for and not yet stored, or None
  seen,      \* seen[r]: the version of it that r has read
  late,      \* the readers that an invalidation of their page has passed meanwhile (history)
  todo,      \* todo[t]: the prefixes task t has still to drop after its commit
  changes

vars == <<version, cached, saw, excused, reading, seen, late, todo, changes>>

Shared == {Search, Trending}
Pages == Dishes \cup Shared

\* The shared pages are two and no dish's, and a slug begins with itself.
CacheAssumption ==
  /\ Search \notin Dishes /\ Trending \notin Dishes /\ Search # Trending
  /\ None \notin Pages
  /\ SlugsFrom \in [Dishes -> SUBSET Dishes] /\ \A d \in Dishes : d \in SlugsFrom[d]

\* The pages under a prefix: `dish:momo' is one of `dish:momo-soup:detail' too.
Under(p) == IF p \in Dishes THEN SlugsFrom[p] ELSE {p}

\* The order of _invalidate: the dishes' prefixes, then the search, then the trends.
First(prefixes) ==
  {p \in prefixes : /\ p = Search => prefixes \cap Dishes = {}
                    /\ p = Trending => prefixes = {Trending}}

Init ==
  /\ version = [p \in Pages |-> 0] /\ changes = 0
  /\ cached = {} /\ saw = [p \in Pages |-> 0] /\ excused = {}
  /\ reading = [r \in Readers |-> None] /\ seen = [r \in Readers |-> 0] /\ late = {}
  /\ todo = [t \in Tasks |-> {}]

\* What is not stored has no version and needs no excuse.
Forget(S) ==
  /\ cached' = cached \ S
  /\ saw' = [p \in Pages |-> IF p \in S THEN 0 ELSE saw[p]]

\* Readers of the pages in S learn nothing of an invalidation that passes or is left out.
Overtake(S) == late' = late \cup {r \in Readers : reading[r] \in S}

-----------------------------------------------------------------------------
(* cached(): look up, produce, store. *)

\* A miss, or a lookup that failed: the producer reads the database.
Produce(r, p) ==
  /\ reading[r] = None
  /\ reading' = [reading EXCEPT ![r] = p]
  /\ seen' = [seen EXCEPT ![r] = version[p]]
  /\ UNCHANGED <<version, cached, saw, excused, late, todo, changes>>

Store(r) ==
  /\ reading[r] # None
  /\ cached' = cached \cup {reading[r]}
  /\ saw' = [saw EXCEPT ![reading[r]] = seen[r]]
  /\ excused' = IF r \in late THEN excused \cup {reading[r]} ELSE excused \ {reading[r]}
  /\ reading' = [reading EXCEPT ![r] = None] /\ seen' = [seen EXCEPT ![r] = 0] /\ late' = late \ {r}
  /\ UNCHANGED <<version, todo, changes>>

\* cache_set swallows a failing Redis.
StoreFails(r) ==
  /\ reading[r] # None
  /\ reading' = [reading EXCEPT ![r] = None] /\ seen' = [seen EXCEPT ![r] = 0] /\ late' = late \ {r}
  /\ UNCHANGED <<version, cached, saw, excused, todo, changes>>

\* The page's TTL is over.
Expire(p) ==
  /\ Forget({p}) /\ excused' = excused \ {p}
  /\ UNCHANGED <<version, reading, seen, late, todo, changes>>

-----------------------------------------------------------------------------
(* The tasks. *)

\* Mutant: a recompute that forgets the pages about all dishes.
PrefixesOwn(D) == D
\* What _invalidate is asked to drop.
Prefixes(D) == D \cup Shared

\* recompute_pairs, recompute_for_review, nightly_sweep and full_recompute: scores of the dishes D.
Recompute(t, D) ==
  /\ todo[t] = {} /\ changes < MaxChanges
  /\ version' = [p \in Pages |-> IF p \in D \cup Shared THEN version[p] + 1 ELSE version[p]]
  /\ todo' = [todo EXCEPT ![t] = Prefixes(D)]
  /\ changes' = changes + 1
  /\ UNCHANGED <<cached, saw, excused, reading, seen, late>>

\* recompute_trends_task writes a trend for dish pages too and drops only the shared ones.
RecomputeTrends(t) ==
  /\ todo[t] = {} /\ changes < MaxChanges
  /\ version' = [p \in Pages |-> version[p] + 1]
  /\ todo' = [todo EXCEPT ![t] = Prefixes({})]
  /\ excused' = excused \cup (Dishes \cap cached)
  /\ Overtake(Dishes)
  /\ changes' = changes + 1
  /\ UNCHANGED <<cached, saw, reading, seen>>

\* rebuild_dish_summaries writes what dish pages show and drops nothing.
RebuildSummaries ==
  /\ changes < MaxChanges
  /\ version' = [p \in Pages |-> IF p \in Dishes THEN version[p] + 1 ELSE version[p]]
  /\ excused' = excused \cup (Dishes \cap cached)
  /\ Overtake(Dishes)
  /\ changes' = changes + 1
  /\ UNCHANGED <<cached, saw, reading, seen, todo>>

\* cache_delete_prefix scans the keys and deletes them.
Invalidate(t, p) ==
  /\ p \in First(todo[t])
  /\ Forget(Under(p)) /\ excused' = excused \ Under(p)
  /\ Overtake(Under(p))
  /\ todo' = [todo EXCEPT ![t] = @ \ {p}]
  /\ UNCHANGED <<version, reading, seen, changes>>

\* Redis fails in the scan, some keys deleted and some not, and the failure is swallowed.
InvalidateFails(t, p) ==
  /\ p \in First(todo[t])
  /\ \E deleted \in SUBSET Under(p) :
       /\ Forget(deleted)
       /\ excused' = (excused \cup (Under(p) \cap cached)) \ deleted
  /\ Overtake(Under(p))
  /\ todo' = [todo EXCEPT ![t] = @ \ {p}]
  /\ UNCHANGED <<version, reading, seen, changes>>

\* The task dies after its commit, or its event loop does not start: nothing more is dropped.
Die(t) ==
  LET left == UNION {Under(p) : p \in todo[t]}
  IN  /\ todo[t] # {}
      /\ excused' = excused \cup (left \cap cached)
      /\ Overtake(left)
      /\ todo' = [todo EXCEPT ![t] = {}]
      /\ UNCHANGED <<version, cached, saw, reading, seen, changes>>

Next ==
  \/ \E r \in Readers : (\E p \in Pages : Produce(r, p)) \/ Store(r) \/ StoreFails(r)
  \/ \E p \in cached : Expire(p)
  \/ \E t \in Tasks, D \in SUBSET Dishes : Recompute(t, D)
  \/ \E t \in Tasks : RecomputeTrends(t) \/ Die(t)
  \/ \E t \in Tasks, p \in Pages : Invalidate(t, p) \/ InvalidateFails(t, p)
  \/ RebuildSummaries

Spec == Init /\ [][Next]_vars

-----------------------------------------------------------------------------

TypeOK ==
  /\ version \in [Pages -> Nat] /\ changes \in Nat
  /\ cached \subseteq Pages /\ saw \in [Pages -> Nat] /\ excused \subseteq Pages
  /\ reading \in [Readers -> Pages \cup {None}] /\ seen \in [Readers -> Nat] /\ late \subseteq Readers
  /\ todo \in [Tasks -> SUBSET Pages]

\* Some task is still going to drop page p.
Awaits(p) == \E t \in Tasks : \E q \in todo[t] : p \in Under(q)

\* A stored page that no longer shows what the database says is about to be dropped, unless its
\* reader read before the change and stored after the invalidation, or the invalidation failed,
\* was cut short or does not exist (_invalidate after the commit; cached).
StaleIsExcused ==
  \A p \in cached : saw[p] # version[p] => Awaits(p) \/ p \in excused

=============================================================================
