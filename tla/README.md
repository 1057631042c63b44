# A TLA+ verification of Khaabo's backend

Khaabo collects what people say about dishes (reviews written in the app, YouTube videos and
comments, Google, Reddit, OpenStreetMap), finds the dishes they mention and ranks every (dish,
restaurant) pair.  The backend is FastAPI over SQLAlchemy and PostgreSQL (READ COMMITTED), with Celery
workers over Redis; the frontend is a React client of the API.  Its difficult parts are not
algorithms but protocols: several worker processes and requests that change the same rows, tasks that
die and are delivered again, and values one session reads before another changes them.

The modules here model those protocols at the grain of the statements and commits another session can
see.  TLC checks them on small instances, and TLAPS proves theorems about them for all instances.

Paths below are relative to `src/backend/app/` unless they start with `src/`.

## 1. Inventory

| Component | State it keeps | Operations | What is hard | What makes it correct |
|---|---|---|---|---|
| **AI processing** `services/ai_processing.py`, `workers/ai_tasks.py` | `reviews.ai_state`, `ai_attempts`; `review_dish_mentions`; `ai_processing_jobs`; Celery messages | `process_pending` (beat, 15 min), `process_review` (a user's review), `mark_failed`, retry, `reset_stuck_reviews`, admin retry | two tasks on one row, killed workers, two retry counters, a transaction that replaces evidence | a review ends, keeps its result, its evidence is one analysis's, and every change reaches ranking |
| **Submission and moderation** `services/review_service.py` | `reviews.status`, `report_count`; `moderation_queue` with `history`; `profiles.published_review_count` | create, report, decide, delete; the AI's spam and duplicate verdicts | sessions that decide on rows read earlier; the ORM writes changed columns only; no autoflush | a hidden review has a queue row moderators can decide on, a rejection stands, no request erases history |
| **Scheduled ingestion** `workers/ingestion_tasks.py`, `workers/celery_app.py` | `ingestion_jobs` with a unique `job_key`; `reviews` as stored evidence | `fetch_reviews`, `fetch_youtube_comments`, `discover_*`, `prune_jobs`, admin retry | duplicate ticks, failures in the middle of a list of cities, a cursor inferred from old rows | one fetch per interval and key, nothing published is skipped |
| **Ranking** `services/ranking_service.py`, `workers/ranking_tasks.py` | `dish_scores`, `ranking_snapshots`, `restaurant_scores`, counters and badges of dishes | `recompute_pairs`, nightly sweep, trends | recomputes of one pair that overlap; a lost request repaired by age only; merges | scores, counters, badges and rollups are eventually those of the evidence; no score moves away from its history |
| **Scoring** `services/ranking.py`, `services/trends.py` | none | score, confidence, gates, badges, trend of a pair | boundaries | a rank is a matter of evidence and not of time, badges have one rightful holder, a trend is a change |
| **Source adapters and quota** `ingestion/*.py` | daily and monthly counters in Redis | reserve, refund, fetch | concurrent reservations, midnight | the source bills no more than the budget but for what the guard cannot see |
| **Entity resolution and evidence** `ingestion/pipeline.py`, `services/entity_resolution.py`, `mention_extraction.py`, `dedup.py` | `restaurants`, `dishes`, aliases, `review_sources` | `upsert_place`, `store_review`, resolve, near duplicates | repeated and concurrent inserts; order of the ladder | what hangs on a restaurant is about one place; twins come only from sweeps that could not see each other |
| **Likes, bookmarks** `services/review_service.py`, `api/v1/users.py` | `review_likes`, `like_count` | toggle | lost updates | counters are the number of rows, up to what an overlap of two reads can lose |
| **Gamification** `services/gamification.py` | `reputation_events`, `profiles.points`, badges | award | sums taken before a flush | points are the events' sum, one event behind |
| **Cache** `core/cache.py` | Redis entries | get-or-fill, invalidate | a fill that started before an invalidation | a stale page is about to be dropped, or is one of the listed exceptions |
| **Rate limit** `core/rate_limit.py` | Redis windows, memory fallback | hit | two tiers | no more than the limit in a window |
| **Admin** `api/v1/admin.py` | - | retry a job, merge, remap, resolve conflicts | acts on rows tasks work on | what it promises happens |
| **Sessions** `db/session.py` | transactions | commit, rollback | no autoflush, READ COMMITTED | - |
| **Auth** `core/security.py`, `api/deps.py` | profiles | verify a token, find or create | - | - |
| **AI providers, grounding** `ai/*`, `services/dish_extraction.py` | none | split, extract, merge with a model's answer, ground | four stages that drop and rewrite mentions | the extraction is a floor, only what the text says is stored, clauses keep apart |
| **Search, read models** `services/search_service.py`, `query_parser.py`, `dish_service.py`, `restaurant_service.py`, `api/v1/discovery.py` | none | parse, search, list, page | filters from two places, several queries that show one dish, NULLs and ties in orders | filters are obeyed, views agree, a reader who turns pages sees all that is ranked |
| **Summaries, Food DNA** `services/food_dna.py`, `summaries.py` | none | chips, texts | order of rows | a function of the evidence |
| **Frontend, deployment, scripts** | client cache | - | optimistic likes | - |

How they interact.  Beat sends ticks to the broker; ingestion stores reviews in `pending`; AI
processing turns them into mentions and enqueues `recompute_pairs` with the dirty pairs; ranking
rewrites scores and drops the cache entries that show them.  The API adds reviews of its own, enqueues
`process_review` for each, and moderates them; the AI's verdicts feed the same moderation queue.
`reviews` is the shared row: `ai_state` belongs to the pipeline, `status` to moderation, and both are
read by ranking.

`PROJECT.json` lists every component with its status and every hazard at the line where it bites.

## 2. Plan

In the order of what the system most depends on.  All of it is written.

1. `ReviewLifecycle` (abstract), `ReviewPipeline`, `ReviewPipelineProofs`.
2. `Moderation`, `ModerationProofs`.
3. `IngestionJobs`, `IngestionJobsProofs`.
4. `Ranking`, `RankingProofs`: it takes the pipeline's requests and the changes admins and moderators
   make, and answers whether the pairs a dying task loses are recovered.
5. The pure algorithms: `Scoring`, `Listing`, `QueryParsing`, `Search`, `Extraction`, `FoodDna`, stated
   about together in `Algorithms`.
6. `Resolution` and `Evidence`: the catalogue under overlapping sweeps; `EvidenceProofs`.
7. `SourceQuota`, `Engagement`, `PageCache`, checked together as `Services`; `SourceQuotaProofs`,
   `ServicesProofs`.
8. `AlgorithmsProofs`: what the pure functions promise, for inputs of any size.

What would come next: the splitting of joined texts and the parser's phrases (`ClausesApart`,
`SignalsFound`); the order of the comments backlog; the upsert of `trend_metrics`.

Modules are written to be proved about: constants with named assumptions, one action per
operation, invariants as conjunctions, no recursive operators.

## 3. Modules

| Module | Models |
|---|---|
| `ReviewLifecycle` | what the pipeline promises about a review: `pending -> processing -> done \| failed`, attempts that count and end once |
| `ReviewPipeline`, `MCReviewPipeline` | the workers, statements and messages that do it |
| `Moderation`, `MCModeration` | the sessions that change a review's status, its queue items and the author's counter |
| `IngestionJobs`, `MCIngestionJobs` | the runs of the two tasks that fetch from one source |
| `Ranking`, `MCRanking` | the recompute tasks and the evidence that changes under them |
| `Scoring` | the score of a pair, badges, trends |
| `Listing` | lists, orders, pages, and what the pages say of a dish |
| `QueryParsing`, `Search` | the parser of a typed query; filters, dish resolution, answers, suggestions |
| `Extraction` | clauses, mentions, sentiment, the merge with a model's answer, grounding, dish resolution |
| `FoodDna` | the chips of a restaurant |
| `Algorithms`, `MCAlgorithms` | the inputs of these functions as states, and what the functions promise |
| `Resolution` | the ladder that says which restaurant a record or a text is about |
| `Evidence`, `MCEvidence` | sweeps, fetches, merges and enrichment on one catalogue |
| `SourceQuota` | the two quota guards and the loops that spend them |
| `Engagement` | likes, points and a badge |
| `PageCache` | the read-through cache beside the tasks that invalidate it |
| `Services`, `MCServices` | the last three, one at a time |
| `Collections` | the list comprehension that keeps the items of a set |
| `Common` | absolute values and the absent value |
| `ReviewPipelineProofs`, `ModerationProofs`, `IngestionJobsProofs`, `RankingProofs`, `EvidenceProofs`, `SourceQuotaProofs`, `ServicesProofs`, `AlgorithmsProofs` | theorems |

Definitions marked `Mutant` in a comment are not part of a specification.  Each is a variation of the
definition after it with a plausible mistake, kept to show that the properties notice it.

### ReviewPipeline

One action is one statement or commit that another session can see.

| Code | Model |
|---|---|
| `reviews.ai_state`, `ai_attempts`, mention rows, job rows | `aiState`, `attempts`, `mentions`, `jobs` |
| broker messages of `ai.process_review` with `request.retries` | `messages` |
| a worker's position in the task and its Python variables | `pc`, `task`, `batch`, `cur`, `retries`, `loaded`, `found`, `seen`, `dirty` |
| the row versions a `DELETE` in an open transaction did not see | `overtaken` |
| `claim_pending_reviews` + commit | `Claim`, then `TakeNext` for each review |
| `process_review_task`: `session.get`, then the commit of PROCESSING | `StartTask`, `BeginTask` |
| `process_review` to `previous_pairs`; the `DELETE`; the `INSERT`s and the commit | `Snapshot`, `ClearEvidence`, `Commit` |
| an exception, `mark_failed`, `self.retry` | `Raise`, `MarkFailed`, `Retry` |
| `recompute_pairs_task.delay` and the end of the task | `Finish` |
| a killed worker; a task that dies of its time limit or a lost database | `Kill`, `Abort` |
| `reset_stuck_reviews`; the admin's `retry_job` | `ResetStuck`, `AdminRetry` |

The provider's answer is an arbitrary set of dishes or an exception.  `unranked` is not in the code: it
is the set of pairs whose evidence changed and for which no recompute has been enqueued since, which is what
ranking cannot know about.

`ReviewLifecycle` is implemented by `ReviewPipeline` for the reviews only `process_pending` ever works
on (`Sweepable`: ingested, not touched by an admin).  The refinement mapping restricts the three row
columns to them.

### Moderation

A request or AI task is a session with a `Load` (it reads its rows) and a `Commit` (it writes what it
decided).  Another session may commit in between.  `Assign` is the ORM's unit of work: an attribute
set to the value that was read is not in the `UPDATE`, so it does not undo what another session
wrote.  `SyncedCount` is the COUNT of `_sync_author_counters`: with `autoflush=False` it runs before the
session's own change is written, so `published_review_count` stays one decision behind.  The unique
`(review_id, reason)` of the queue makes a second insert roll its request back (`RollbackReport`).

### IngestionJobs

`now` is the clock in ticks; each tick publishes one post per city, named by the tick.  A `job_key` is
the kind, the city and `Bucket(now)`.  `jobs` and `stored` are committed; `rows` and `posts` are what a
worker's transaction has written.  `fetch_reviews` has one transaction for all cities (`EndTask`
commits it); `fetch_youtube_comments` commits in chunks (`CommitChunk`).  An INSERT of a key another
transaction has inserted waits for it (`Blockers`); a cycle of waits is broken by failing one of them
(`BreakDeadlock`).  `SkipDuplicate` rolls back the whole session, as `_claim_job` does.  `answer` is what
the adapter returned for the cursor; with `QuotaCuts` it may be cut short by the daily budget.
`fetches` is history: how often the source was asked under a key.

### Ranking

A score row is represented by what it was computed from: `seen`, the mentions of the pair that were
counted when it was read, and `prior`, those of the dish in the city.  Two rows with equal sets have
equal scores but for the time decay, which the nightly sweep renews and `old` stands for.

| Code | Model |
|---|---|
| mentions with their reviews' `status`, `is_duplicate` | `mention` |
| `dish_scores`; the badge flags | `score`, `best` |
| `dishes.mention_count`, `restaurant_count`; `restaurant_scores`, `is_signature`; `ranking_snapshots` | `aggregate`, `rollup`, `snapshot` |
| messages of `recompute_pairs`, `recompute_for_review` | `queue` |
| `_load_observations` and `_city_dish_prior` | `Load` |
| the flush of `_upsert_dish_score`: it locks, waits, or raises if the row came or went meanwhile | `Wait`, `Write`, `Fail` |
| `_refresh_dish_aggregate`, `_persist_ranking_snapshots` | `RefreshDishes` |
| `recompute_restaurant_score` | `RecomputeRestaurants` |
| `session.commit`, and the invalidation after it | `Commit`; `PageCache` |
| `nightly_sweep`, `force_recompute` | `NightlySweep`, `ForceRecompute` |
| an analysis, a decision, a remap, a merge | `Publish`, `Decide`, `Remap`, `Merge` |

`Send` may lose its request, which stands for a task that dies between its commit and `delay`, a broker
that refuses, and a request taken by a task that then fails.  `View` is READ COMMITTED: a task's own
rows over the committed ones.  `Contend` lets two tasks with rows of one dish or restaurant collide on
its counters; it is coarser than PostgreSQL, which would let some of them wait.

### Algorithms

An input is a state, so that TLC can enumerate inputs, and there are steps only where the program's
input itself grows: a mention is extracted (`Observe`), time passes (`HalfLife`), a reader asks for the next
page (`NextPage`).  Everything else is an operator of the code's name.  Scores are hundredths, a decay
is a halving (`Doubled` counts the halvings left), logarithms are a table.  A text is a sequence of words and marks; the lexicons are small
functions with the same kinds of entries, and `ClausesBetween` gives each clause under the place it starts
at.  `IsRequest`, `IsReviewed`, `IsListed` and the other shapes say what the callers pass: what the
request schemas validate, what the cleaning of a review leaves, what the columns hold.  Orders return the set of sequences the database may
answer with: rows that tie come in any order, and `NULL` sorts where PostgreSQL puts it.

### Evidence

A sweep reads its candidates when it begins and commits every `CHUNK` records.  `txn` is what the chunk
has written; `pending` the aliases that are not flushed, which the `autoflush=False` session's own
queries do not see.  Real places are constants: `RealPlace` says what each record is about, and only the
history variables `of` and `blind` and the properties read it.  `Upsert` is one record: `Refresh`, `Refuse`,
`Attach` or `Create`.  `Merge` is an admin who merges two restaurants of the same place.

No resolver can be right in every world: two places with one name on one corner are one to it.  `PlacesDiffer`
and `RecordsAlike` say which worlds it is made for, in terms of its thresholds: different places are called
differently or lie apart, and the records of one place are near each other and alike.

### SourceQuota, Engagement, PageCache

`SourceQuota`: `spent[p]` is the Redis key of period `p`; a reservation is one INCRBY (`Reserve`), the
check of its answer (`Granted`), and an INCRBY back (`TakeBack`).  `billed`, `unseen` and `leaked` are
history: what the source counted, what it billed or the guard gave back in a period it had not been reserved
in, and what was reserved and never spent.  `Engagement`: `open[s]` is what a request has read; `crossed`,
`doubled` and `raced` remember overlaps.  `PageCache`: `version[p]` counts the changes of what page `p` shows,
`saw[p]` is the one the stored page was made from; `Under` is prefix matching, where the prefix of one dish
also covers a dish whose slug it begins.

## 4. Runs

Passing runs (what holds):

| Run | Instance | Shows |
|---|---|---|
| `PipelineSwept` | an ingested and a user's review, 2 workers, a kill, a reset | types; `SweptExclusively`; the refinement of `ReviewLifecycle` |
| `PipelineSerial` | one worker process (the free-tier deployment), 2 dishes, an admin retry | `ReplacesEvidence`, `ChangeReachesRanking`, `DoneIsFinal` |
| `PipelineSettles` | an ingested and a user's review, 2 fair workers, no crash | `EventuallySettled`, and `NoReviewInLimbo` on the way, under every race of the two tasks |
| `ModerationConcurrent` | 1 review, 2 sessions, every operation | types; `HiddenHasItem` |
| `ModerationSerial` | 2 reviews, one session at a time, no dismissals or spam verdicts | `HiddenIsQueued`, `RejectionStands`, `HistoryKept` |
| `IngestionFetch` | 2 cities, 2 workers, a failing or dying task | types; `CursorCovers`, `AskedAlone`, `RunningHasWorker` |
| `IngestionOnce` | 1 city, both kinds, duplicate ticks, a short quota, pruning, an admin retry, no fault | `FetchedOnce`, `OneKeyPerInterval` |
| `Ranking` | 2 dishes, 2 restaurants, 2 mentions, 2 workers, a change, a fault | types; `SnapshotsFollow`; `ScoresConverge` and `SummariesConverge` under overlapping, waiting, failing and dying recomputes, lost requests, a merge or a remap |
| `Algorithms` | some 40,000 inputs of the pure functions | `RankIsEarned`, `BadgesEarned`, `TrendHonest`, `PagesReachAll`, `ReadsAgree`, `SearchObeysFilters`, `SignalsFound`, `ClausesApart`, `ExtractionIsFloor`, `DnaOrderFree` |
| `Evidence` | a place with two spellings and three records of two sources, a neighbour with a similar name, a Wikidata item and a text about it, 4 task runs | types; `OnePlaceEach`, `TwinsOnlyBlind`, `NameIsSourced` |
| `Services` | 2 runs over a budget and a midnight; 2 sessions, 5 requests; a reader, a task, 2 dishes | `BudgetKept`, `CountersKept`, `StaleIsExcused` |

A violation run (what a comment says and the code does not do), with a finding in `PROJECT.json`:

| Run | What TLC finds |
|---|---|
| `PipelineStuck` | nothing scheduled recovers a killed worker's reviews |

The restricted instances of the passing runs locate what the code relies on. The same properties do not
survive the wider ones: with a second worker and a user's review, `DoneIsFinal`, `ReplacesEvidence` and
`ChangeReachesRanking` fall (`process_review` takes a review `process_pending` holds and both analyses'
mentions stay; the slower task's `mark_failed` overwrites `done`; mentions committed between
`previous_pairs` and the `DELETE` vanish unseen); with a second session `HiddenIsQueued`,
`RejectionStands` and `HistoryKept` fall (a report and a decision on one item); with a dismissal or a
spam verdict on a settled item `HiddenIsQueued` falls even serially; with a second city, `FetchedOnce` (a
duplicate on one city rolls back the other's run), and with a worker that dies (its row is rolled back,
its message delivered again); with the comments task beside the fetch, `CursorCovers` (a comments success
moves the fetch's cursor) and, with a fault, `RunningHasWorker` (a comments task that dies leaves the row
it committed as RUNNING); with `QuotaCuts`, `CursorCovers` (a fetch cut short counts as a success); with
an interval that does not divide the day, `OneKeyPerInterval`. Changing those constants in a
configuration shows each of them.

### What the models showed about the code

Met while modelling, and built into the modules as the code has it:

- A retry of a fetch in the same interval finds its own FAILED row and skips (`ingestion_tasks.py:333`).
- The text of one post under two identities is flagged as a duplicate on *both* reviews once both are
  processed (`_flag_near_duplicate`; `docs/ingestion.md:77` speaks of the later one).  The instance has one
  text, so `Process` never flags there.
- `recompute_pairs_task` names `max_retries` but no `autoretry_for`: a failed recompute waits for the sweep.
- A merge deletes both restaurants' dish scores and leaves the duplicate's rollup and the dishes'
  counters stale; the sweep restores those of open restaurants only, which `SummariesConverge` says.
- `is_signature` is never reset for a restaurant whose mentions are all gone.
- Merged restaurants stay candidates of the resolver: a later record of the same spelling may go to the
  closed one, and a sweep that began before the merge attaches to it.  `NameIsSourced` and
  `TwinsOnlyBlind` therefore speak of open restaurants.
- `resolve_conflict` marks the row and changes nothing else; the next sweep refuses again.
- Two records of a chunk that attach under one new name insert the alias twice, and the chunk is lost at each
  sweep (`Breaks`).
- A list's total counts ranked rows, whatever the filters and closed places; in the default order that never
  hides a ranked row, which is what `PagesReachAll` shows, in other orders it can.
- Rows that tie may be shown on two pages or on none, because the orders end in no unique column, and the
  signature chips of dishes that tie depend on the order of the rows.  `PagesReachAll` and `DnaOrderFree` name
  this as their premise, and are false without it.
- A model may give a dish two names: a registered one that the text does not have, and an alias that it does
  have but nobody registered.  The grounding accepts the second and the dish is stored under the first, so
  `ExtractionIsFloor` excepts it.
- A search revalidates the filters it merged from two places: text and filter that contradict each
  other fail the request (`Refused`).
- `trending` returns surges whose significance is FALSE, against its docstring (`discovery.py:51`).
- Failing Redis in the EXPIRE after an INCRBY lets a call through; a refund after midnight goes to the new
  period's key.  Both are what `unseen` counts.
- `recompute_trends` invalidates the shared pages only and `rebuild_dish_summaries` nothing.
- The contribution score is one event behind, and a moderator's approval awards no points.

### Bounds

- Two workers or two sessions: the races here need two; `docker-compose.yml` runs the workers with
  concurrency 2 and `docker-compose.free.yml` with 1, the instances of `PipelineSerial`.
- `MAX_ATTEMPTS = 2` and `MAX_RETRIES = 2` (both 5 in the code): equal, as there, so that a message
  outlives the row's attempts by one run.
- `MaxCrashes`, `MaxResets`, `MaxRedrives`, `MaxFaults` bound faults and admin actions, 0 or 1 each:
  a fault at every step is explored.  `MaxFaults` counts the failing adapter calls and dying tasks of
  `IngestionJobs` together.
- `REPORTS_TO_HIDE = 2` (3) and `AUTO_PUBLISH_MIN = 1` (3): the thresholds are crossed by few sessions.
  `MaxReports`, `MaxDecisions` bound the requests.
- `MaxTime` (3 to 6 ticks), `INTERVAL`, `DAY`, `OVERLAP`, `TIME_LIMIT`, `PRUNE_AFTER` keep the code's order
  of magnitude relations that matter: `TIME_LIMIT <= OVERLAP` (half an hour, two hours) and `PRUNE_AFTER >=
  DAY + TIME_LIMIT` (thirty days: no row is pruned while a task may still ask for its key) are assumptions of
  the module.  `IngestionOnce` has `TIME_LIMIT = 0`: every task begins and ends
  within a tick, which leaves room for two days; `IngestionFetch` lets tasks span ticks.
  Its `MAX_RETRIES = 0`: a retried message does what a duplicate tick does, and ticks are unlimited.  `fetches` saturates at 2.
- `Ranking`: thresholds of 1 (3 mentions, deltas of 5 in the code) make every mention matter; `MaxChanges = 1` (a
  change of evidence besides the publications, or a forced recompute) and `MaxFaults = 1` (a dying worker).
  Overlaps, lost requests, failures and sweeps are not bounded.
- `Algorithms`: up to 4 observations of four kinds, 4 rows, 3 places, lists of one or two rows a page; small
  alphabets of words.  Every threshold lies inside the range of the inputs.
- `Evidence`: three restaurants, four records, `CHUNK = 2` (100): a sweep has a commit in the
  middle.  `MaxConflicts = 1` and `MaxRuns = 4` bound history.  The positions straddle `EXACT_DISTANCE` and `CHAIN_DISTANCE`, and
  the similarities straddle `MODERATE` and `STRONG`.  TLC checks that the instance is one of the worlds the theorems are about
  (`TheWorld`).
- `Services`: `BUDGET = 4` with searches of 2 and calls of 1, so that a reservation may overshoot and be taken
  back while another waits; one midnight, one fault; five requests reach both levels of a badge.  Two changes
  and one reader overtake each other in every way.
- Symmetry over reviews, workers, sessions, runs and cities is used for safety only, never for the runs of
  liveness properties.

### Fairness

`ReviewPipeline!Fairness`: a live worker goes on with its task, the broker delivers, and beat goes on
ticking (`process_pending` is in `beat_schedule`, every 15 minutes).  Failing is one of the ways a worker's step
may go, so fairness does not promise success.  No fairness is given to submissions, crashes, admin
requests or `reset_stuck_reviews`, which no entry of `beat_schedule` runs.  `IngestionJobs!Fairness`
likewise: delivery and live workers, nobody obliged to tick.

`Ranking!Fairness`: a live task takes its next step, strongly, because a lock may be taken and
released again and again before the waiting task gets it, which PostgreSQL's lock queue prevents; the sweep is in
`beat_schedule` every night, and starts strongly because a worker may be busy whenever it is looked at; a score
becomes a day old.  Requests need not be delivered: convergence rests on the sweep alone.

## 5. Proofs

Every theorem is for all values of the constants that satisfy the module's assumptions: any number of workers,
sessions, reviews, records, limits and bounds on faults. Where a property needs more than that, because the
code relies on it, the theorem names it as a hypothesis on the constants:

| Property | Theorem in | Holds if |
|---|---|---|
| `ReviewPipeline`: `TypeOK`, `SweptExclusively`, `ImplementsLifecycle` | `ReviewPipelineProofs` | always |
| `ReplacesEvidence`, `DoneIsFinal` | `ReviewPipelineProofs` | `Alone`: one worker, or only reviews that `process_pending` alone works on |
| `ChangeReachesRanking` | `ReviewPipelineProofs` | `Alone`, and `NoCrash`: no task dies |
| `NoReviewInLimbo` | `ReviewPipelineProofs` | `NoCrash` |
| `Moderation`: `TypeOK`, `HiddenHasItem` | `ModerationProofs` | always |
| `RejectionStands`, `HistoryKept` | `ModerationProofs` | `OneAtATime`: sessions do not overlap; `NoSpamVerdict` |
| `HiddenIsQueued` | `ModerationProofs` | these, and `NoDismissal` |
| `IngestionJobs`: `TypeOK`, `AskedAlone` | `IngestionJobsProofs` | always |
| `RunningHasWorker` | `IngestionJobsProofs` | `Unbroken`: fetch tasks alone, or no fault |
| `CursorCovers` | `IngestionJobsProofs` | `FetchesInFull`: fetch tasks alone, and no answer is cut short |
| `FetchedOnce` | `IngestionJobsProofs` | `OneCity`: one city and no fault |
| `OneKeyPerInterval` | `IngestionJobsProofs` | `WholeIntervals`: a day is a whole number of intervals |
| `Ranking`: `TypeOK`, `SnapshotsFollow` | `RankingProofs` | always |
| `Evidence`: `TypeOK`, `NameIsSourced` | `EvidenceProofs` | always |
| `OnePlaceEach` | `EvidenceProofs` | `PlacesDiffer` |
| `TwinsOnlyBlind` | `EvidenceProofs` | `PlacesDiffer` and `RecordsAlike` |
| `Services`: `BudgetKept`, `CountersKept`, `StaleIsExcused` | `ServicesProofs` (with `SourceQuotaProofs`) | always |
| `Algorithms`: `RankIsEarned`, `BadgesEarned`, `TrendHonest`, `SearchObeysFilters`, `PagesReachAll`, `DnaOrderFree` | `AlgorithmsProofs` | always (the last two except for ties, which is part of the property) |
| `ExtractionIsFloor` | `AlgorithmsProofs` | `ALLOW_CREATION = FALSE`, the default: no dish is created from a mention |
| `ReadsAgree` | `AlgorithmsProofs` | a dish has no more places than the map has markers (`MAP_LIMIT`, 300) |

Each hypothesis is the condition of the run that checks the property, stated for all sizes, and none can be
dropped: section 4 says what falls without it.

### The pipeline

`SweptExclusively` is not inductive: it says who holds a review but not why nobody else may take it. The
invariant is

    IInv == TypeOK /\ OneIsUsers /\ HeldIsProcessing /\ HeldOnce /\ NotOvertaken

`OneIsUsers`: messages and `one` tasks concern users' reviews only, so a swept one is reached by `Claim`
alone. `HeldIsProcessing`: a held swept review is `processing`, so `Claim`, which takes `pending` ones, cannot
take it again, nor can `ResetStuck`, which takes those nobody holds. `HeldOnce` then follows step by step, and
`NotOvertaken` (no other session can have committed mentions of it) makes a commit replace the evidence as a
whole. The refinement uses the invariant to map every action to an abstract step or a stutter: `Commit` to
`Complete`, `MarkFailed` to `Fail`, `ResetStuck` to `Recover`.

Under `Alone` no two tasks have one review in their batches (`Apart`), and the invariant `Undisturbed` says
what that buys: what a task has seen of a review's mentions is what there is (`SeenIsCurrent`), its `DELETE`
leaves nothing (`DeletesAll`), and what it holds is not done (`NotYetDone`). The two action properties and,
with no task dying on its way from `Commit` to `Finish`, `ChangeReachesRanking` follow.

`NoReviewInLimbo` is about two counters that disagree: the row's attempts, which `Claim` reads, and the
message's retries. The invariant `LookedAfter` says who still owes a review a verdict: a `processing` row has
a worker that will write its state once more, and a `pending` one has an attempt left, a message, or a task
that has yet to read it. A task that has written its state (`retrying`, `ending`) does not count, which is why
`LookedAfter` is stronger than the property.

### Moderation

A commit acts on rows its session read before other sessions committed, so `HiddenHasItem` alone does not
survive a step: a report that read an open item writes nothing to it. The invariant is

    IInv == TypeOK /\ Requests /\ ItemsStay /\ HiddenHasItem

`Requests` types what an open session holds and says that a decision is on an item it has seen. `ItemsStay`
says that an item a session has seen is still there, if perhaps no longer open: rows leave the queue in no
way, so what was read stale is still enough. Two lemmas carry the eleven actions: `OpenKeeps` for those that
read, `CloseKeeps` for those that write.

For the serial properties `Fresh` takes the place of `ItemsStay`: while sessions do not overlap, the rows are
as the open one read them. `SerialStep` reduces every step to what its commit does to one row, one item and
its history.

### Ingestion

`AskedAlone` rests on the unique `job_key`. `Owned` is what the index and the claim together give: an
uncommitted row is that of one transaction, and no committed one has its key; a task at a city has it as
RUNNING; a task between its two commits is the only one with its row. `Backed` (under `Unbroken`) says the
converse, that a RUNNING row has a worker.

`CursorCovers` infers what is stored from the times of successful runs, and holds because the cursor goes back
further than a run can last: `Timely` bounds a task's age by `TIME_LIMIT`, and `Covered` says of every
successful run, committed or in a transaction, and of every answer in a task's hands, that all published
before it is stored or among them. The one inequality it uses is `TIME_LIMIT <= OVERLAP`.

`FetchedOnce` needs more than one key: a row may be pruned, and the key must by then be too old to be claimed
again (`Over`). `Once` follows the single city through its task. `OneKeyPerInterval` is arithmetic: buckets
are multiples of the interval when the interval divides the day; with a longer interval (Google's 720 hours)
keys change every day.

### Ranking

A commit writes rows and snapshots that were computed in different steps, while other tasks commit. The
invariant is

    IInv == TypeOK /\ SnapshotsFollow /\ Exclusive /\ Pending

`Exclusive`: no two tasks hold rows of one pair, which the row locks give (`Blocked`) and which keeps what a
task saw of its own pairs true until it commits. `Pending`: after `RefreshDishes`, every row the task is going
to commit is followed by a snapshot of its own or by the one there is.

### Evidence

What a sweep commits was decided on candidates it read long before, and chunks of other tasks, merges and
reviews come in between. The invariant is

    IInv == Typed /\ RowsFit /\ (\A j \in Running : Fits(j, job[j])) /\ Apart

`RowsFit` is referential integrity of what is committed. `Fits` is what a task may rely on when it commits:
the restaurants of its candidates and of all it has written are committed or its own, it inserts and updates
only records of its own source, no record twice, and what it holds back (`pending`) is among what it wrote.
`Apart`: no two tasks make the same restaurant. Each kind of upsert gets a lemma that says what it does
(`RefreshIs`, `RefuseIs`, `AttachIs`, `CreateIs`), and one that it keeps the invariant. `ForemostIs` and
`ResolveIs` are the lemmas about the resolver: it answers with a candidate that stands on a rung of the
ladder, and with `new` only when none does.

`NameIsSourced` compares a name with the records, while several tasks hold changes of both. `Sourced`
therefore quantifies over the order of commits: whichever of the tasks that do not write a restaurant's name
commit (`Quiet`), some record of it gives the name it has (`StaysSourced`), and a task that does write it
brings the record along (`BringsSource`).

`AllTrue` says that the catalogue, each transaction and each candidate list are true to the world: names,
positions, aliases and keys are those of the place the restaurant was made for. In a world whose places
differ, a rung of the ladder is only reached by a candidate of the record's own place (`TierTells`,
`FoundIsRight`), so each attachment keeps it. `Twins` extends `TwinsOnlyBlind` to restaurants not committed
yet; where the records of a place are alike, a sweep that knows a restaurant of the place does not call its
record new (`NewIsAlone`), so who makes a second one had not read the first.

### Services

`SourceQuotaProofs` proves `BudgetKept` with

    IInv == Typed /\ Balanced /\ Within

`Balanced` accounts for each unit of the key. `Within` adds to what was billed all that runs hold and will not
take back (`Promised`): a reservation is granted on a total that holds every promise made before it. Sums over
runs are sizes of sets of units (`Units`), so the theorems about finite sets do the arithmetic without
induction.

`ServicesProofs` carries it to the composition TLC checks, whose steps are a part's or leave the part alone,
and proves the other two there.  `StaleIsExcused` holds with `ReadIsExcused` beside it, which says of a reader
between its read and its store what `StaleIsExcused` says of a stored page: if the version moved on, an
invalidation is still to come or has passed it by.  For `CountersKept`, `LikesSole`, `LikesOwn` and `AwardsSole` say that as long as the overlap in
question has not happened, the only open request has read the rows as they are; `AwardsBehind` says that with
overlaps points and badge still never run ahead.

### Algorithms

The inputs are arbitrary within the shapes `InputsAssumption` states, and the tables, weights, thresholds and
page sizes within `ScoringAssumption` and `ListingAssumption`; TLC evaluates all three on the instance.  Six of the
properties speak of an input that no step changes (`Passed`), so their proofs are about functions.  What
makes those provable is that induction is available in one form: a set that holds 0, {} or <<>> and is closed
under one more holds everything (`Inductive`, `InductiveOnSets`, `InductiveOnSeqs`, from the
well-foundedness of the naturals).  From it come the laws the rest is built on: what `Among` keeps of a
sequence (`AmongOf`, `AmongAppend`), that a fold over a finite set exists and a sum does not depend on the order
(`FoldExists`, `SumOrderFree`, `SumBetween`, `SumOfClasses`), that finite sets can be sorted and have extremes
(`SortExists`, `Extremes`).

- `SearchObeysFilters`: filters merged with the text's admit no more than those that were set
  (`MergedFiltersAdmit`), and a page lists nothing its query did not (`PageAdmits`).
- `ExtractionIsFloor`: an alias that matches in a clause is a quote of the whole text (`ClauseIsQuoted`), so
  that the grounding keeps what the lexicon found, and `KeptIsStored` follows a mention to its dish.
- `BadgesEarned`: the k-th smallest count exists among counts with repetitions (`KthCountFacts`).
- `ReadsAgree`: means lie between their extremes, the ranked half of a page is ranked, and no mention
  is counted under two attributes' sides or two periods (`MeanWithin`, `PageIsRanked`, `SidesApart`,
  `SignalsCount`).
- `TrendHonest`: a trend depends on four numbers (`TrendIs`), which evidence outside the windows leaves alone
  (`TallyAmong`) and turned opinions reflect (`SumTurned`).
- `DnaOrderFree`: without ties a label's place is the number of labels ahead of it, whatever their order
  (`PlaceIsUnique`, `SortedPlaces`).

Two properties speak of inputs that grow.  `PagesReachAll` is about a reader at the end of a list, each page of
which may come from another order of the same rows.  Its inductive invariant `PagesInv` says what holds on the way: the
pages read so far are full, the due rows among them stand in the places that every order gives them, and the list
does not end before the last due row.  It rests on the due rows being the first of every order (`DueLeads`)
and on an order having one way to place rows that do not tie (`OrderPlaces`).

`RankIsEarned` compares two scores, so it needs `ScoreInv`: evidence is what may be mentioned, made older
at most, and no more than `MAX_OBSERVATIONS`.  A mention adds to the weight of the gate (`GateGrows`), ageing
leaves it alone (`GateAgeless`).  That a score exists exactly with a rank is that every component is a
number: no sum of decays is zero (`SumNat`), the counts are in the table of logarithms
(`CountsAreKnown`), and the deviation has a root on the scale (`SpreadType`, by the inequality of means
in `SumOfSquares`).  `SentimentBetween` bounds the shrunk mean by the prior and the mean, rounding included.

### Model-checked only

- Liveness: `EventuallySettled`, `ScoresConverge`, `SummariesConverge`. The prover does not do fairness
  (ENABLED).
- `SignalsFound` and `ClausesApart`. They are about the cutting of a text: that phrases of one kind are found
  in whatever order they are joined, and that the clauses of two texts with a break between them are the
  clauses of each. Both depend on the vocabulary (no phrase may begin inside another, no break may end
  up in one), which is given by an instance, and on orders and choices over positions of the joined text.
- Everything outside the hypotheses above, which is not true.

## 6. Not modelled

- Rate limiting: a counter that Redis increments atomically, and a fallback within one process.
- Authentication and roles: token checks and a find-or-create.
- HTTP, paging tokens and parsing of the adapters, prompts of the AI providers: I/O.
- The real-valued score: hundredths, halvings and a table of logarithms stand for it, so rounding
  differs; the model keeps every gate, clamp, shrinkage and order.  Trigram and token similarities are tables.
- The content hash of a stored text: the text's identity stands for it.
- `verify_model_summary`, which compares numbers in a text; bookmarks; images; severities; notifications;
  admin lists.
- The job keys of the `discover_*` tasks, which are those of the comments task; the order of the comments
  backlog (videos without comments can stay at its head).
- The upsert of `trend_metrics`: with `restaurant_id` NULL no unique key stops a second row, after which
  `scalar_one_or_none` raises (`ranking_service.py:643`).
- The frontend, deployment files and seeds.
