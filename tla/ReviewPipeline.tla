---------------------------- MODULE ReviewPipeline ----------------------------
(***************************************************************************)
(* The AI processing of stored reviews (services/ai_processing.py and      *)
(* workers/ai_tasks.py): Celery workers turn a review into dish mentions   *)
(* and hand the dirty (dish, restaurant) pairs to ranking.                 *)
(*                                                                         *)
(* Two tasks work on the same rows.  `ai.process_pending` (every 15        *)
(* minutes) claims a batch of pending reviews under FOR UPDATE SKIP        *)
(* LOCKED; `ai.process_review`, enqueued for a user's submission, takes    *)
(* the one review its message names without a lock.  One action is one     *)
(* statement or commit another session can see; what a session computes    *)
(* in between is in its worker's local variables.                          *)
(***************************************************************************)
EXTENDS Naturals, FiniteSets

CONSTANTS
  Reviews,       \* rows of `reviews`
  UserReviews,   \* those submitted through the API, which enqueues ai.process_review
  Redrivable,    \* those an admin may send through POST /admin/jobs/{id}/retry
  Dishes,        \* rows of `dishes`
  Restaurants,   \* rows of `restaurants`
  RestaurantOf,  \* review -> its restaurant_id
  Workers,       \* worker processes of the ai_processing queue
  MAX_ATTEMPTS,  \* ai_processing.MAX_ATTEMPTS
  MAX_RETRIES,   \* max_retries of ai.process_review
  BatchSize,     \* limit of one claim
  MaxCrashes,    \* bound: tasks that die
  MaxResets,     \* bound: runs of ingestion.reset_stuck_reviews
  MaxRedrives    \* bound: admin retries

ASSUME ReviewsAssumption ==
  /\ UserReviews \subseteq Reviews
  /\ Redrivable \subseteq Reviews
  /\ RestaurantOf \in [Reviews -> Restaurants]
  /\ MAX_ATTEMPTS \in Nat \ {0}
  /\ MAX_RETRIES \in Nat
  /\ BatchSize \in Nat \ {0}
  /\ {MaxCrashes, MaxResets, MaxRedrives} \subseteq Nat

VARIABLES
  aiState,    \* reviews.ai_state; "absent" before the row exists
  attempts,   \* reviews.ai_attempts
  mentions,   \* review -> dishes with a committed review_dish_mentions row
  jobs,       \* reviews with an ai_processing_jobs row
  messages,   \* ai.process_review messages in the broker
  unranked,   \* pairs whose evidence changed since a recompute was enqueued for them
  pc,         \* worker -> where its task is
  task,       \* worker -> "none", "batch" (process_pending) or "one" (process_review)
  batch,      \* worker -> reviews the task still has to deal with
  cur,        \* worker -> {} or the one review it is working on
  retries,    \* worker -> request.retries of the message it holds
  loaded,     \* worker -> ai_state and ai_attempts as session.get read them
  found,      \* worker -> dishes the provider's analysis resolves to
  seen,       \* worker -> dishes of previous_pairs
  overtaken,  \* worker -> another session committed mentions since this one's DELETE
  dirty,      \* worker -> pairs collected for ranking
  crashes, resets, redrives

db == <<aiState, attempts, mentions, jobs>>
session == <<loaded, found, seen, overtaken>>
holding == <<task, retries>>
faults == <<crashes, resets, redrives>>
vars == <<db, messages, unranked, pc, holding, batch, cur, session, dirty, faults>>

AIState == {"absent", "pending", "processing", "done", "failed"}
Pairs == Dishes \X Restaurants
\* Mutant: the tuple the other way round.
PairsOfSwapped(r, D) == {RestaurantOf[r]} \X D

PairsOf(r, D) == D \X {RestaurantOf[r]}
Message(r, n) == [review |-> r, retries |-> n]
Phases == {"idle", "loaded", "loop", "analyzing", "snapped", "persisting", "failing",
           "retrying", "ending"}

-----------------------------------------------------------------------------
\* A task that has written to its reviews' rows and not yet given them up.
Holds(w, r) == r \in batch[w] /\ pc[w] # "loaded"
Holders(r) == {w \in Workers : Holds(w, r)}

\* Mutant: an attempt too few.
ClaimableEarly == {r \in Reviews : aiState[r] = "pending" /\ attempts[r] + 1 < MAX_ATTEMPTS}

Claimable == {r \in Reviews : aiState[r] = "pending" /\ attempts[r] < MAX_ATTEMPTS}

NotLoaded == [state |-> "absent", attempts |-> 0]

Goto(w, phase) == pc' = [pc EXCEPT ![w] = phase]

\* The task function returns or dies: the worker forgets it.
Release(w) == /\ Goto(w, "idle")
              /\ task' = [task EXCEPT ![w] = "none"]
              /\ retries' = [retries EXCEPT ![w] = 0]
              /\ batch' = [batch EXCEPT ![w] = {}]
              /\ cur' = [cur EXCEPT ![w] = {}]
              /\ dirty' = [dirty EXCEPT ![w] = {}]
              /\ loaded' = [loaded EXCEPT ![w] = NotLoaded]
              /\ found' = [found EXCEPT ![w] = {}]
              /\ seen' = [seen EXCEPT ![w] = {}]
              /\ overtaken' = [overtaken EXCEPT ![w] = FALSE]

\* The current review is dealt with: the batch goes on, a single review's task ends.
Leave(w, phase) ==
  IF task[w] = "batch"
  THEN /\ Goto(w, "loop")
       /\ batch' = [batch EXCEPT ![w] = @ \ cur[w]]
       /\ cur' = [cur EXCEPT ![w] = {}]
  ELSE Goto(w, phase) /\ UNCHANGED <<batch, cur>>

Init == /\ aiState = [r \in Reviews |-> "absent"]
        /\ attempts = [r \in Reviews |-> 0]
        /\ mentions = [r \in Reviews |-> {}]
        /\ jobs = {} /\ messages = {} /\ unranked = {}
        /\ pc = [w \in Workers |-> "idle"]
        /\ task = [w \in Workers |-> "none"]
        /\ batch = [w \in Workers |-> {}]
        /\ cur = [w \in Workers |-> {}]
        /\ retries = [w \in Workers |-> 0]
        /\ loaded = [w \in Workers |-> NotLoaded]
        /\ found = [w \in Workers |-> {}]
        /\ seen = [w \in Workers |-> {}]
        /\ overtaken = [w \in Workers |-> FALSE]
        /\ dirty = [w \in Workers |-> {}]
        /\ crashes = 0 /\ resets = 0 /\ redrives = 0

-----------------------------------------------------------------------------
\* A review is committed; for a user's, the API then enqueues ai.process_review and
\* suppresses a broker failure.
Store(r) ==
  /\ aiState[r] = "absent"
  /\ aiState' = [aiState EXCEPT ![r] = "pending"]
  /\ \/ UNCHANGED messages
     \/ r \in UserReviews /\ messages' = messages \cup {Message(r, 0)}
  /\ UNCHANGED <<attempts, mentions, jobs, unranked, pc, holding, batch, cur, session,
                 dirty, faults>>

\* process_pending: claim_pending_reviews and the commit that publishes the claim.
Claim(w) ==
  /\ pc[w] = "idle"
  /\ \E S \in SUBSET Claimable :
       /\ S # {} /\ Cardinality(S) <= BatchSize
       /\ aiState' = [r \in Reviews |-> IF r \in S THEN "processing" ELSE aiState[r]]
       /\ attempts' = [r \in Reviews |-> IF r \in S THEN attempts[r] + 1 ELSE attempts[r]]
       /\ batch' = [batch EXCEPT ![w] = S]
  /\ Goto(w, "loop")
  /\ task' = [task EXCEPT ![w] = "batch"]
  /\ UNCHANGED <<mentions, jobs, messages, unranked, cur, retries, session, dirty, faults>>

\* The next review of the batch; its row is not read again.
TakeNext(w) ==
  /\ pc[w] = "loop"
  /\ \E r \in batch[w] : cur' = [cur EXCEPT ![w] = {r}]
  /\ Goto(w, "analyzing")
  /\ UNCHANGED <<db, messages, unranked, holding, batch, session, dirty, faults>>

\* Mutant: no already_done return.
StartTaskAgain(w) ==
  /\ pc[w] = "idle"
  /\ \E m \in messages :
       /\ messages' = messages \ {m}
       /\ retries' = [retries EXCEPT ![w] = m.retries]
       /\ batch' = [batch EXCEPT ![w] = {m.review}]
       /\ loaded' = [loaded EXCEPT ![w] = [state |-> aiState[m.review],
                                           attempts |-> attempts[m.review]]]
  /\ Goto(w, "loaded")
  /\ task' = [task EXCEPT ![w] = "one"]
  /\ UNCHANGED <<db, unranked, cur, found, seen, overtaken, dirty, faults>>

\* process_review_task: the message is delivered (acks_late: acknowledged when the task
\* ends) and session.get reads the row.
StartTask(w) ==
  /\ pc[w] = "idle"
  /\ \E m \in messages :
       /\ messages' = messages \ {m}
       /\ \/ /\ aiState[m.review] = "done"      \* returns already_done
             /\ UNCHANGED <<pc, holding, batch, session>>
          \/ /\ aiState[m.review] # "done"
             /\ Goto(w, "loaded")
             /\ task' = [task EXCEPT ![w] = "one"]
             /\ retries' = [retries EXCEPT ![w] = m.retries]
             /\ batch' = [batch EXCEPT ![w] = {m.review}]
             /\ loaded' = [loaded EXCEPT ![w] = [state |-> aiState[m.review],
                                                 attempts |-> attempts[m.review]]]
             /\ UNCHANGED <<found, seen, overtaken>>
  /\ UNCHANGED <<db, unranked, cur, dirty, faults>>

\* ... and commits PROCESSING with one more attempt than it read.  The ORM writes
\* changed columns only, so ai_state stays as it is when it was read as PROCESSING.
BeginTask(w) ==
  /\ pc[w] = "loaded"
  /\ \E r \in batch[w] :
       /\ aiState' = [aiState EXCEPT ![r] =
                        IF loaded[w].state = "processing" THEN @ ELSE "processing"]
       /\ attempts' = [attempts EXCEPT ![r] = loaded[w].attempts + 1]
       /\ cur' = [cur EXCEPT ![w] = {r}]
  /\ Goto(w, "analyzing")
  /\ UNCHANGED <<mentions, jobs, messages, unranked, holding, batch, session, dirty, faults>>

\* Mutant: previous_pairs is not read.
SnapshotBlind(w) ==
  /\ pc[w] = "analyzing"
  /\ \E D \in SUBSET Dishes : found' = [found EXCEPT ![w] = D]
  /\ Goto(w, "snapped")
  /\ UNCHANGED <<db, messages, unranked, holding, batch, cur, loaded, seen, overtaken, dirty,
                 faults>>

\* The provider answers, and _persist_analysis reads previous_pairs.
Snapshot(w) ==
  /\ pc[w] = "analyzing"
  /\ \E r \in cur[w], D \in SUBSET Dishes :
       /\ found' = [found EXCEPT ![w] = D]
       /\ seen' = [seen EXCEPT ![w] = mentions[r]]
  /\ Goto(w, "snapped")
  /\ UNCHANGED <<db, messages, unranked, holding, batch, cur, loaded, overtaken, dirty, faults>>

\* The DELETE of the mentions committed so far, invisible until the commit.
ClearEvidence(w) ==
  /\ pc[w] = "snapped"
  /\ overtaken' = [overtaken EXCEPT ![w] = FALSE]
  /\ Goto(w, "persisting")
  /\ UNCHANGED <<db, messages, unranked, holding, batch, cur, loaded, found, seen, dirty, faults>>

\* Mutant: no DELETE.
KeptAll(w, r) == mentions[r]

\* The rows left when w commits: its DELETE hit every row, unless another session replaced
\* them since, whose new rows it has not seen.
Kept(w, r) == IF overtaken[w] THEN mentions[r] ELSE {}

\* UNIQUE (review_id, dish_id) on review_dish_mentions.
Conflict(w, r) == Kept(w, r) \cap found[w] # {}

\* The INSERTs, ai_state = DONE and the commit.
Commit(w) ==
  /\ pc[w] = "persisting"
  /\ \E r \in cur[w] :
       LET rows == Kept(w, r) \cup found[w]
           changed == (rows \ mentions[r]) \cup (mentions[r] \ rows)
       IN /\ ~Conflict(w, r)
          /\ mentions' = [mentions EXCEPT ![r] = rows]
          /\ aiState' = [aiState EXCEPT ![r] = "done"]
          /\ jobs' = jobs \cup {r}
          /\ unranked' = unranked \cup PairsOf(r, changed)
          /\ dirty' = [dirty EXCEPT ![w] = @ \cup PairsOf(r, seen[w] \cup found[w])]
          /\ overtaken' = [v \in Workers |->
                             overtaken[v] \/ (v # w /\ cur[v] = {r} /\ pc[v] = "persisting")]
  /\ Leave(w, "ending")
  /\ UNCHANGED <<attempts, messages, holding, loaded, found, seen, faults>>

\* An exception in process_review (provider, database, two mentions of one dish, or the
\* unique constraint): the session rolls back.
Raise(w) ==
  /\ pc[w] \in {"analyzing", "snapped", "persisting"}
  /\ Goto(w, "failing")
  /\ UNCHANGED <<db, messages, unranked, holding, batch, cur, session, dirty, faults>>

\* Mutant: > for >=.
MarkFailedLate(w) ==
  /\ pc[w] = "failing"
  /\ \E r \in cur[w] :
       /\ aiState' = [aiState EXCEPT ![r] =
                        IF attempts[r] > MAX_ATTEMPTS THEN "failed" ELSE "pending"]
       /\ jobs' = jobs \cup {r}
  /\ Leave(w, "retrying")
  /\ UNCHANGED <<attempts, mentions, messages, unranked, holding, session, dirty, faults>>

\* mark_failed and its commit; the rollback expired the row, so it is read afresh.
MarkFailed(w) ==
  /\ pc[w] = "failing"
  /\ \E r \in cur[w] :
       /\ aiState' = [aiState EXCEPT ![r] =
                        IF attempts[r] >= MAX_ATTEMPTS THEN "failed" ELSE "pending"]
       /\ jobs' = jobs \cup {r}
  /\ Leave(w, "retrying")
  /\ UNCHANGED <<attempts, mentions, messages, unranked, holding, session, dirty, faults>>

\* raise self.retry: a new message, unless the retries are used up.
Retry(w) ==
  /\ pc[w] = "retrying"
  /\ messages' = messages \cup
       {Message(r, retries[w] + 1) : r \in {x \in batch[w] : retries[w] < MAX_RETRIES}}
  /\ Release(w)
  /\ UNCHANGED <<db, unranked, faults>>

\* The session is closed and recompute_pairs_task.delay hands the dirty pairs to ranking.
Finish(w) ==
  /\ \/ pc[w] = "loop" /\ batch[w] = {}
     \/ pc[w] = "ending"
  /\ unranked' = unranked \ dirty[w]
  /\ Release(w)
  /\ UNCHANGED <<db, messages, faults>>

-----------------------------------------------------------------------------
\* The worker process is killed: its transaction is rolled back and the broker delivers
\* its message again (acks_late, reject_on_worker_lost).
Kill(w) ==
  /\ pc[w] # "idle" /\ crashes < MaxCrashes
  /\ crashes' = crashes + 1
  /\ messages' = messages \cup
       {Message(r, retries[w]) : r \in {x \in batch[w] : task[w] = "one"}}
  /\ Release(w)
  /\ UNCHANGED <<db, unranked, resets, redrives>>

\* The task dies of an exception outside the try (the database or the broker is gone, the
\* time limit): its message is acknowledged.
Abort(w) ==
  /\ pc[w] # "idle" /\ crashes < MaxCrashes
  /\ crashes' = crashes + 1
  /\ Release(w)
  /\ UNCHANGED <<db, messages, unranked, resets, redrives>>

\* Mutant: no cutoff on updated_at.
StuckAnyAge == {r \in Reviews : aiState[r] = "processing"}

\* ingestion.reset_stuck_reviews: rows PROCESSING for longer than task_time_limit lets a
\* task live, hence held by none.
Stuck == {r \in Reviews : aiState[r] = "processing" /\ Holders(r) = {}}

ResetStuck ==
  /\ Stuck # {} /\ resets < MaxResets
  /\ resets' = resets + 1
  /\ aiState' = [r \in Reviews |-> IF r \in Stuck THEN "pending" ELSE aiState[r]]
  /\ UNCHANGED <<attempts, mentions, jobs, messages, unranked, pc, holding, batch, cur,
                 session, dirty, crashes, redrives>>

\* admin.retry_job on one of the review's ai_processing_jobs.
AdminRetry(r) ==
  /\ r \in Redrivable \cap jobs /\ redrives < MaxRedrives
  /\ redrives' = redrives + 1
  /\ aiState' = [aiState EXCEPT ![r] = "pending"]
  /\ attempts' = [attempts EXCEPT ![r] = 0]
  /\ UNCHANGED <<mentions, jobs, messages, unranked, pc, holding, batch, cur, session,
                 dirty, crashes, resets>>

WorkerStep(w) ==
  \/ TakeNext(w) \/ BeginTask(w) \/ Snapshot(w) \/ ClearEvidence(w)
  \/ Commit(w) \/ MarkFailed(w) \/ Retry(w) \/ Finish(w)

Next ==
  \/ \E r \in Reviews : Store(r) \/ AdminRetry(r)
  \/ \E w \in Workers : \/ Claim(w) \/ StartTask(w) \/ WorkerStep(w)
                        \/ Raise(w) \/ Kill(w) \/ Abort(w)
  \/ ResetStuck

Spec == Init /\ [][Next]_vars

\* A live worker goes on with its task (a conflicting INSERT raises), beat and the broker
\* go on delivering.  Nobody is obliged to submit, crash, reset or retry.
Fairness ==
  /\ \A w \in Workers :
       /\ WF_vars(WorkerStep(w) \/ Raise(w))
       /\ WF_vars(StartTask(w))
  /\ WF_vars(\E w \in Workers : Claim(w))

FairSpec == Spec /\ Fairness

-----------------------------------------------------------------------------
\* Every variable has its type.
TypeOK ==
  /\ aiState \in [Reviews -> AIState]
  /\ attempts \in [Reviews -> Nat]
  /\ mentions \in [Reviews -> SUBSET Dishes]
  /\ jobs \subseteq Reviews
  /\ messages \subseteq [review : Reviews, retries : Nat]
  /\ unranked \subseteq Pairs
  /\ pc \in [Workers -> Phases]
  /\ task \in [Workers -> {"none", "batch", "one"}]
  /\ batch \in [Workers -> SUBSET Reviews]
  /\ cur \in [Workers -> SUBSET Reviews]
  /\ retries \in [Workers -> Nat]
  /\ loaded \in [Workers -> [state : AIState, attempts : Nat]]
  /\ found \in [Workers -> SUBSET Dishes]
  /\ seen \in [Workers -> SUBSET Dishes]
  /\ overtaken \in [Workers -> BOOLEAN]
  /\ dirty \in [Workers -> SUBSET Pairs]
  /\ {crashes, resets, redrives} \subseteq Nat

\* The reviews only process_pending ever works on.
Sweepable == Reviews \ (UserReviews \cup Redrivable)

\* docs/ai-pipeline.md section 6, "safe with N concurrent workers": the claim keeps two
\* workers off an ingested review, through crashes and resets, whatever goes on beside it.
SweptExclusively ==
  \A r \in Sweepable : \A v, w \in Holders(r) : v = w

Outstanding(r) == \/ \E w \in Workers : r \in batch[w]
                  \/ \E m \in messages : m.review = r

\* While no task dies, an unsettled review is in somebody's hands, on its way there, or
\* eligible for the next claim: no interleaving of the two tasks leaves it in limbo.
NoReviewInLimbo ==
  \A r \in Reviews : aiState[r] \in {"pending", "processing"} =>
                      Outstanding(r) \/ r \in Claimable

\* "Pairs that existed before must still be recomputed even if they vanish now": evidence
\* that changed without a recompute is known to the task that will ask for one.
ChangeReachesRanking == unranked \subseteq UNION {dirty[w] : w \in Workers}

\* "A retry can never double-count evidence": whoever commits a review's mentions leaves
\* exactly what its own analysis found.
ReplacesEvidence ==
  [][\A r \in Reviews : mentions'[r] # mentions[r] =>
       \E w \in Workers : cur[w] = {r} /\ mentions'[r] = found[w]]_vars

\* A settled review stays settled: nothing overwrites a committed result.
DoneIsFinal ==
  [][\A r \in Reviews \ Redrivable : aiState[r] = "done" => aiState'[r] = "done"]_vars

\* Every stored review is eventually analysed or given up for good.
EventuallySettled ==
  \A r \in Reviews : aiState[r] # "absent" ~> [](aiState[r] \in {"done", "failed"})

\* A review a worker has started is eventually out of PROCESSING.
StuckRecovered ==
  \A r \in Reviews : aiState[r] = "processing" ~> aiState[r] # "processing"

\* The reviews only process_pending works on go through the lifecycle the docs describe.
Lifecycle == INSTANCE ReviewLifecycle
               WITH Reviews <- Sweepable,
                    aiState <- [r \in Sweepable |-> aiState[r]],
                    attempts <- [r \in Sweepable |-> attempts[r]],
                    mentions <- [r \in Sweepable |-> mentions[r]]

ImplementsLifecycle == Lifecycle!Spec
=============================================================================
