---------------------------- MODULE IngestionJobs ----------------------------
(***************************************************************************)
(* The scheduled fetches of one source (workers/ingestion_tasks.py): beat  *)
(* ticks, the unique job_key a run claims, the cursor it reads, what it    *)
(* stores, and the transactions and retries around all that.               *)
(*                                                                         *)
(* Kinds are the two tasks that share a source, YouTube's: "fetch"         *)
(* (fetch_reviews, one transaction for all cities) and "comments"          *)
(* (fetch_youtube_comments, commits in between, as the discover tasks do). *)
(* A post is named by the tick of the clock at which it is published, one  *)
(* a tick and city.  Workers are processes of the `ingestion` queue.       *)
(***************************************************************************)
EXTENDS Naturals, FiniteSets

CONSTANTS
  Cities,        \* active cities
  Workers,       \* processes that consume the ingestion queue
  Kinds,         \* the tasks in use
  INTERVAL,      \* interval_hours(source), in ticks
  DAY,           \* ticks of a day
  OVERLAP,       \* the two hours _last_success_at goes back
  TIME_LIMIT,    \* task_time_limit: no task outlives it
  PRUNE_AFTER,   \* the thirty days of prune_jobs
  MAX_RETRIES,   \* RETRY_KWARGS["max_retries"]
  QuotaCuts,     \* whether the source's daily quota may run out
  MaxTime,       \* bound: the clock
  MaxFaults,     \* bound: failing adapter calls and tasks that die
  MaxRedrives    \* bound: POST /admin/jobs/{id}/retry

ASSUME IngestionAssumption ==
  /\ Kinds \subseteq {"fetch", "comments"}
  /\ {INTERVAL, DAY, MaxTime} \subseteq Nat \ {0}
  /\ {OVERLAP, TIME_LIMIT, PRUNE_AFTER, MAX_RETRIES, MaxFaults, MaxRedrives} \subseteq Nat
  /\ TIME_LIMIT <= OVERLAP
  /\ PRUNE_AFTER >= DAY + TIME_LIMIT
  /\ QuotaCuts \in BOOLEAN

VARIABLES
  now,       \* the clock
  jobs,      \* job_key -> committed row of ingestion_jobs
  stored,    \* <<city, post>> with a committed review
  messages,  \* task messages in the broker
  pc,        \* worker -> where its task is
  task,      \* worker -> the message it works on
  started,   \* worker -> when it took it
  todo,      \* worker -> cities the task has not come to
  key,       \* worker -> {} or the job_key of its city
  answer,    \* worker -> posts the adapter returned
  rows,      \* worker -> job rows its transaction has written
  posts,     \* worker -> <<city, post>> its transaction has written
  fetches,   \* job_key -> times the adapter was asked for it, 2 for more (history)
  faults, redrives

txn == <<rows, posts>>
local == <<task, started, todo, key, answer>>
bounds == <<faults, redrives>>
vars == <<now, jobs, stored, messages, pc, local, txn, fetches, bounds>>

\* Mutant: the hour as it is.
BucketOfHour(t) == t

\* _job_key: the hour of the day is rounded down to the interval; the date is part of it.
Bucket(t) == t - (t % DAY) + (((t % DAY) \div INTERVAL) * INTERVAL)

Keys == [city : Cities, bucket : {Bucket(t) : t \in 0..MaxTime}, kind : Kinds]
Posts == 1..MaxTime
NoTask == [kind |-> "none", retries |-> 0]

\* A row: its status, finished_at, and the time the adapter was asked (history).
NoRow == [status |-> "none", finished |-> 0, asked |-> 0]
Running == [status |-> "running", finished |-> 0, asked |-> 0]
Empty == [k \in Keys |-> NoRow]

Init == /\ now = 1
        /\ jobs = Empty /\ stored = {} /\ messages = {}
        /\ pc = [w \in Workers |-> "idle"]
        /\ task = [w \in Workers |-> NoTask]
        /\ started = [w \in Workers |-> 0]
        /\ todo = [w \in Workers |-> {}]
        /\ key = [w \in Workers |-> {}]
        /\ answer = [w \in Workers |-> {}]
        /\ rows = [w \in Workers |-> Empty]
        /\ posts = [w \in Workers |-> {}]
        /\ fetches = [k \in Keys |-> 0]
        /\ faults = 0 /\ redrives = 0

-----------------------------------------------------------------------------
Goto(w, phase) == pc' = [pc EXCEPT ![w] = phase]

\* The rows of w's transaction over the committed ones.
Visible(w) == [k \in Keys |-> IF rows[w][k] # NoRow THEN rows[w][k] ELSE jobs[k]]

\* session.commit() and session.rollback().
CommitTxn(w) == /\ jobs' = Visible(w)
                /\ stored' = stored \cup posts[w]
                /\ rows' = [rows EXCEPT ![w] = Empty]
                /\ posts' = [posts EXCEPT ![w] = {}]
RollbackTxn(w) == /\ rows' = [rows EXCEPT ![w] = Empty]
                  /\ posts' = [posts EXCEPT ![w] = {}]
                  /\ UNCHANGED <<jobs, stored>>

\* The task is over and its worker free.
Release(w) == /\ Goto(w, "idle")
              /\ task' = [task EXCEPT ![w] = NoTask]
              /\ started' = [started EXCEPT ![w] = 0]
              /\ todo' = [todo EXCEPT ![w] = {}]
              /\ key' = [key EXCEPT ![w] = {}]
              /\ answer' = [answer EXCEPT ![w] = {}]

\* On to the next city.
NextCity(w) == /\ Goto(w, "scanning")
               /\ key' = [key EXCEPT ![w] = {}]
               /\ answer' = [answer EXCEPT ![w] = {}]
               /\ UNCHANGED <<task, started, todo>>

\* The clock; the time limit kills a task before it is older than that.
Tick == /\ now < MaxTime
        /\ \A w \in Workers : pc[w] # "idle" => now < started[w] + TIME_LIMIT
        /\ now' = now + 1
        /\ UNCHANGED <<jobs, stored, messages, pc, local, txn, fetches, bounds>>

\* Beat, or an operator, enqueues a run.
Enqueue(kind) ==
  /\ messages' = messages \cup {[kind |-> kind, retries |-> 0]}
  /\ messages' # messages
  /\ UNCHANGED <<now, jobs, stored, pc, local, txn, fetches, bounds>>

StartTask(w) ==
  /\ pc[w] = "idle"
  /\ \E m \in messages :
       /\ messages' = messages \ {m}
       /\ task' = [task EXCEPT ![w] = m]
  /\ started' = [started EXCEPT ![w] = now]
  /\ todo' = [todo EXCEPT ![w] = Cities]
  /\ Goto(w, "scanning")
  /\ UNCHANGED <<now, jobs, stored, key, answer, txn, fetches, bounds>>

\* The next city, in no particular order (_active_cities does not sort), and its job_key.
\* fetch_youtube_comments passes over a city without stored videos.
PickCity(w) ==
  /\ pc[w] = "scanning"
  /\ \E c \in todo[w] :
       /\ todo' = [todo EXCEPT ![w] = @ \ {c}]
       /\ \/ /\ task[w].kind = "comments" /\ \A s \in stored : s[1] # c
             /\ UNCHANGED <<pc, key>>
          \/ /\ task[w].kind = "comments" => \E s \in stored : s[1] = c
             /\ key' = [key EXCEPT ![w] =
                          {[city |-> c, bucket |-> Bucket(now), kind |-> task[w].kind]}]
             /\ Goto(w, "claiming")
  /\ UNCHANGED <<now, jobs, stored, messages, task, started, answer, txn, fetches, bounds>>

\* Another transaction has inserted the key and not ended: the INSERT waits for it.
Blockers(w) == {v \in Workers \ {w} : \E k \in key[w] : rows[v][k] # NoRow /\ jobs[k] = NoRow}

\* Mutant: the claim is committed at once.
ClaimJobAtOnce(w) ==
  /\ pc[w] = "claiming" /\ Blockers(w) = {}
  /\ \E k \in key[w] : /\ jobs[k] = NoRow
                       /\ jobs' = [jobs EXCEPT ![k] = Running]
                       /\ rows' = [rows EXCEPT ![w][k] = Running]
  /\ Goto(w, "running")
  /\ UNCHANGED <<now, stored, messages, local, posts, fetches, bounds>>

\* Mutant: an existing row is taken over.
ClaimJobReused(w) ==
  /\ pc[w] = "claiming" /\ Blockers(w) = {}
  /\ \E k \in key[w] : rows' = [rows EXCEPT ![w][k] = Running]
  /\ Goto(w, "running")
  /\ UNCHANGED <<now, jobs, stored, messages, local, posts, fetches, bounds>>

\* _claim_job: the INSERT of the row goes through ...
ClaimJob(w) ==
  /\ pc[w] = "claiming" /\ Blockers(w) = {}
  /\ \E k \in key[w] : /\ jobs[k] = NoRow
                       /\ rows' = [rows EXCEPT ![w][k] = Running]
  /\ Goto(w, "running")
  /\ UNCHANGED <<now, jobs, stored, messages, local, posts, fetches, bounds>>

\* ... or violates UNIQUE (job_key): the whole transaction is rolled back, and the city
\* passed over.
SkipDuplicate(w) ==
  /\ pc[w] = "claiming"
  /\ \E k \in key[w] : jobs[k] # NoRow
  /\ RollbackTxn(w)
  /\ NextCity(w)
  /\ UNCHANGED <<now, messages, fetches, bounds>>

\* _last_success_at: any successful job of the source and city, whatever its kind.
Successes(c) == {k \in Keys : k.city = c /\ jobs[k].status = "success"}
LastSuccess(c) == CHOOSE t \in {jobs[k].finished : k \in Successes(c)} :
                    \A k \in Successes(c) : jobs[k].finished <= t

\* Mutant: no overlap at the seam.
SinceExactly(c) == IF Successes(c) = {} THEN 0 ELSE LastSuccess(c)

Since(c) == IF Successes(c) = {} \/ LastSuccess(c) < OVERLAP THEN 0
            ELSE LastSuccess(c) - OVERLAP

\* The cursor and the adapter's answer.  When its quota runs out the YouTube adapter stops
\* and returns what it has.
Ask(w) ==
  /\ pc[w] = "running"
  /\ \E k \in key[w] :
       LET new == {p \in Posts : p > Since(k.city) /\ p <= now} IN
       /\ \/ answer' = [answer EXCEPT ![w] = IF k.kind = "fetch" THEN new ELSE {}]
          \/ /\ QuotaCuts /\ k.kind = "fetch"
             /\ \E S \in SUBSET new : answer' = [answer EXCEPT ![w] = S]
       /\ rows' = [rows EXCEPT ![w][k].asked = now]
       /\ fetches' = [fetches EXCEPT ![k] = IF @ < 2 THEN @ + 1 ELSE 2]
  /\ Goto(w, "asked")
  /\ UNCHANGED <<now, jobs, stored, messages, task, started, todo, key, posts, bounds>>

\* Mutant: the pair the other way round.
EvidenceSwapped(k, found) == found \X {k.city}

Evidence(k, found) == {k.city} \X found

\* store_review for every post, and _finish_job; not committed yet.
FinishFetch(w) ==
  /\ pc[w] = "asked" /\ task[w].kind = "fetch"
  /\ \E k \in key[w] :
       /\ posts' = [posts EXCEPT ![w] = @ \cup Evidence(k, answer[w])]
       /\ rows' = [rows EXCEPT ![w][k].status = "success", ![w][k].finished = now]
  /\ NextCity(w)
  /\ UNCHANGED <<now, jobs, stored, messages, fetches, bounds>>

\* fetch_youtube_comments commits what it stored with the row still RUNNING ...
CommitChunk(w) ==
  /\ pc[w] = "asked" /\ task[w].kind = "comments"
  /\ CommitTxn(w)
  /\ Goto(w, "chunked")
  /\ UNCHANGED <<now, messages, local, fetches, bounds>>

\* ... and then the finished row.
FinishComments(w) ==
  /\ pc[w] = "chunked"
  /\ \E k \in key[w] :
       jobs' = [jobs EXCEPT ![k] = [status |-> "success", finished |-> now,
                                    asked |-> jobs[k].asked]]
  /\ NextCity(w)
  /\ UNCHANGED <<now, stored, messages, txn, fetches, bounds>>

\* The task returns: sync_session commits what is left.
EndTask(w) ==
  /\ pc[w] = "scanning" /\ todo[w] = {}
  /\ CommitTxn(w)
  /\ Release(w)
  /\ UNCHANGED <<now, messages, fetches, bounds>>

-----------------------------------------------------------------------------
\* A PermanentSourceError: the row is FAILED and the task goes on.
FailPermanently(w) ==
  /\ pc[w] = "running" /\ faults < MaxFaults
  /\ faults' = faults + 1
  /\ \E k \in key[w] :
       rows' = [rows EXCEPT ![w][k] = [status |-> "failed", finished |-> now, asked |-> 0]]
  /\ NextCity(w)
  /\ UNCHANGED <<now, jobs, stored, messages, posts, fetches, redrives>>

\* A TransientSourceError: the row is FAILED and committed with all the transaction wrote,
\* and the whole task is retried.
FailTransiently(w) ==
  /\ pc[w] = "running" /\ faults < MaxFaults
  /\ faults' = faults + 1
  /\ \E k \in key[w] :
       jobs' = [Visible(w) EXCEPT ![k] = [status |-> "failed", finished |-> now, asked |-> 0]]
  /\ stored' = stored \cup posts[w]
  /\ rows' = [rows EXCEPT ![w] = Empty]
  /\ posts' = [posts EXCEPT ![w] = {}]
  /\ messages' = messages \cup
       {[kind |-> task[w].kind, retries |-> n] : n \in {task[w].retries + 1} \cap 1..MAX_RETRIES}
  /\ Release(w)
  /\ UNCHANGED <<now, fetches, redrives>>

\* The database ends a cycle of waiting INSERTs by failing one of them, with an error
\* _claim_job does not catch.
Deadlocked(w) == \E v \in Blockers(w) : pc[v] = "claiming" /\ w \in Blockers(v)

BreakDeadlock(w) ==
  /\ pc[w] = "claiming" /\ Deadlocked(w)
  /\ RollbackTxn(w)
  /\ Release(w)
  /\ UNCHANGED <<now, messages, fetches, bounds>>

\* An unexpected exception or the time limit: rolled back and acknowledged.
Abort(w) ==
  /\ pc[w] # "idle" /\ faults < MaxFaults
  /\ faults' = faults + 1
  /\ RollbackTxn(w)
  /\ Release(w)
  /\ UNCHANGED <<now, messages, fetches, redrives>>

\* The worker is killed: rolled back, and the message delivered again.
Kill(w) ==
  /\ pc[w] # "idle" /\ faults < MaxFaults
  /\ faults' = faults + 1
  /\ messages' = messages \cup {task[w]}
  /\ RollbackTxn(w)
  /\ Release(w)
  /\ UNCHANGED <<now, fetches, redrives>>

\* ingestion.prune_jobs: successful jobs past their time.
PruneJobs ==
  LET old == {k \in Keys : jobs[k].status = "success" /\ jobs[k].asked + PRUNE_AFTER < now} IN
  /\ old # {}
  /\ jobs' = [k \in Keys |-> IF k \in old THEN NoRow ELSE jobs[k]]
  /\ UNCHANGED <<now, stored, messages, pc, local, txn, fetches, bounds>>

\* admin.retry_job on an ingestion job.
RetryJob(k) ==
  /\ jobs[k] # NoRow /\ jobs[k].status # "queued" /\ redrives < MaxRedrives
  /\ redrives' = redrives + 1
  /\ jobs' = [jobs EXCEPT ![k].status = "queued"]
  /\ UNCHANGED <<now, stored, messages, pc, local, txn, fetches, faults>>

WorkerStep(w) ==
  \/ PickCity(w) \/ ClaimJob(w) \/ SkipDuplicate(w) \/ Ask(w) \/ FinishFetch(w)
  \/ CommitChunk(w) \/ FinishComments(w) \/ EndTask(w) \/ BreakDeadlock(w)

Next ==
  \/ Tick \/ PruneJobs
  \/ \E kind \in Kinds : Enqueue(kind)
  \/ \E k \in Keys : RetryJob(k)
  \/ \E w \in Workers : \/ StartTask(w) \/ WorkerStep(w)
                        \/ FailPermanently(w) \/ FailTransiently(w) \/ Abort(w) \/ Kill(w)

Spec == Init /\ [][Next]_vars

\* The broker and the workers go on; a worker waits no longer than the one it waits for.
Fairness == \A w \in Workers : WF_vars(StartTask(w)) /\ WF_vars(WorkerStep(w))

FairSpec == Spec /\ Fairness

-----------------------------------------------------------------------------
Row == [status : {"none", "running", "success", "failed", "queued"}, finished : 0..MaxTime,
        asked : 0..MaxTime]

\* Every variable has its type.
TypeOK ==
  /\ now \in 1..MaxTime
  /\ jobs \in [Keys -> Row]
  /\ stored \subseteq Cities \X Posts
  /\ messages \subseteq [kind : Kinds, retries : 0..MAX_RETRIES]
  /\ pc \in [Workers -> {"idle", "scanning", "claiming", "running", "asked", "chunked"}]
  /\ task \in [Workers -> [kind : Kinds, retries : 0..MAX_RETRIES] \cup {NoTask}]
  /\ started \in [Workers -> 0..MaxTime]
  /\ todo \in [Workers -> SUBSET Cities]
  /\ key \in [Workers -> SUBSET Keys]
  /\ answer \in [Workers -> SUBSET Posts]
  /\ rows \in [Workers -> [Keys -> Row]]
  /\ posts \in [Workers -> SUBSET (Cities \X Posts)]
  /\ fetches \in [Keys -> 0..2]
  /\ {faults, redrives} \subseteq Nat

\* "Incremental cursor: only fetch what is newer than the last good run": a successful
\* fetch stands for everything published until then, however runs overlap, fail, die or
\* are rolled back, so the next one may start from its end.
CursorCovers ==
  \A k \in Keys : k.kind = "fetch" /\ jobs[k].status = "success" =>
    ({k.city} \X (1..jobs[k].asked)) \subseteq stored

\* A run's key is its own: no second task asks the source for it at the same time, nor
\* later while its row says it succeeded.
AskedAlone ==
  \A w \in Workers : pc[w] \in {"running", "asked"} => \A k \in key[w] :
    /\ jobs[k].status # "success"
    /\ \A v \in Workers \ {w} : pc[v] \in {"running", "asked", "chunked"} => k \notin key[v]

\* A row that says a run goes on has a task behind it, which will finish it.
RunningHasWorker ==
  \A k \in Keys : jobs[k].status = "running" =>
    \E w \in Workers : k \in key[w]

\* "A duplicate tick is recorded as skipped instead of double-fetching": without crashes,
\* the source is asked once for a key.
FetchedOnce == \A k \in Keys : fetches[k] <= 1

\* "Bucket the clock by the source's interval so re-ticks collapse": an interval of the
\* clock has one key of a city and kind.
OneKeyPerInterval ==
  \A k, l \in {x \in Keys : jobs[x].status = "success"} :
    /\ k.city = l.city /\ k.kind = l.kind
    /\ k.bucket \div INTERVAL = l.bucket \div INTERVAL
    => k = l
=============================================================================
