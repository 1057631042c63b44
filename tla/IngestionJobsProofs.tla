------------------------- MODULE IngestionJobsProofs -------------------------
(***************************************************************************)
(* Proofs about IngestionJobs: what a row of ingestion_jobs says of its    *)
(* run, for any cities, workers, clocks and limits.  Two theorems hold of  *)
(* every instance; the others name what they need of the deployment or of  *)
(* the source: Unbroken, FetchesInFull, OneCity, WholeIntervals.           *)
(***************************************************************************)
EXTENDS IngestionJobs, FiniteSetTheorems, WellFoundedInduction, TLAPS

Messages == [kind : Kinds, retries : 0..MAX_RETRIES]

\* What a task holds in each phase: nothing when idle, one key of its own kind from the claim
\* to the end of the city, no open transaction after the commit of a chunk.
Shaped == \A w \in Workers :
  /\ pc[w] = "idle" => task[w] = NoTask /\ rows[w] = Empty /\ posts[w] = {}
  /\ pc[w] # "idle" => task[w] \in Messages
  /\ pc[w] \in {"idle", "scanning"} => key[w] = {}
  /\ pc[w] \notin {"idle", "scanning"} => \E k \in Keys : key[w] = {k} /\ k.kind = task[w].kind
  /\ pc[w] = "chunked" => rows[w] = Empty /\ task[w].kind = "comments"

Typed == TypeOK /\ Shaped

-----------------------------------------------------------------------------
\* An unclaimed and a running row are rows.
LEMMA RowType == NoRow \in Row /\ Running \in Row /\ Empty \in [Keys -> Row]
BY IngestionAssumption DEF NoRow, Running, Row, Empty

\* What a transaction sees of the rows are rows.
LEMMA VisibleType ==
  ASSUME TypeOK, NEW w \in Workers
  PROVE  Visible(w) \in [Keys -> Row]
BY DEF TypeOK, Visible

\* The time now has a bucket.
LEMMA KeyType ==
  ASSUME TypeOK, NEW c \in Cities, NEW kind \in Kinds
  PROVE  [city |-> c, bucket |-> Bucket(now), kind |-> kind] \in Keys
BY IngestionAssumption DEF TypeOK, Keys

LEMMA TypedInit == Init => Typed
BY IngestionAssumption, RowType DEF Init, Typed, TypeOK, Shaped, NoTask

\* A worker whose task is over, its transaction rolled back, holds nothing.
LEMMA TypedReset ==
  ASSUME Typed, NEW w \in Workers, RollbackTxn(w), Release(w), messages' \subseteq Messages,
         now' = now, fetches' = fetches, {faults, redrives}' \subseteq Nat
  PROVE  Typed'
<1> USE DEF Typed, RollbackTxn, Release, Goto
<1>1. TypeOK'
  BY RowType, IngestionAssumption DEF TypeOK, Messages, NoTask
<1>2. Shaped'
  BY DEF Shaped, TypeOK
<1>3. QED
  BY <1>1, <1>2

LEMMA TypedStep == Typed /\ [Next]_vars => Typed'
<1> SUFFICES ASSUME Typed, [Next]_vars PROVE Typed'
  OBVIOUS
<1> USE DEF Typed
<1>1. CASE Tick
  <2>1. now' \in 1..MaxTime
    BY <1>1, IngestionAssumption DEF Tick, TypeOK
  <2>2. QED
    BY <1>1, <2>1 DEF Tick, TypeOK, Shaped, local, txn, bounds
<1>2. CASE PruneJobs
  BY <1>2, RowType DEF PruneJobs, TypeOK, Shaped, local, txn, bounds
<1>3. ASSUME NEW kind \in Kinds, Enqueue(kind) PROVE Typed'
  BY <1>3, IngestionAssumption DEF Enqueue, TypeOK, Shaped, local, txn, bounds
<1>4. ASSUME NEW k \in Keys, RetryJob(k) PROVE Typed'
  <2>1. jobs[k] \in Row
    BY DEF TypeOK
  <2>2. [jobs[k] EXCEPT !.status = "queued"] \in Row
    BY <2>1 DEF Row
  <2>3. jobs' \in [Keys -> Row]
    BY <1>4, <2>2 DEF RetryJob, TypeOK
  <2>4. QED
    BY <1>4, <2>3 DEF RetryJob, TypeOK, Shaped, local, txn
<1>5. ASSUME NEW w \in Workers, StartTask(w) PROVE Typed'
  BY <1>5 DEF StartTask, TypeOK, Shaped, Messages, Goto, txn, bounds
<1>6. ASSUME NEW w \in Workers, PickCity(w) PROVE Typed'
  <2>1. task[w] \in Messages /\ pc[w] = "scanning" /\ key[w] = {}
    BY <1>6 DEF PickCity, Shaped
  <2>2. PICK c \in todo[w] : PickCity(w)!2!(c)
    BY <1>6 DEF PickCity
  <2>3. c \in Cities
    BY <2>2 DEF TypeOK
  <2>4. todo' \in [Workers -> SUBSET Cities]
    BY <2>2 DEF TypeOK
  <2>5. UNCHANGED <<now, jobs, stored, messages, task, started, answer, txn, fetches, bounds>>
    BY <1>6 DEF PickCity
  <2>6. CASE UNCHANGED <<pc, key>>
    BY <2>4, <2>5, <2>6 DEF TypeOK, Shaped, txn, bounds
  <2>7. CASE /\ key' = [key EXCEPT ![w] =
                          {[city |-> c, bucket |-> Bucket(now), kind |-> task[w].kind]}]
             /\ Goto(w, "claiming")
    <3> DEFINE k == [city |-> c, bucket |-> Bucket(now), kind |-> task[w].kind]
    <3>1. k \in Keys /\ k.kind = task[w].kind
      BY <2>1, <2>3, KeyType DEF Messages
    <3> HIDE DEF k
    <3>2. key' = [key EXCEPT ![w] = {k}]
      BY <2>7 DEF k
    <3>3. QED
      BY <2>1, <2>4, <2>5, <2>7, <3>1, <3>2 DEF TypeOK, Shaped, Goto, txn, bounds
  <2>8. QED
    BY <2>2, <2>6, <2>7
<1>7. ASSUME NEW w \in Workers, ClaimJob(w) PROVE Typed'
  BY <1>7, RowType DEF ClaimJob, TypeOK, Shaped, Goto, local, bounds
<1>8. ASSUME NEW w \in Workers, SkipDuplicate(w) PROVE Typed'
  BY <1>8, RowType DEF SkipDuplicate, TypeOK, Shaped, Goto, RollbackTxn, NextCity, bounds
<1>9. ASSUME NEW w \in Workers, Ask(w) PROVE Typed'
  <2>1. PICK k \in key[w] : Ask(w)!2!(k)
    BY <1>9 DEF Ask
  <2>2. k \in Keys /\ pc[w] = "running"
    BY <1>9 DEF Ask, TypeOK
  <2>3. rows[w][k] \in Row /\ now \in 0..MaxTime
    BY <2>2 DEF TypeOK
  <2>4. [rows[w][k] EXCEPT !.asked = now] \in Row
    BY <2>3 DEF Row
  <2>5. rows' \in [Workers -> [Keys -> Row]]
    BY <2>1, <2>2, <2>4 DEF TypeOK
  <2>6. fetches' \in [Keys -> 0..2]
    <3>1. fetches[k] \in 0..2 /\ fetches' = [fetches EXCEPT ![k] = IF @ < 2 THEN @ + 1 ELSE 2]
      BY <2>1, <2>2 DEF TypeOK
    <3>2. (IF fetches[k] < 2 THEN fetches[k] + 1 ELSE 2) \in 0..2
      BY <3>1
    <3>3. QED
      BY <3>1, <3>2 DEF TypeOK
  <2>7. answer' \in [Workers -> SUBSET Posts]
    <3>1. \E S \in SUBSET {p \in Posts : p > Since(k.city) /\ p <= now} :
            answer' = [answer EXCEPT ![w] = S]
      BY <2>1
    <3>2. QED
      BY <3>1 DEF TypeOK
  <2>8. \A v \in Workers \ {w} : rows'[v] = rows[v]
    BY <2>1 DEF TypeOK
  <2>9. QED
    BY <1>9, <2>2, <2>5, <2>6, <2>7, <2>8 DEF Ask, TypeOK, Shaped, Goto, bounds
<1>10. ASSUME NEW w \in Workers, FinishFetch(w) PROVE Typed'
  <2>1. PICK k \in key[w] : FinishFetch(w)!2!(k)
    BY <1>10 DEF FinishFetch
  <2>2. k \in Keys /\ pc[w] = "asked"
    BY <1>10 DEF FinishFetch, TypeOK
  <2>3. rows[w][k] \in Row /\ now \in 0..MaxTime
    BY <2>2 DEF TypeOK
  <2>4. [[rows[w][k] EXCEPT !.status = "success"] EXCEPT !.finished = now] \in Row
    BY <2>3 DEF Row
  <2>5. rows' \in [Workers -> [Keys -> Row]]
    BY <2>1, <2>2, <2>4 DEF TypeOK
  <2>6. posts' \in [Workers -> SUBSET (Cities \X Posts)]
    <3>1. k.city \in Cities
      BY <2>2 DEF Keys
    <3>2. Evidence(k, answer[w]) \in SUBSET (Cities \X Posts)
      BY <3>1 DEF Evidence, TypeOK
    <3>3. QED
      BY <2>1, <3>2 DEF TypeOK
  <2>7. \A v \in Workers \ {w} : rows'[v] = rows[v] /\ posts'[v] = posts[v]
    BY <2>1 DEF TypeOK
  <2>8. QED
    BY <1>10, <2>2, <2>5, <2>6, <2>7 DEF FinishFetch, TypeOK, Shaped, NextCity, Goto, bounds
<1>11. ASSUME NEW w \in Workers, CommitChunk(w) PROVE Typed'
  BY <1>11, RowType, VisibleType DEF CommitChunk, CommitTxn, TypeOK, Shaped, Goto, local, bounds
<1>12. ASSUME NEW w \in Workers, FinishComments(w) PROVE Typed'
  BY <1>12 DEF FinishComments, TypeOK, Shaped, Row, NextCity, Goto, txn, bounds
<1>13. ASSUME NEW w \in Workers, EndTask(w) PROVE Typed'
  <2> USE <1>13 DEF EndTask, CommitTxn, Release, Goto, bounds
  <2>1. TypeOK'
    BY RowType, VisibleType, IngestionAssumption DEF TypeOK, NoTask
  <2>2. Shaped'
    BY DEF Shaped, TypeOK
  <2>3. QED
    BY <2>1, <2>2
<1>14. ASSUME NEW w \in Workers, BreakDeadlock(w) PROVE Typed'
  BY <1>14, TypedReset DEF BreakDeadlock, TypeOK, Messages, bounds
<1>15. ASSUME NEW w \in Workers, FailPermanently(w) PROVE Typed'
  <2>1. PICK k \in key[w] : rows' = [rows EXCEPT ![w][k] =
                                    [status |-> "failed", finished |-> now, asked |-> 0]]
    BY <1>15 DEF FailPermanently
  <2>2. k \in Keys /\ pc[w] = "running" /\ now \in 0..MaxTime
    BY <1>15 DEF FailPermanently, TypeOK
  <2>3. [status |-> "failed", finished |-> now, asked |-> 0] \in Row
    BY <2>2, IngestionAssumption DEF Row
  <2>4. rows' \in [Workers -> [Keys -> Row]]
    BY <2>1, <2>2, <2>3 DEF TypeOK
  <2>5. \A v \in Workers \ {w} : rows'[v] = rows[v]
    BY <2>1 DEF TypeOK
  <2>6. QED
    BY <1>15, <2>2, <2>4, <2>5 DEF FailPermanently, TypeOK, Shaped, NextCity, Goto
<1>16. ASSUME NEW w \in Workers, FailTransiently(w) PROVE Typed'
  <2> USE <1>16 DEF FailTransiently, Release, Goto
  <2>1. PICK k \in key[w] : jobs' = [Visible(w) EXCEPT ![k] =
                                    [status |-> "failed", finished |-> now, asked |-> 0]]
    OBVIOUS
  <2>2. k \in Keys /\ pc[w] = "running" /\ now \in 0..MaxTime /\ task[w] \in Messages
    BY DEF TypeOK, Shaped
  <2>3. [status |-> "failed", finished |-> now, asked |-> 0] \in Row
    BY <2>2, IngestionAssumption DEF Row
  <2>4. jobs' \in [Keys -> Row]
    BY <2>1, <2>2, <2>3, VisibleType
  <2>5. messages' \subseteq Messages
    BY <2>2, IngestionAssumption DEF TypeOK, Messages
  <2>6. TypeOK'
    BY <2>4, <2>5, RowType, IngestionAssumption DEF TypeOK, NoTask, Messages
  <2>7. Shaped'
    BY DEF Shaped, TypeOK
  <2>8. QED
    BY <2>6, <2>7
<1>17. ASSUME NEW w \in Workers, Abort(w) PROVE Typed'
  BY <1>17, TypedReset DEF Abort, TypeOK, Messages
<1>18. ASSUME NEW w \in Workers, Kill(w) PROVE Typed'
  BY <1>18, TypedReset DEF Kill, TypeOK, Shaped, Messages
<1>19. CASE UNCHANGED vars
  BY <1>19 DEF vars, local, txn, bounds, TypeOK, Shaped
<1>20. QED
  BY <1>1, <1>2, <1>3, <1>4, <1>5, <1>6, <1>7, <1>8, <1>9, <1>10, <1>11, <1>12, <1>13, <1>14,
     <1>15, <1>16, <1>17, <1>18, <1>19 DEF Next, WorkerStep

\* Every variable keeps its type, for any cities, workers, limits and bounds (ingestion_tasks.py).
THEOREM TypeCorrect == Spec => []TypeOK
BY TypedInit, TypedStep, PTL DEF Spec, Typed
-----------------------------------------------------------------------------
(* What each action does, worker by worker and row by row. *)

\* Nobody else notices.
Others(w) == \A v \in Workers \ {w} :
  /\ pc'[v] = pc[v] /\ key'[v] = key[v] /\ todo'[v] = todo[v] /\ answer'[v] = answer[v]
  /\ started'[v] = started[v] /\ rows'[v] = rows[v] /\ posts'[v] = posts[v]

\* The worker stays at its city k, in its next phase.
Stays(w, k, before, after) ==
  /\ key[w] = {k} /\ pc[w] = before /\ pc'[w] = after /\ key'[w] = {k}
  /\ UNCHANGED <<started[w], todo[w]>>

\* The worker leaves its city k.
Leaves(w, k, before) ==
  /\ key[w] = {k} /\ pc[w] = before /\ pc'[w] = "scanning" /\ key'[w] = {} /\ answer'[w] = {}
  /\ UNCHANGED <<started[w], todo[w]>>

\* The worker is free.
Frees(w) == pc'[w] = "idle" /\ key'[w] = {} /\ todo'[w] = {} /\ answer'[w] = {}

\* w's row of k becomes row.
Writes(w, k, row) == rows'[w][k] = row /\ \A l \in Keys \ {k} : rows'[w][l] = rows[w][l]

\* What a commit makes of the rows: those of the transaction are new, the others as they were.
Publishes(w, K) == \A k \in K : /\ rows[w][k] # NoRow => jobs'[k] = rows[w][k]
                                /\ rows[w][k] = NoRow => jobs'[k] = jobs[k]

\* Nothing stays behind of the transaction.
Clears(w) == rows'[w] = Empty /\ posts'[w] = {}

PickDoes(w, c) ==
  /\ Others(w) /\ UNCHANGED <<now, jobs, stored, fetches, started[w], answer[w], rows[w], posts[w]>>
  /\ pc[w] = "scanning" /\ key[w] = {} /\ c \in todo[w] /\ todo'[w] = todo[w] \ {c}
  /\ \/ pc'[w] = "scanning" /\ key'[w] = {}
     \/ /\ pc'[w] = "claiming"
        /\ \E k \in Keys : k.city = c /\ k.bucket = Bucket(now) /\ key'[w] = {k}

ClaimDoes(w, k) ==
  /\ Others(w) /\ UNCHANGED <<now, jobs, stored, fetches, answer[w], posts[w]>>
  /\ Stays(w, k, "claiming", "running") /\ Writes(w, k, Running)
  /\ jobs[k] = NoRow /\ \A v \in Workers \ {w} : rows[v][k] = NoRow

AskDoes(w, k) ==
  /\ Others(w) /\ UNCHANGED <<now, jobs, stored, posts[w]>>
  /\ Stays(w, k, "running", "asked")
  /\ \E row \in Row : /\ row.status = rows[w][k].status /\ row.asked = now
                      /\ Writes(w, k, row)
  /\ \/ QuotaCuts \/ k.kind # "fetch"
     \/ answer'[w] = {p \in Posts : p > Since(k.city) /\ p <= now}
  /\ fetches'[k] = (IF fetches[k] < 2 THEN fetches[k] + 1 ELSE 2)
  /\ \A l \in Keys \ {k} : fetches'[l] = fetches[l]

FinishDoes(w, k) ==
  /\ Others(w) /\ UNCHANGED <<now, jobs, stored, fetches>>
  /\ Leaves(w, k, "asked")
  /\ \E row \in Row : /\ row = [status |-> "success", finished |-> now, asked |-> rows[w][k].asked]
                      /\ Writes(w, k, row)
  /\ posts'[w] = posts[w] \cup ({k.city} \X answer[w])

FailDoes(w, k) ==
  /\ Others(w) /\ UNCHANGED <<now, jobs, stored, fetches, posts[w]>>
  /\ Leaves(w, k, "running") /\ faults < MaxFaults
  /\ \E row \in Row : row.status = "failed" /\ Writes(w, k, row)

ChunkDoes(w, k) ==
  /\ Others(w) /\ UNCHANGED <<now, fetches, answer[w]>>
  /\ Stays(w, k, "asked", "chunked") /\ task[w].kind = "comments"
  /\ Publishes(w, Keys) /\ Clears(w) /\ stored' = stored \cup posts[w]

FinishCommentsDoes(w, k) ==
  /\ Others(w) /\ UNCHANGED <<now, stored, fetches, rows[w], posts[w]>>
  /\ Leaves(w, k, "chunked") /\ task[w].kind = "comments"
  /\ jobs'[k] = [status |-> "success", finished |-> now, asked |-> jobs[k].asked]
  /\ \A l \in Keys \ {k} : jobs'[l] = jobs[l]

EndDoes(w) ==
  /\ Others(w) /\ UNCHANGED <<now, fetches>>
  /\ pc[w] = "scanning" /\ key[w] = {} /\ Frees(w)
  /\ Publishes(w, Keys) /\ Clears(w) /\ stored' = stored \cup posts[w]

FailTransientlyDoes(w, k) ==
  /\ Others(w) /\ UNCHANGED <<now, fetches>>
  /\ key[w] = {k} /\ pc[w] = "running" /\ faults < MaxFaults /\ Frees(w)
  /\ jobs'[k].status = "failed" /\ Publishes(w, Keys \ {k})
  /\ Clears(w) /\ stored' = stored \cup posts[w]

ResetDoes(w) ==
  /\ Others(w) /\ UNCHANGED <<now, jobs, stored, fetches>>
  /\ faults < MaxFaults \/ (pc[w] = "claiming" /\ Deadlocked(w))
  /\ Frees(w) /\ Clears(w)

SkipDoes(w, k) ==
  /\ Others(w) /\ UNCHANGED <<now, jobs, stored, fetches>>
  /\ Leaves(w, k, "claiming") /\ Clears(w)

StartDoes(w) ==
  /\ Others(w) /\ UNCHANGED <<now, jobs, stored, fetches, key[w], answer[w], rows[w], posts[w]>>
  /\ pc[w] = "idle" /\ pc'[w] = "scanning" /\ todo'[w] = Cities /\ started'[w] = now

Local == <<pc, started, todo, key, answer, rows, posts>>

PruneDoes ==
  /\ UNCHANGED <<now, stored, fetches, Local>>
  /\ \A k \in Keys : \/ jobs'[k] = jobs[k]
                     \/ /\ jobs'[k] = NoRow /\ jobs[k].status = "success"
                        /\ jobs[k].asked + PRUNE_AFTER < now

RetryDoes(k) ==
  /\ UNCHANGED <<now, stored, fetches, Local>>
  /\ jobs[k] # NoRow /\ jobs'[k].status = "queued" /\ jobs'[k].asked = jobs[k].asked
  /\ \A l \in Keys \ {k} : jobs'[l] = jobs[l]

\* A task at a city has one key.
LEMMA TheKey ==
  ASSUME Typed, NEW w \in Workers, pc[w] \notin {"idle", "scanning"}, NEW k \in key[w]
  PROVE  k \in Keys /\ key[w] = {k}
BY DEF Typed, TypeOK, Shaped

\* A row written is the only change of the rows.
LEMMA WriteRow ==
  ASSUME Typed, NEW w \in Workers, NEW k \in Keys, NEW row,
         rows' = [rows EXCEPT ![w] = [@ EXCEPT ![k] = row]]
  PROVE  Writes(w, k, row) /\ \A v \in Workers \ {w} : rows'[v] = rows[v]
BY DEF Typed, TypeOK, Writes

LEMMA StartEffect == ASSUME Typed, NEW w \in Workers, StartTask(w) PROVE StartDoes(w)
BY DEF StartTask, StartDoes, Others, Goto, Typed, TypeOK, txn

LEMMA PickEffect ==
  ASSUME Typed, NEW w \in Workers, PickCity(w)
  PROVE  \E c \in Cities : PickDoes(w, c)
<1> USE DEF Typed
<1>1. task[w] \in Messages /\ pc[w] = "scanning" /\ key[w] = {}
  BY DEF PickCity, Shaped
<1>2. PICK c \in todo[w] : PickCity(w)!2!(c)
  BY DEF PickCity
<1>3. c \in Cities
  BY <1>2 DEF TypeOK
<1> DEFINE k == [city |-> c, bucket |-> Bucket(now), kind |-> task[w].kind]
<1>4. k \in Keys /\ k.city = c /\ k.bucket = Bucket(now)
  BY <1>1, <1>3, KeyType DEF Messages
<1>5. \/ UNCHANGED <<pc, key>>
      \/ key' = [key EXCEPT ![w] = {k}] /\ pc' = [pc EXCEPT ![w] = "claiming"]
  BY <1>2 DEF Goto
<1> HIDE DEF k
<1>6. Others(w) /\ todo'[w] = todo[w] \ {c}
  BY <1>2, <1>5 DEF PickCity, TypeOK, txn, Others
<1>7. \/ pc'[w] = "scanning" /\ key'[w] = {}
      \/ pc'[w] = "claiming" /\ key'[w] = {k}
  BY <1>1, <1>5 DEF TypeOK
<1>8. QED
  BY <1>1, <1>2, <1>3, <1>4, <1>6, <1>7 DEF PickCity, PickDoes, txn

LEMMA ClaimEffect ==
  ASSUME Typed, NEW w \in Workers, ClaimJob(w)
  PROVE  \E k \in Keys : ClaimDoes(w, k)
<1>1. PICK k \in key[w] : jobs[k] = NoRow /\ rows' = [rows EXCEPT ![w][k] = Running]
  BY DEF ClaimJob
<1>2. k \in Keys /\ key[w] = {k}
  BY TheKey DEF ClaimJob
<1>3. \A v \in Workers \ {w} : rows[v][k] = NoRow
  BY <1>1 DEF ClaimJob, Blockers
<1>4. Writes(w, k, Running) /\ \A v \in Workers \ {w} : rows'[v] = rows[v]
  BY <1>1, <1>2, WriteRow
<1>5. Others(w) /\ pc'[w] = "running"
  BY <1>4 DEF ClaimJob, Goto, local, Typed, TypeOK, Others
<1>6. QED
  BY <1>1, <1>2, <1>3, <1>4, <1>5 DEF ClaimJob, ClaimDoes, Stays, local

LEMMA AskEffect ==
  ASSUME Typed, NEW w \in Workers, Ask(w)
  PROVE  \E k \in Keys : AskDoes(w, k)
<1>1. PICK k \in key[w] : Ask(w)!2!(k)
  BY DEF Ask
<1>2. k \in Keys /\ key[w] = {k}
  BY TheKey DEF Ask
<1> DEFINE row == [rows[w][k] EXCEPT !.asked = now]
<1>3. row \in Row /\ row.status = rows[w][k].status /\ row.asked = now
  <2>1. rows[w][k] \in Row /\ now \in 0..MaxTime
    BY <1>2 DEF Typed, TypeOK
  <2>2. QED
    BY <2>1 DEF Row
<1>4. rows' = [rows EXCEPT ![w] = [@ EXCEPT ![k] = row]]
  BY <1>1, <1>2 DEF Typed, TypeOK
<1> HIDE DEF row
<1>5. Writes(w, k, row) /\ \A v \in Workers \ {w} : rows'[v] = rows[v]
  BY <1>2, <1>4, WriteRow
<1>6. \E S : /\ answer' = [answer EXCEPT ![w] = S]
             /\ \/ QuotaCuts \/ k.kind # "fetch"
                \/ S = {p \in Posts : p > Since(k.city) /\ p <= now}
  BY <1>1
<1>7. fetches' = [fetches EXCEPT ![k] = IF @ < 2 THEN @ + 1 ELSE 2]
  BY <1>1
<1>8. /\ fetches'[k] = (IF fetches[k] < 2 THEN fetches[k] + 1 ELSE 2)
      /\ \A l \in Keys \ {k} : fetches'[l] = fetches[l]
  BY <1>2, <1>7 DEF Typed, TypeOK
<1>9. /\ Others(w) /\ pc'[w] = "asked"
      /\ \/ QuotaCuts \/ k.kind # "fetch"
         \/ answer'[w] = {p \in Posts : p > Since(k.city) /\ p <= now}
  BY <1>5, <1>6 DEF Ask, Goto, Typed, TypeOK, Others
<1>10. QED
  BY <1>2, <1>3, <1>5, <1>8, <1>9 DEF Ask, AskDoes, Stays

\* _finish_job: only status and time are new.
LEMMA FinishedRow ==
  ASSUME NEW r \in Row, NEW t \in 0..MaxTime
  PROVE  /\ [status |-> "success", finished |-> t, asked |-> r.asked] \in Row
         /\ [r EXCEPT !.status = "success", !.finished = t] =
              [status |-> "success", finished |-> t, asked |-> r.asked]
<1>1. PICK a, b, c : r = [status |-> a, finished |-> b, asked |-> c]
  BY DEF Row
<1> DEFINE s == [r EXCEPT !.status = "success"]
<1>2. s = [status |-> "success", finished |-> b, asked |-> c]
  BY <1>1
<1>3. [r EXCEPT !.status = "success", !.finished = t] = [s EXCEPT !.finished = t]
  OBVIOUS
<1> HIDE DEF s
<1>4. [s EXCEPT !.finished = t] = [status |-> "success", finished |-> t, asked |-> c]
  BY <1>2
<1>5. [status |-> "success", finished |-> t, asked |-> r.asked] \in Row
  BY DEF Row
<1>6. QED
  BY <1>1, <1>3, <1>4, <1>5

LEMMA FinishEffect ==
  ASSUME Typed, NEW w \in Workers, FinishFetch(w)
  PROVE  \E k \in Keys : FinishDoes(w, k)
<1>1. PICK k \in key[w] : FinishFetch(w)!2!(k)
  BY DEF FinishFetch
<1>2. k \in Keys /\ key[w] = {k}
  BY TheKey DEF FinishFetch
<1> DEFINE row == [status |-> "success", finished |-> now, asked |-> rows[w][k].asked]
<1>3. rows[w][k] \in Row /\ now \in 0..MaxTime
  BY <1>2 DEF Typed, TypeOK
<1>4. row \in Row /\ row = [rows[w][k] EXCEPT !.status = "success", !.finished = now]
  BY <1>3, FinishedRow
<1>5. rows' = [rows EXCEPT ![w] = [@ EXCEPT ![k] = row]]
  BY <1>1, <1>2, <1>4 DEF Typed, TypeOK
<1> HIDE DEF row
<1>6. Writes(w, k, row) /\ \A v \in Workers \ {w} : rows'[v] = rows[v]
  BY <1>2, <1>5, WriteRow
<1>7. posts' = [posts EXCEPT ![w] = @ \cup ({k.city} \X answer[w])]
  BY <1>1 DEF Evidence
<1>8. Others(w) /\ Leaves(w, k, "asked") /\ posts'[w] = posts[w] \cup ({k.city} \X answer[w])
  BY <1>2, <1>6, <1>7 DEF FinishFetch, Goto, NextCity, Typed, TypeOK, Others, Leaves
<1>9. QED
  BY <1>2, <1>4, <1>6, <1>8 DEF row, FinishFetch, FinishDoes

LEMMA FailEffect ==
  ASSUME Typed, NEW w \in Workers, FailPermanently(w)
  PROVE  \E k \in Keys : FailDoes(w, k)
<1> DEFINE row == [status |-> "failed", finished |-> now, asked |-> 0]
<1>1. PICK k \in key[w] : rows' = [rows EXCEPT ![w][k] = row]
  BY DEF FailPermanently
<1>2. k \in Keys /\ key[w] = {k}
  BY TheKey DEF FailPermanently
<1>3. row \in Row /\ row.status = "failed"
  BY IngestionAssumption DEF Row, Typed, TypeOK
<1> HIDE DEF row
<1>4. Writes(w, k, row) /\ \A v \in Workers \ {w} : rows'[v] = rows[v]
  BY <1>1, <1>2, WriteRow
<1>5. Others(w) /\ Leaves(w, k, "running")
  BY <1>2, <1>4 DEF FailPermanently, Goto, NextCity, Typed, TypeOK, Others, Leaves
<1>6. QED
  BY <1>2, <1>3, <1>4, <1>5 DEF FailPermanently, FailDoes

LEMMA ChunkEffect ==
  ASSUME Typed, NEW w \in Workers, CommitChunk(w)
  PROVE  \E k \in Keys : ChunkDoes(w, k)
<1>1. PICK k \in Keys : key[w] = {k}
  BY DEF CommitChunk, Typed, Shaped
<1>2. Publishes(w, Keys)
  BY DEF CommitChunk, CommitTxn, Visible, Publishes
<1>3. Others(w) /\ Clears(w) /\ pc'[w] = "chunked"
  BY DEF CommitChunk, CommitTxn, Typed, TypeOK, Others, Clears, Goto, local
<1>4. QED
  BY <1>1, <1>2, <1>3 DEF CommitChunk, CommitTxn, ChunkDoes, Stays, local

LEMMA FinishCommentsEffect ==
  ASSUME Typed, NEW w \in Workers, FinishComments(w)
  PROVE  \E k \in Keys : FinishCommentsDoes(w, k)
<1>1. PICK k \in key[w] : jobs' = [jobs EXCEPT ![k] = [status |-> "success", finished |-> now,
                                                       asked |-> jobs[k].asked]]
  BY DEF FinishComments
<1>2. k \in Keys /\ key[w] = {k}
  BY TheKey DEF FinishComments
<1>3. task[w].kind = "comments"
  BY DEF Typed, Shaped, FinishComments
<1>4. /\ jobs'[k] = [status |-> "success", finished |-> now, asked |-> jobs[k].asked]
      /\ \A l \in Keys \ {k} : jobs'[l] = jobs[l]
  BY <1>1, <1>2 DEF Typed, TypeOK
<1>5. Others(w) /\ Leaves(w, k, "chunked")
  BY <1>2 DEF FinishComments, Goto, NextCity, Typed, TypeOK, Others, Leaves, txn
<1>6. QED
  BY <1>2, <1>3, <1>4, <1>5 DEF FinishComments, FinishCommentsDoes, txn

LEMMA EndEffect == ASSUME Typed, NEW w \in Workers, EndTask(w) PROVE EndDoes(w)
<1>1. Publishes(w, Keys)
  BY DEF EndTask, CommitTxn, Visible, Publishes
<1>2. Others(w) /\ Clears(w) /\ Frees(w)
  BY DEF EndTask, CommitTxn, Release, Goto, Typed, TypeOK, Others, Clears, Frees
<1>3. QED
  BY <1>1, <1>2 DEF EndTask, CommitTxn, EndDoes, Typed, Shaped

LEMMA FailTransientlyEffect ==
  ASSUME Typed, NEW w \in Workers, FailTransiently(w)
  PROVE  \E k \in Keys : FailTransientlyDoes(w, k)
<1>1. PICK k \in key[w] : jobs' = [Visible(w) EXCEPT ![k] =
                                  [status |-> "failed", finished |-> now, asked |-> 0]]
  BY DEF FailTransiently
<1>2. k \in Keys /\ key[w] = {k}
  BY TheKey DEF FailTransiently
<1>3. Others(w) /\ Clears(w) /\ Frees(w)
  BY DEF FailTransiently, Release, Goto, Typed, TypeOK, Others, Clears, Frees
<1>4. /\ jobs'[k].status = "failed"
      /\ \A l \in Keys \ {k} : jobs'[l] = Visible(w)[l]
  BY <1>1, <1>2 DEF Visible
<1>5. Publishes(w, Keys \ {k})
  BY <1>4 DEF Visible, Publishes
<1>6. QED
  BY <1>2, <1>3, <1>4, <1>5 DEF FailTransiently, FailTransientlyDoes

\* The three ends of a task that keep nothing.
LEMMA ResetEffect ==
  ASSUME Typed, NEW w \in Workers, BreakDeadlock(w) \/ Abort(w) \/ Kill(w)
  PROVE  ResetDoes(w)
<1>1. Others(w) /\ Clears(w) /\ Frees(w)
  BY DEF BreakDeadlock, Abort, Kill, RollbackTxn, Release, Goto, Typed, TypeOK, Others, Clears, Frees
<1>2. QED
  BY <1>1 DEF BreakDeadlock, Abort, Kill, RollbackTxn, Release, ResetDoes

LEMMA SkipEffect ==
  ASSUME Typed, NEW w \in Workers, SkipDuplicate(w)
  PROVE  \E k \in Keys : SkipDoes(w, k)
<1>1. PICK k \in Keys : key[w] = {k}
  BY DEF SkipDuplicate, Typed, Shaped
<1>2. Others(w) /\ Clears(w) /\ Leaves(w, k, "claiming")
  BY <1>1 DEF SkipDuplicate, RollbackTxn, NextCity, Goto, Typed, TypeOK, Others, Clears, Leaves
<1>3. QED
  BY <1>1, <1>2 DEF SkipDuplicate, RollbackTxn, NextCity, SkipDoes

LEMMA PruneEffect == ASSUME Typed, PruneJobs PROVE PruneDoes
BY DEF PruneJobs, PruneDoes, Typed, TypeOK, Local, local, txn

LEMMA RetryEffect == ASSUME Typed, NEW k \in Keys, RetryJob(k) PROVE RetryDoes(k)
BY DEF RetryJob, RetryDoes, Typed, TypeOK, Row, Local, local, txn

\* Every step does one of these.
TickDoes ==
  /\ UNCHANGED <<jobs, stored, fetches, Local>>
  /\ now' = now + 1 /\ \A w \in Workers : pc[w] # "idle" => now < started[w] + TIME_LIMIT

Does ==
  \/ UNCHANGED <<now, jobs, stored, fetches, Local>>
  \/ TickDoes \/ PruneDoes \/ \E k \in Keys : RetryDoes(k)
  \/ \E w \in Workers :
       \/ StartDoes(w) \/ EndDoes(w) \/ ResetDoes(w)
       \/ \E c \in Cities : PickDoes(w, c)
       \/ \E k \in Keys : \/ ClaimDoes(w, k) \/ SkipDoes(w, k) \/ AskDoes(w, k)
                          \/ FinishDoes(w, k) \/ FailDoes(w, k)
                          \/ ChunkDoes(w, k) \/ FinishCommentsDoes(w, k)
                          \/ FailTransientlyDoes(w, k)

LEMMA StepDoes == Typed /\ [Next]_vars => Does
<1> SUFFICES ASSUME Typed, [Next]_vars PROVE Does
  OBVIOUS
<1>1. CASE Tick
  BY <1>1 DEF Tick, TickDoes, Does, Local, local, txn
<1>2. CASE PruneJobs
  BY <1>2, PruneEffect DEF Does
<1>3. ASSUME NEW kind \in Kinds, Enqueue(kind) PROVE Does
  BY <1>3 DEF Enqueue, Does, Local, local, txn
<1>4. ASSUME NEW k \in Keys, RetryJob(k) PROVE Does
  BY <1>4, RetryEffect DEF Does
<1>5. ASSUME NEW w \in Workers, StartTask(w) \/ EndTask(w) PROVE Does
  BY <1>5, StartEffect, EndEffect DEF Does
<1>6. ASSUME NEW w \in Workers, BreakDeadlock(w) \/ Abort(w) \/ Kill(w) PROVE Does
  BY <1>6, ResetEffect DEF Does
<1>7. ASSUME NEW w \in Workers, PickCity(w) \/ ClaimJob(w) \/ SkipDuplicate(w) PROVE Does
  BY <1>7, PickEffect, ClaimEffect, SkipEffect DEF Does
<1>8. ASSUME NEW w \in Workers, Ask(w) \/ FinishFetch(w) \/ FailPermanently(w) PROVE Does
  BY <1>8, AskEffect, FinishEffect, FailEffect DEF Does
<1>9. ASSUME NEW w \in Workers, CommitChunk(w) \/ FinishComments(w) \/ FailTransiently(w) PROVE Does
  BY <1>9, ChunkEffect, FinishCommentsEffect, FailTransientlyEffect DEF Does
<1>10. CASE UNCHANGED vars
  BY <1>10 DEF vars, local, txn, Local, Does
<1>11. QED
  BY <1>1, <1>2, <1>3, <1>4, <1>5, <1>6, <1>7, <1>8, <1>9, <1>10 DEF Next, WorkerStep

-----------------------------------------------------------------------------
\* The unique job_key: a row not committed yet is its transaction's alone, the rows of the cities
\* under way say RUNNING, and a task between its two commits is the only one with its row.
Owned ==
  /\ \A w \in Workers, k \in Keys : rows[w][k] # NoRow => jobs[k] = NoRow
  /\ \A v, w \in Workers, k \in Keys : v # w /\ rows[v][k] # NoRow => rows[w][k] = NoRow
  /\ \A w \in Workers, k \in Keys :
       k \in key[w] /\ pc[w] \in {"running", "asked"} => rows[w][k].status = "running"
  /\ \A w \in Workers, k \in Keys :
       k \in key[w] /\ pc[w] = "chunked" => jobs[k].status \in {"running", "queued"}
  /\ \A v, w \in Workers, k \in Keys :
       v # w /\ k \in key[v] /\ pc[v] = "chunked" /\ pc[w] = "chunked" => k \notin key[w]

\* An unclaimed row, by its status.
LEMMA NoRowStatus == NoRow.status = "none" /\ Running.status = "running" /\ Running # NoRow
BY DEF NoRow, Running

LEMMA EmptyRow == \A k \in Keys : Empty[k] = NoRow
BY DEF Empty

LEMMA OwnedInit == Init => Owned
BY NoRowStatus, EmptyRow DEF Init, Owned

LEMMA OwnedStep == Typed /\ Owned /\ [Next]_vars => Owned'
<1> SUFFICES ASSUME Typed, Owned, [Next]_vars PROVE Owned'
  OBVIOUS
<1>1. CASE TickDoes
  BY <1>1, NoRowStatus, EmptyRow DEF Owned, TickDoes, Local
<1>2. CASE PruneDoes
  BY <1>2, NoRowStatus, EmptyRow DEF Owned, PruneDoes, Local
<1>3. ASSUME NEW k \in Keys, RetryDoes(k) PROVE Owned'
  BY <1>3, NoRowStatus, EmptyRow DEF Owned, RetryDoes, Local
<1>4. ASSUME NEW w \in Workers, StartDoes(w) PROVE Owned'
  BY <1>4, NoRowStatus, EmptyRow DEF Owned, StartDoes, Others
<1>5. ASSUME NEW w \in Workers, EndDoes(w) PROVE Owned'
  BY <1>5, NoRowStatus, EmptyRow DEF Owned, EndDoes, Others, Publishes, Clears, Frees
<1>6. ASSUME NEW w \in Workers, ResetDoes(w) PROVE Owned'
  BY <1>6, NoRowStatus, EmptyRow DEF Owned, ResetDoes, Others, Clears, Frees
<1>7. ASSUME NEW w \in Workers, NEW c \in Cities, PickDoes(w, c) PROVE Owned'
  BY <1>7, NoRowStatus, EmptyRow DEF Owned, PickDoes, Others
<1>8. ASSUME NEW w \in Workers, NEW k \in Keys, ClaimDoes(w, k) PROVE Owned'
  BY <1>8, NoRowStatus, EmptyRow DEF Owned, ClaimDoes, Others, Stays, Writes
<1>9. ASSUME NEW w \in Workers, NEW k \in Keys, SkipDoes(w, k) PROVE Owned'
  BY <1>9, NoRowStatus, EmptyRow DEF Owned, SkipDoes, Others, Leaves, Clears
<1>10. ASSUME NEW w \in Workers, NEW k \in Keys, AskDoes(w, k) PROVE Owned'
  BY <1>10, NoRowStatus, EmptyRow DEF Owned, AskDoes, Others, Stays, Writes
<1>11. ASSUME NEW w \in Workers, NEW k \in Keys, FinishDoes(w, k) PROVE Owned'
  BY <1>11, NoRowStatus, EmptyRow DEF Owned, FinishDoes, Others, Leaves, Writes
<1>12. ASSUME NEW w \in Workers, NEW k \in Keys, FailDoes(w, k) PROVE Owned'
  BY <1>12, NoRowStatus, EmptyRow DEF Owned, FailDoes, Others, Leaves, Writes
<1>13. ASSUME NEW w \in Workers, NEW k \in Keys, ChunkDoes(w, k) PROVE Owned'
  BY <1>13, NoRowStatus, EmptyRow DEF Owned, ChunkDoes, Others, Stays, Publishes, Clears
<1>14. ASSUME NEW w \in Workers, NEW k \in Keys, FinishCommentsDoes(w, k) PROVE Owned'
  BY <1>14, NoRowStatus, EmptyRow DEF Owned, FinishCommentsDoes, Others, Leaves
<1>15. ASSUME NEW w \in Workers, NEW k \in Keys, FailTransientlyDoes(w, k) PROVE Owned'
  BY <1>15, NoRowStatus, EmptyRow DEF Owned, FailTransientlyDoes, Others, Publishes, Clears, Frees
<1>16. CASE UNCHANGED <<now, jobs, stored, fetches, Local>>
  BY <1>16 DEF Owned, Local
<1>17. QED
  BY StepDoes, <1>1, <1>2, <1>3, <1>4, <1>5, <1>6, <1>7, <1>8, <1>9, <1>10, <1>11, <1>12,
     <1>13, <1>14, <1>15, <1>16 DEF Does

\* Two tasks never ask the source for one key at once, nor is a key asked for again while its row
\* says it succeeded: a claim waits for the transaction that holds the key and then finds its row
\* (_claim_job), however tasks overlap, fail, deadlock or are killed.
THEOREM AskedAloneHolds == Spec => []AskedAlone
<1>1. ASSUME Typed, Owned, NEW w \in Workers, NEW k \in key[w], pc[w] \in {"running", "asked"}
      PROVE  /\ jobs[k].status # "success"
             /\ \A v \in Workers \ {w} : pc[v] \in {"running", "asked", "chunked"} => k \notin key[v]
  <2>1. k \in Keys /\ rows[w][k].status = "running"
    BY <1>1, TheKey DEF Owned
  <2>2. rows[w][k] # NoRow
    BY <2>1, NoRowStatus
  <2>3. jobs[k] = NoRow /\ \A v \in Workers \ {w} : rows[v][k] = NoRow
    BY <1>1, <2>1, <2>2 DEF Owned
  <2>4. QED
    BY <1>1, <2>1, <2>3, NoRowStatus DEF Owned
<1>2. Typed /\ Owned => AskedAlone
  BY <1>1 DEF AskedAlone
<1>3. QED
  BY <1>2, TypedInit, TypedStep, OwnedInit, OwnedStep, PTL DEF Spec

\* A RUNNING row is that of the city its worker is at.
Backed ==
  /\ \A k \in Keys : jobs[k].status = "running" =>
       \E w \in Workers : pc[w] = "chunked" /\ k \in key[w]
  /\ \A w \in Workers, k \in Keys : rows[w][k].status = "running" =>
       pc[w] \in {"running", "asked"} /\ k \in key[w]

\* With fetch tasks alone nothing is committed as RUNNING; a task that commits in between must
\* not die before its second commit.
Unbroken == "comments" \notin Kinds \/ MaxFaults = 0

LEMMA BackedInit == Init => Backed
BY NoRowStatus, EmptyRow DEF Init, Backed

LEMMA BackedStep ==
  ASSUME Unbroken
  PROVE  Typed /\ Owned /\ Backed /\ [Next]_vars => Backed'
<1> SUFFICES ASSUME Typed, Owned, Backed, [Next]_vars PROVE Backed'
  OBVIOUS
<1>0. ASSUME NEW w \in Workers, pc[w] = "chunked" PROVE ~(faults < MaxFaults)
  BY <1>0, IngestionAssumption DEF Unbroken, Typed, Shaped, TypeOK, Messages
<1>1. CASE TickDoes
  BY <1>0, <1>1, NoRowStatus, EmptyRow DEF Backed, TickDoes, Local
<1>2. CASE PruneDoes
  BY <1>0, <1>2, NoRowStatus, EmptyRow DEF Backed, PruneDoes, Local
<1>3. ASSUME NEW k \in Keys, RetryDoes(k) PROVE Backed'
  BY <1>0, <1>3, NoRowStatus, EmptyRow DEF Backed, RetryDoes, Local
<1>4. ASSUME NEW w \in Workers, StartDoes(w) PROVE Backed'
  BY <1>0, <1>4, NoRowStatus, EmptyRow DEF Backed, StartDoes, Others
<1>5. ASSUME NEW w \in Workers, EndDoes(w) PROVE Backed'
  BY <1>0, <1>5, NoRowStatus, EmptyRow DEF Backed, EndDoes, Others, Publishes, Clears, Frees
<1>6. ASSUME NEW w \in Workers, ResetDoes(w) PROVE Backed'
  BY <1>0, <1>6, NoRowStatus, EmptyRow DEF Backed, ResetDoes, Others, Clears, Frees
<1>7. ASSUME NEW w \in Workers, NEW c \in Cities, PickDoes(w, c) PROVE Backed'
  BY <1>0, <1>7, NoRowStatus, EmptyRow DEF Backed, PickDoes, Others
<1>8. ASSUME NEW w \in Workers, NEW k \in Keys, ClaimDoes(w, k) PROVE Backed'
  BY <1>0, <1>8, NoRowStatus, EmptyRow DEF Backed, ClaimDoes, Others, Stays, Writes
<1>9. ASSUME NEW w \in Workers, NEW k \in Keys, SkipDoes(w, k) PROVE Backed'
  BY <1>0, <1>9, NoRowStatus, EmptyRow DEF Backed, SkipDoes, Others, Leaves, Clears
<1>10. ASSUME NEW w \in Workers, NEW k \in Keys, AskDoes(w, k) PROVE Backed'
  BY <1>0, <1>10, NoRowStatus, EmptyRow DEF Backed, AskDoes, Others, Stays, Writes
<1>11. ASSUME NEW w \in Workers, NEW k \in Keys, FinishDoes(w, k) PROVE Backed'
  BY <1>0, <1>11, NoRowStatus, EmptyRow DEF Backed, FinishDoes, Others, Leaves, Writes
<1>12. ASSUME NEW w \in Workers, NEW k \in Keys, FailDoes(w, k) PROVE Backed'
  BY <1>0, <1>12, NoRowStatus, EmptyRow DEF Backed, FailDoes, Others, Leaves, Writes
<1>13. ASSUME NEW w \in Workers, NEW k \in Keys, ChunkDoes(w, k) PROVE Backed'
  BY <1>0, <1>13, NoRowStatus, EmptyRow DEF Backed, ChunkDoes, Others, Stays, Publishes, Clears
<1>14. ASSUME NEW w \in Workers, NEW k \in Keys, FinishCommentsDoes(w, k) PROVE Backed'
  BY <1>0, <1>14, NoRowStatus, EmptyRow DEF Backed, FinishCommentsDoes, Others, Leaves
<1>15. ASSUME NEW w \in Workers, NEW k \in Keys, FailTransientlyDoes(w, k) PROVE Backed'
  BY <1>0, <1>15, NoRowStatus, EmptyRow DEF Backed, FailTransientlyDoes, Others, Publishes, Clears, Frees
<1>16. CASE UNCHANGED <<now, jobs, stored, fetches, Local>>
  BY <1>16 DEF Backed, Local
<1>17. QED
  BY StepDoes, <1>1, <1>2, <1>3, <1>4, <1>5, <1>6, <1>7, <1>8, <1>9, <1>10, <1>11, <1>12,
     <1>13, <1>14, <1>15, <1>16 DEF Does

\* Where no task dies between its commits, a committed RUNNING row is that of a worker which is at
\* its city and will finish it: every other RUNNING row ends with the transaction that wrote it.
THEOREM RunningHasWorkerHolds == Unbroken => (Spec => []RunningHasWorker)
<1> SUFFICES ASSUME Unbroken PROVE Spec => []RunningHasWorker
  OBVIOUS
<1>1. Backed => RunningHasWorker
  BY DEF Backed, RunningHasWorker
<1>2. QED
  BY <1>1, TypedInit, TypedStep, OwnedInit, OwnedStep, BackedInit, BackedStep, PTL DEF Spec

-----------------------------------------------------------------------------
\* No task outlives its limit.
Timely == \A w \in Workers : pc[w] # "idle" =>
  started[w] \in 1..now /\ now <= started[w] + TIME_LIMIT

LEMMA TimelyInit == Init => Timely
BY DEF Init, Timely

LEMMA TimelyStep == Typed /\ Timely /\ [Next]_vars => Timely'
<1> SUFFICES ASSUME Typed, Timely, [Next]_vars PROVE Timely'
  OBVIOUS
<1>0. now \in Nat /\ 1 <= now /\ TIME_LIMIT \in Nat /\ \A w \in Workers : started[w] \in Nat
  BY IngestionAssumption DEF Typed, TypeOK
<1>1. CASE TickDoes
  BY <1>0, <1>1, IngestionAssumption DEF Timely, TickDoes, Local
<1>2. CASE PruneDoes
  BY <1>0, <1>2, IngestionAssumption DEF Timely, PruneDoes, Local
<1>3. ASSUME NEW k \in Keys, RetryDoes(k) PROVE Timely'
  BY <1>0, <1>3, IngestionAssumption DEF Timely, RetryDoes, Local
<1>4. ASSUME NEW w \in Workers, StartDoes(w) PROVE Timely'
  BY <1>0, <1>4, IngestionAssumption DEF Timely, StartDoes, Others
<1>5. ASSUME NEW w \in Workers, EndDoes(w) PROVE Timely'
  BY <1>0, <1>5, IngestionAssumption DEF Timely, EndDoes, Others, Publishes, Clears, Frees
<1>6. ASSUME NEW w \in Workers, ResetDoes(w) PROVE Timely'
  BY <1>0, <1>6, IngestionAssumption DEF Timely, ResetDoes, Others, Clears, Frees
<1>7. ASSUME NEW w \in Workers, NEW c \in Cities, PickDoes(w, c) PROVE Timely'
  BY <1>0, <1>7, IngestionAssumption DEF Timely, PickDoes, Others
<1>8. ASSUME NEW w \in Workers, NEW k \in Keys, ClaimDoes(w, k) PROVE Timely'
  BY <1>0, <1>8, IngestionAssumption DEF Timely, ClaimDoes, Others, Stays, Writes
<1>9. ASSUME NEW w \in Workers, NEW k \in Keys, SkipDoes(w, k) PROVE Timely'
  BY <1>0, <1>9, IngestionAssumption DEF Timely, SkipDoes, Others, Leaves, Clears
<1>10. ASSUME NEW w \in Workers, NEW k \in Keys, AskDoes(w, k) PROVE Timely'
  BY <1>0, <1>10, IngestionAssumption DEF Timely, AskDoes, Others, Stays, Writes
<1>11. ASSUME NEW w \in Workers, NEW k \in Keys, FinishDoes(w, k) PROVE Timely'
  BY <1>0, <1>11, IngestionAssumption DEF Timely, FinishDoes, Others, Leaves, Writes
<1>12. ASSUME NEW w \in Workers, NEW k \in Keys, FailDoes(w, k) PROVE Timely'
  BY <1>0, <1>12, IngestionAssumption DEF Timely, FailDoes, Others, Leaves, Writes
<1>13. ASSUME NEW w \in Workers, NEW k \in Keys, ChunkDoes(w, k) PROVE Timely'
  BY <1>0, <1>13, IngestionAssumption DEF Timely, ChunkDoes, Others, Stays, Publishes, Clears
<1>14. ASSUME NEW w \in Workers, NEW k \in Keys, FinishCommentsDoes(w, k) PROVE Timely'
  BY <1>0, <1>14, IngestionAssumption DEF Timely, FinishCommentsDoes, Others, Leaves
<1>15. ASSUME NEW w \in Workers, NEW k \in Keys, FailTransientlyDoes(w, k) PROVE Timely'
  BY <1>0, <1>15, IngestionAssumption DEF Timely, FailTransientlyDoes, Others, Publishes, Clears, Frees
<1>16. CASE UNCHANGED <<now, jobs, stored, fetches, Local>>
  BY <1>16 DEF Timely, Local
<1>17. QED
  BY StepDoes, <1>1, <1>2, <1>3, <1>4, <1>5, <1>6, <1>7, <1>8, <1>9, <1>10, <1>11, <1>12,
     <1>13, <1>14, <1>15, <1>16 DEF Does

\* What a row stands for, with the posts found on the way in S.
Stands(row, c, S) ==
  /\ row.finished <= row.asked + TIME_LIMIT
  /\ \A p \in 1..row.asked : <<c, p>> \in S

\* What a successful fetch stands for has been stored, or is in its transaction, or in its hands.
Covered ==
  /\ \A k \in Keys : jobs[k].status = "success" => Stands(jobs[k], k.city, stored)
  /\ \A w \in Workers, k \in Keys : rows[w][k].status = "success" =>
       Stands(rows[w][k], k.city, stored \cup posts[w])
  /\ \A w \in Workers, k \in Keys : k \in key[w] /\ pc[w] = "asked" =>
       /\ rows[w][k].asked \in started[w]..now
       /\ \A p \in 1..rows[w][k].asked : p \in answer[w] \/ <<k.city, p>> \in stored

\* Fetch tasks alone, and a source that answers in full.
FetchesInFull == Kinds = {"fetch"} /\ ~QuotaCuts

\* A bounded set of times that is not empty has a latest one.
LEMMA Greatest ==
  ASSUME NEW b \in Nat, NEW S \in SUBSET (0..b), S # {}
  PROVE  \E t \in S : \A x \in S : x <= t
<1> DEFINE Above(t) == {x \in S : x > t}
           T == {Above(t) : t \in S}
<1>1. T \subseteq FiniteSubsetsOf(0..b) /\ T # {}
  <2>1. IsFiniteSet(0..b)
    BY FS_Interval
  <2>2. \A t \in S : Above(t) \in SUBSET (0..b)
    OBVIOUS
  <2>3. \A t \in S : IsFiniteSet(Above(t))
    BY <2>1, <2>2, FS_Subset
  <2>4. QED
    BY <2>2, <2>3 DEF FiniteSubsetsOf
<1>2. PICK A \in T : \A B \in T : ~(<<B, A>> \in StrictSubsetOrdering(0..b))
  BY <1>1, FS_StrictSubsetOrderingWellFounded, WFMin
<1>3. PICK t \in S : A = Above(t)
  BY <1>2
<1>4. ASSUME NEW x \in S, x > t PROVE FALSE
  <2>1. Above(x) \in T /\ Above(x) \subseteq A /\ x \in A /\ x \notin Above(x)
    <3>1. Above(x) \in T
      OBVIOUS
    <3>2. \A y \in S : y > x => y > t
      BY <1>4
    <3>3. Above(x) \subseteq A
      BY <1>3, <3>2
    <3>4. x \in A
      BY <1>3, <1>4
    <3>5. ~(x > x)
      OBVIOUS
    <3>6. QED
      BY <3>1, <3>3, <3>4, <3>5
  <2>2. <<Above(x), A>> \in StrictSubsetOrdering(0..b)
    BY <2>1, <1>3 DEF StrictSubsetOrdering
  <2>3. QED
    BY <1>2, <2>1, <2>2
<1>5. QED
  BY <1>4

\* The cursor of a city lies within what is stored of it (_last_success_at).
LEMMA CursorBehind ==
  ASSUME Typed, Covered, NEW c \in Cities
  PROVE  Since(c) \in Nat /\ \A p \in 1..Since(c) : <<c, p>> \in stored
<1> DEFINE F == {jobs[k].finished : k \in Successes(c)}
<1>1. CASE Successes(c) = {}
  BY <1>1 DEF Since
<1>2. CASE Successes(c) # {}
  <2>1. F \in SUBSET (0..MaxTime) /\ F # {}
    BY <1>2 DEF Successes, Typed, TypeOK, Row
  <2>2. PICK t \in F : \A x \in F : x <= t
    BY <2>1, Greatest, IngestionAssumption
  <2>3. LastSuccess(c) \in F
    BY <2>2 DEF LastSuccess
  <2>4. PICK k \in Successes(c) : LastSuccess(c) = jobs[k].finished
    BY <2>3
  <2>5. k \in Keys /\ k.city = c /\ jobs[k].status = "success" /\ jobs[k] \in Row
    BY <2>4 DEF Successes, Typed, TypeOK
  <2>6. Stands(jobs[k], c, stored) /\ jobs[k].asked \in Nat
    BY <2>5 DEF Covered, Row
  <2>7. LastSuccess(c) <= jobs[k].asked + OVERLAP /\ LastSuccess(c) \in Nat
    BY <2>1, <2>3, <2>4, <2>6, IngestionAssumption DEF Stands
  <2>8. Since(c) \in Nat /\ Since(c) <= jobs[k].asked
    BY <2>6, <2>7, IngestionAssumption DEF Since
  <2>9. QED
    BY <2>6, <2>8 DEF Stands
<1>3. QED
  BY <1>1, <1>2

LEMMA CoveredInit == Init => Covered
BY NoRowStatus, EmptyRow DEF Init, Covered

LEMMA CoveredStep ==
  ASSUME FetchesInFull
  PROVE  Typed /\ Owned /\ Timely /\ Covered /\ [Next]_vars => Covered'
<1> SUFFICES ASSUME Typed, Owned, Timely, Covered, [Next]_vars PROVE Covered'
  OBVIOUS
<1>0. /\ \A w \in Workers : pc[w] # "idle" => task[w].kind # "comments"
      /\ now \in Nat /\ now <= MaxTime /\ TIME_LIMIT \in Nat
      /\ \A w \in Workers : started[w] \in Nat
      /\ \A w \in Workers, k \in Keys : rows[w][k].asked \in Nat
  BY IngestionAssumption DEF FetchesInFull, Typed, Shaped, TypeOK, Messages, Row
<1>1. CASE TickDoes
  <2>1. UNCHANGED <<jobs, stored, pc, started, key, answer, rows, posts>> /\ now' = now + 1
    BY <1>1 DEF TickDoes, Local
  <2>2. \A w \in Workers : \A t \in started[w]..now : t \in started[w]..now'
    BY <1>0, <2>1
  <2>3. \A w \in Workers, k \in Keys : k \in key'[w] /\ pc'[w] = "asked" =>
          /\ rows'[w][k].asked \in started'[w]..now'
          /\ \A p \in 1..rows'[w][k].asked : p \in answer'[w] \/ <<k.city, p>> \in stored'
    BY <2>1, <2>2 DEF Covered
  <2>4. QED
    BY <2>1, <2>3 DEF Covered
<1>2. CASE PruneDoes
  BY <1>0, <1>2, NoRowStatus, EmptyRow DEF Covered, PruneDoes, Local
<1>3. ASSUME NEW k \in Keys, RetryDoes(k) PROVE Covered'
  BY <1>0, <1>3, NoRowStatus, EmptyRow DEF Covered, RetryDoes, Local, Stands
<1>4. ASSUME NEW w \in Workers, StartDoes(w) PROVE Covered'
  BY <1>0, <1>4, NoRowStatus, EmptyRow DEF Covered, StartDoes, Others, Typed, Shaped, Stands
<1>5. ASSUME NEW w \in Workers, EndDoes(w) PROVE Covered'
  BY <1>0, <1>5, NoRowStatus, EmptyRow DEF Covered, EndDoes, Others, Publishes, Clears, Frees, Stands
<1>6. ASSUME NEW w \in Workers, ResetDoes(w) PROVE Covered'
  BY <1>0, <1>6, NoRowStatus, EmptyRow DEF Covered, ResetDoes, Others, Clears, Frees, Stands
<1>7. ASSUME NEW w \in Workers, NEW c \in Cities, PickDoes(w, c) PROVE Covered'
  BY <1>0, <1>7, NoRowStatus, EmptyRow DEF Covered, PickDoes, Others, Stands
<1>8. ASSUME NEW w \in Workers, NEW k \in Keys, ClaimDoes(w, k) PROVE Covered'
  BY <1>0, <1>8, NoRowStatus, EmptyRow DEF Covered, ClaimDoes, Others, Stays, Writes, Stands
<1>9. ASSUME NEW w \in Workers, NEW k \in Keys, SkipDoes(w, k) PROVE Covered'
  BY <1>0, <1>9, NoRowStatus, EmptyRow DEF Covered, SkipDoes, Others, Leaves, Clears, Stands
<1>10. ASSUME NEW w \in Workers, NEW k \in Keys, AskDoes(w, k) PROVE Covered'
  <2> USE <1>10 DEF AskDoes, Others, Stays, Writes
  <2>1. PICK row \in Row : /\ row.status = rows[w][k].status /\ row.asked = now
                           /\ Writes(w, k, row)
    OBVIOUS
  <2>2. row.status = "running"
    BY <2>1 DEF Owned
  <2>3. k.city \in Cities /\ k.kind = "fetch"
    BY DEF Keys, FetchesInFull
  <2>4. answer'[w] = {p \in Posts : p > Since(k.city) /\ p <= now}
    BY <2>3 DEF FetchesInFull
  <2>5. \A p \in 1..now : p \in answer'[w] \/ <<k.city, p>> \in stored
    BY <1>0, <2>3, <2>4, CursorBehind, IngestionAssumption DEF Posts
  <2>6. started[w] <= now
    BY <1>0 DEF Timely
  <2>7. \A l \in Keys : rows'[w][l].status = "success" => rows[w][l].status = "success" /\ rows'[w][l] = rows[w][l]
    BY <2>1, <2>2
  <2>8. ASSUME NEW v \in Workers, NEW l \in Keys, rows'[v][l].status = "success"
        PROVE  Stands(rows'[v][l], l.city, stored' \cup posts'[v])
    <3>1. rows'[v][l] = rows[v][l] /\ posts'[v] = posts[v] /\ stored' = stored
      BY <2>7, <2>8
    <3>2. QED
      BY <2>8, <3>1 DEF Covered
  <2>9. row.asked \in started'[w]..now'
    BY <1>0, <2>1, <2>6
  <2>10. \A v \in Workers, l \in Keys : l \in key'[v] /\ pc'[v] = "asked" =>
          /\ rows'[v][l].asked \in started'[v]..now'
          /\ \A p \in 1..rows'[v][l].asked : p \in answer'[v] \/ <<l.city, p>> \in stored'
    BY <2>1, <2>5, <2>9 DEF Covered
  <2>11. QED
    BY <2>8, <2>10 DEF Covered
<1>11. ASSUME NEW w \in Workers, NEW k \in Keys, FinishDoes(w, k) PROVE Covered'
  <2> USE <1>11 DEF FinishDoes, Others, Leaves, Writes
  <2>1. PICK row \in Row :
          /\ row = [status |-> "success", finished |-> now, asked |-> rows[w][k].asked]
          /\ Writes(w, k, row)
    OBVIOUS
  <2>2. /\ row.finished = now /\ row.asked = rows[w][k].asked
        /\ rows[w][k].asked \in started[w]..now
        /\ \A p \in 1..rows[w][k].asked : p \in answer[w] \/ <<k.city, p>> \in stored
    BY <2>1 DEF Covered
  <2>3. now <= started[w] + TIME_LIMIT
    BY DEF Timely
  <2>4. Stands(row, k.city, stored \cup posts'[w])
    BY <1>0, <2>2, <2>3 DEF Stands
  <2>5. \A l \in Keys \ {k} : rows'[w][l].status = "success" => Stands(rows'[w][l], l.city, stored \cup posts'[w])
    BY <2>1 DEF Covered, Stands
  <2>6. \A v \in Workers, l \in Keys : rows'[v][l].status = "success" =>
          Stands(rows'[v][l], l.city, stored' \cup posts'[v])
    BY <2>1, <2>4, <2>5 DEF Covered
  <2>7. QED
    BY <2>6 DEF Covered
<1>12. ASSUME NEW w \in Workers, NEW k \in Keys, FailDoes(w, k) PROVE Covered'
  BY <1>0, <1>12, NoRowStatus, EmptyRow DEF Covered, FailDoes, Others, Leaves, Writes, Stands
<1>13. ASSUME NEW w \in Workers, NEW k \in Keys, ChunkDoes(w, k) PROVE Covered'
  BY <1>0, <1>13, NoRowStatus, EmptyRow DEF Covered, ChunkDoes, Others, Stays, Publishes, Clears
<1>14. ASSUME NEW w \in Workers, NEW k \in Keys, FinishCommentsDoes(w, k) PROVE Covered'
  BY <1>0, <1>14, NoRowStatus, EmptyRow DEF Covered, FinishCommentsDoes, Others, Leaves
<1>15. ASSUME NEW w \in Workers, NEW k \in Keys, FailTransientlyDoes(w, k) PROVE Covered'
  <2> USE <1>15 DEF FailTransientlyDoes, Others, Publishes, Clears, Frees
  <2>1. ASSUME NEW l \in Keys, jobs'[l].status = "success" PROVE Stands(jobs'[l], l.city, stored')
    <3>1. l # k
      BY <2>1
    <3>2. \/ jobs'[l] = rows[w][l] /\ Stands(rows[w][l], l.city, stored \cup posts[w])
          \/ jobs'[l] = jobs[l] /\ Stands(jobs[l], l.city, stored)
      BY <2>1, <3>1 DEF Covered
    <3>3. QED
      BY <3>2 DEF Stands
  <2>2. ASSUME NEW v \in Workers, NEW l \in Keys, rows'[v][l].status = "success"
        PROVE  Stands(rows'[v][l], l.city, stored' \cup posts'[v])
    <3>1. v # w
      BY <2>2, NoRowStatus, EmptyRow
    <3>2. QED
      BY <2>2, <3>1 DEF Covered, Stands
  <2>3. QED
    BY <2>1, <2>2 DEF Covered
<1>16. CASE UNCHANGED <<now, jobs, stored, fetches, Local>>
  BY <1>16 DEF Covered, Local
<1>17. QED
  BY StepDoes, <1>1, <1>2, <1>3, <1>4, <1>5, <1>6, <1>7, <1>8, <1>9, <1>10, <1>11, <1>12,
     <1>13, <1>14, <1>15, <1>16 DEF Does

\* "Incremental cursor: only fetch what is newer than the last good run": whatever overlaps, fails,
\* dies or is rolled back, what a city's successful runs stand for is stored, because a run outlives
\* neither its limit nor, therefore, the two hours the cursor goes back (_last_success_at).
THEOREM CursorCoversHolds == FetchesInFull => (Spec => []CursorCovers)
<1> SUFFICES ASSUME FetchesInFull PROVE Spec => []CursorCovers
  OBVIOUS
<1>1. Typed /\ Covered => CursorCovers
  BY DEF Covered, CursorCovers, Stands
<1>2. QED
  BY <1>1, TypedInit, TypedStep, OwnedInit, OwnedStep, TimelyInit, TimelyStep, CoveredInit,
     CoveredStep, PTL DEF Spec

-----------------------------------------------------------------------------
\* Too late for any task to hold the key.
Over(k) == k.bucket + DAY + TIME_LIMIT < now

\* The one city of a run without faults: its task either has the city before it, and no transaction,
\* or is at it or past it; a key asked for leaves a row, until it is too late to claim it again.
Once ==
  /\ \A w \in Workers : /\ pc[w] = "claiming" => rows[w] = Empty
                        /\ pc[w] \notin {"idle", "scanning"} => todo[w] = {}
                        /\ todo[w] # {} => rows[w] = Empty
  /\ \A w \in Workers, k \in Keys : k \in key[w] =>
       k.bucket <= now /\ started[w] < k.bucket + DAY
  /\ \A k \in Keys : jobs[k] # NoRow => k.bucket <= jobs[k].asked
  /\ \A w \in Workers, k \in Keys : rows[w][k] # NoRow =>
       k.bucket <= rows[w][k].asked \/ (pc[w] = "running" /\ k \in key[w])
  /\ \A k \in Keys : /\ fetches[k] <= 1
                     /\ fetches[k] # 0 => \/ jobs[k] # NoRow \/ Over(k)
                                          \/ \E v \in Workers : rows[v][k] # NoRow
  /\ \A w \in Workers, k \in Keys : pc[w] = "running" /\ k \in key[w] => fetches[k] = 0

OneCity == MaxFaults = 0 /\ \A c, d \in Cities : c = d

LEMMA Division ==
  ASSUME NEW t \in Nat, NEW d \in Nat \ {0}
  PROVE  (t % d) \in 0..(d - 1) /\ t \div d \in Nat /\ t = d * (t \div d) + (t % d)
OBVIOUS

\* A bucket begins no later than its times, and less than a day before them.
LEMMA BucketBounds ==
  ASSUME NEW t \in Nat
  PROVE  Bucket(t) \in Nat /\ Bucket(t) <= t /\ t < Bucket(t) + DAY
<1> DEFINE r == t % DAY
           q == r \div INTERVAL
<1>1. DAY \in Nat \ {0} /\ INTERVAL \in Nat \ {0}
  BY IngestionAssumption
<1>2. r \in Nat /\ r < DAY /\ r <= t
  <2>1. r \in 0..(DAY - 1) /\ t \div DAY \in Nat /\ t = DAY * (t \div DAY) + r
    BY <1>1, Division
  <2>2. DAY * (t \div DAY) \in Nat
    BY <1>1, <2>1
  <2> HIDE DEF r
  <2>3. QED
    BY <1>1, <2>1, <2>2
<1> HIDE DEF r
<1>3. q \in Nat /\ r = INTERVAL * q + (r % INTERVAL) /\ (r % INTERVAL) \in Nat
  BY <1>1, <1>2, Division
<1> HIDE DEF q
<1>4. INTERVAL * q \in Nat /\ INTERVAL * q = q * INTERVAL
  BY <1>1, <1>3
<1>5. Bucket(t) = (t - r) + q * INTERVAL
  BY DEF Bucket, r, q
<1>6. QED
  BY <1>1, <1>2, <1>3, <1>4, <1>5

LEMMA BucketsAreTimes == \A k \in Keys : k.bucket \in Nat
BY BucketBounds, IngestionAssumption DEF Keys

LEMMA OnceInit == Init => Once
BY NoRowStatus, EmptyRow DEF Init, Once

LEMMA OnceStep ==
  ASSUME OneCity
  PROVE  Typed /\ Owned /\ Timely /\ Once /\ [Next]_vars => Once'
<1> SUFFICES ASSUME Typed, Owned, Timely, Once, [Next]_vars PROVE Once'
  OBVIOUS
<1>0. /\ now \in Nat /\ {TIME_LIMIT, DAY, PRUNE_AFTER} \subseteq Nat /\ ~(faults < MaxFaults)
      /\ PRUNE_AFTER >= DAY + TIME_LIMIT
      /\ \A k \in Keys : k.bucket \in Nat /\ fetches[k] \in 0..2 /\ jobs[k].asked \in Nat
      /\ \A w \in Workers : started[w] \in Nat
      /\ \A w \in Workers, k \in Keys : rows[w][k].asked \in Nat
  BY IngestionAssumption, BucketsAreTimes DEF OneCity, Typed, TypeOK, Row
<1>1. CASE TickDoes
  BY <1>0, <1>1, NoRowStatus, EmptyRow DEF Once, TickDoes, Local, Over
<1>2. CASE PruneDoes
  BY <1>0, <1>2, NoRowStatus, EmptyRow DEF Once, PruneDoes, Local, Over
<1>3. ASSUME NEW k \in Keys, RetryDoes(k) PROVE Once'
  BY <1>0, <1>3, NoRowStatus, EmptyRow DEF Once, RetryDoes, Local, Over
<1>4. ASSUME NEW w \in Workers, StartDoes(w) PROVE Once'
  BY <1>0, <1>4, NoRowStatus, EmptyRow DEF Once, StartDoes, Others, Over, Typed, Shaped
<1>5. ASSUME NEW w \in Workers, EndDoes(w) PROVE Once'
  BY <1>0, <1>5, NoRowStatus, EmptyRow DEF Once, EndDoes, Others, Publishes, Clears, Frees, Over
<1>6. ASSUME NEW w \in Workers, ResetDoes(w) PROVE Once'
  BY <1>0, <1>6, NoRowStatus, EmptyRow DEF Once, ResetDoes, Others, Clears, Frees, Over, Deadlocked, Blockers
<1>7. ASSUME NEW w \in Workers, NEW c \in Cities, PickDoes(w, c) PROVE Once'
  <2> USE <1>7 DEF PickDoes, Others
  <2>1. todo'[w] = {} /\ rows[w] = Empty
    BY DEF OneCity, Typed, TypeOK, Once
  <2>2. ASSUME NEW l \in Keys, l \in key'[w] PROVE l.bucket <= now /\ started[w] < l.bucket + DAY
    <3>1. l.bucket = Bucket(now)
      BY <2>2
    <3>2. started[w] <= now
      BY <1>0 DEF Timely
    <3>3. Bucket(now) \in Nat /\ Bucket(now) <= now /\ now < Bucket(now) + DAY
      BY <1>0, BucketBounds
    <3>4. QED
      BY <1>0, <3>1, <3>2, <3>3
  <2>3. pc'[w] # "running" /\ pc[w] # "running"
    OBVIOUS
  <2>4. QED
    BY <2>1, <2>2, <2>3 DEF Once, Over
<1>8. ASSUME NEW w \in Workers, NEW k \in Keys, ClaimDoes(w, k) PROVE Once'
  BY <1>0, <1>8, NoRowStatus, EmptyRow DEF Once, ClaimDoes, Others, Stays, Writes, Over, Timely
<1>9. ASSUME NEW w \in Workers, NEW k \in Keys, SkipDoes(w, k) PROVE Once'
  BY <1>0, <1>9, NoRowStatus, EmptyRow DEF Once, SkipDoes, Others, Leaves, Clears, Over
<1>10. ASSUME NEW w \in Workers, NEW k \in Keys, AskDoes(w, k) PROVE Once'
  BY <1>0, <1>10, NoRowStatus, EmptyRow DEF Once, AskDoes, Others, Stays, Writes, Over, Owned
<1>11. ASSUME NEW w \in Workers, NEW k \in Keys, FinishDoes(w, k) PROVE Once'
  BY <1>0, <1>11, NoRowStatus, EmptyRow DEF Once, FinishDoes, Others, Leaves, Writes, Over, Owned
<1>12. ASSUME NEW w \in Workers, NEW k \in Keys, FailDoes(w, k) PROVE Once'
  BY <1>0, <1>12, NoRowStatus, EmptyRow DEF Once, FailDoes, Others, Leaves, Writes, Over
<1>13. ASSUME NEW w \in Workers, NEW k \in Keys, ChunkDoes(w, k) PROVE Once'
  BY <1>0, <1>13, NoRowStatus, EmptyRow DEF Once, ChunkDoes, Others, Stays, Publishes, Clears, Over
<1>14. ASSUME NEW w \in Workers, NEW k \in Keys, FinishCommentsDoes(w, k) PROVE Once'
  BY <1>0, <1>14, NoRowStatus, EmptyRow DEF Once, FinishCommentsDoes, Others, Leaves, Over, Owned
<1>15. ASSUME NEW w \in Workers, NEW k \in Keys, FailTransientlyDoes(w, k) PROVE Once'
  BY <1>0, <1>15, NoRowStatus, EmptyRow DEF Once, FailTransientlyDoes, Others, Publishes, Clears, Frees, Over
<1>16. CASE UNCHANGED <<now, jobs, stored, fetches, Local>>
  BY <1>16 DEF Once, Local, Over
<1>17. QED
  BY StepDoes, <1>1, <1>2, <1>3, <1>4, <1>5, <1>6, <1>7, <1>8, <1>9, <1>10, <1>11, <1>12,
     <1>13, <1>14, <1>15, <1>16 DEF Does

\* "A duplicate tick is recorded as skipped instead of double-fetching": where tasks neither fail nor
\* serve a second city, whose duplicate would roll the first one's row back, the source is asked once
\* for a key, whatever overlaps, is pruned or is retried by an admin (_claim_job).
THEOREM FetchedOnceHolds == OneCity => (Spec => []FetchedOnce)
<1> SUFFICES ASSUME OneCity PROVE Spec => []FetchedOnce
  OBVIOUS
<1>1. Once => FetchedOnce
  BY DEF Once, FetchedOnce
<1>2. QED
  BY <1>1, TypedInit, TypedStep, OwnedInit, OwnedStep, TimelyInit, TimelyStep, OnceInit,
     OnceStep, PTL DEF Spec

-----------------------------------------------------------------------------
\* A day is a whole number of intervals, as of the 6 and 24 hours that the fetched sources have by
\* default (config.source_interval_reddit_hours, source_interval_youtube_hours); up to a week can be set.
WholeIntervals == \E n \in Nat : DAY = INTERVAL * n

LEMMA BucketIsMultiple ==
  ASSUME WholeIntervals, NEW t \in Nat
  PROVE  \E m \in Nat : Bucket(t) = INTERVAL * m
<1> DEFINE r == t % DAY
           q == r \div INTERVAL
           d == t \div DAY
<1>1. PICK n \in Nat : DAY = INTERVAL * n
  BY DEF WholeIntervals
<1>2. DAY \in Nat \ {0} /\ INTERVAL \in Nat \ {0}
  BY IngestionAssumption
<1>3. r \in Nat /\ d \in Nat /\ t = DAY * d + r
  BY <1>2, Division
<1>4. Bucket(t) = (t - r) + q * INTERVAL
  BY DEF Bucket
<1>5. q \in Nat
  BY <1>2, <1>3, Division
<1> HIDE DEF r, q, d
<1>6. n * d + q \in Nat /\ (INTERVAL * n) * d = INTERVAL * (n * d)
  BY <1>1, <1>2, <1>3, <1>5
<1>7. Bucket(t) = INTERVAL * (n * d + q)
  BY <1>1, <1>2, <1>3, <1>4, <1>5, <1>6
<1>8. QED
  BY <1>6, <1>7

LEMMA Multiples ==
  ASSUME NEW m \in Nat, NEW d \in Nat \ {0}
  PROVE  (d * m) \div d = m
OBVIOUS

\* Two buckets of one interval are one.
LEMMA OneBucket ==
  ASSUME WholeIntervals, NEW a \in Nat, NEW b \in Nat,
         Bucket(a) \div INTERVAL = Bucket(b) \div INTERVAL
  PROVE  Bucket(a) = Bucket(b)
<1>1. PICK m \in Nat : Bucket(a) = INTERVAL * m
  BY BucketIsMultiple
<1>2. PICK n \in Nat : Bucket(b) = INTERVAL * n
  BY BucketIsMultiple
<1>3. (INTERVAL * m) \div INTERVAL = m /\ (INTERVAL * n) \div INTERVAL = n
  BY Multiples, IngestionAssumption
<1>4. (INTERVAL * m) \div INTERVAL = (INTERVAL * n) \div INTERVAL
  BY <1>1, <1>2
<1>5. QED
  BY <1>1, <1>2, <1>3, <1>4

\* "Bucket the clock by the source's interval so re-ticks collapse": when the interval divides the
\* day, all times of an interval have one key (_job_key).  An interval longer than a day does not.
THEOREM OneKeyPerIntervalHolds == WholeIntervals => (Spec => []OneKeyPerInterval)
<1> SUFFICES ASSUME WholeIntervals PROVE Spec => []OneKeyPerInterval
  OBVIOUS
<1>1. ASSUME NEW k \in Keys, NEW l \in Keys, k.city = l.city, k.kind = l.kind,
             k.bucket \div INTERVAL = l.bucket \div INTERVAL
      PROVE  k = l
  <2>1. PICK a \in 0..MaxTime : k.bucket = Bucket(a)
    BY DEF Keys
  <2>2. PICK b \in 0..MaxTime : l.bucket = Bucket(b)
    BY DEF Keys
  <2>3. k.bucket = l.bucket
    BY <1>1, <2>1, <2>2, OneBucket
  <2>4. QED
    BY <1>1, <2>3 DEF Keys
<1>2. OneKeyPerInterval
  BY <1>1 DEF OneKeyPerInterval
<1>3. QED
  BY <1>2, PTL
=============================================================================
