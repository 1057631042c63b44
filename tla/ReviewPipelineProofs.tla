------------------------- MODULE ReviewPipelineProofs -------------------------
(***************************************************************************)
(* Proofs about ReviewPipeline, for any number of workers, reviews and     *)
(* dishes, any crashes, resets and retries: type correctness, that an      *)
(* ingested review is processed by one worker at a time, that such reviews *)
(* go through ReviewLifecycle; what holds of all reviews while no two      *)
(* tasks work on one (`Alone'); and that without crashes every unsettled   *)
(* review is in somebody's hands (NoCrash).                                *)
(***************************************************************************)
EXTENDS ReviewPipeline, TLAPS

\* The initial state is well typed.
LEMMA TypeInit == Init => TypeOK
BY ReviewsAssumption DEF Init, TypeOK, AIState, Phases, NotLoaded

\* Leaving a review keeps the types of the locals it changes.
LEMMA LeaveTypes ==
  ASSUME TypeOK, NEW w \in Workers, NEW phase \in Phases, Leave(w, phase)
  PROVE  /\ pc' \in [Workers -> Phases]
         /\ batch' \in [Workers -> SUBSET Reviews]
         /\ cur' \in [Workers -> SUBSET Reviews]
<1>1. /\ pc \in [Workers -> Phases]
      /\ batch \in [Workers -> SUBSET Reviews]
      /\ cur \in [Workers -> SUBSET Reviews]
  BY DEF TypeOK
<1>2. CASE task[w] = "batch"
  <2>1. /\ pc' = [pc EXCEPT ![w] = "loop"]
        /\ batch' = [batch EXCEPT ![w] = @ \ cur[w]]
        /\ cur' = [cur EXCEPT ![w] = {}]
    BY <1>2 DEF Leave, Goto
  <2>2. batch[w] \ cur[w] \in SUBSET Reviews /\ "loop" \in Phases
    BY <1>1 DEF Phases
  <2>3. QED
    BY <1>1, <2>1, <2>2
<1>3. CASE task[w] # "batch"
  BY <1>1, <1>3 DEF Leave, Goto
<1>4. QED
  BY <1>2, <1>3

\* Every step keeps the types.
LEMMA TypeStep == TypeOK /\ [Next]_vars => TypeOK'
<1> SUFFICES ASSUME TypeOK, [Next]_vars PROVE TypeOK'
  OBVIOUS
<1> USE ReviewsAssumption DEF TypeOK, AIState, Phases
<1>1. ASSUME NEW r \in Reviews, Store(r) PROVE TypeOK'
  BY <1>1 DEF Store, Message, holding, session, faults
<1>2. ASSUME NEW w \in Workers, Claim(w) PROVE TypeOK'
  BY <1>2 DEF Claim, Claimable, Goto, session, faults
<1>3. ASSUME NEW w \in Workers, TakeNext(w) PROVE TypeOK'
  BY <1>3 DEF TakeNext, Goto, db, holding, session, faults
<1>4. ASSUME NEW w \in Workers, StartTask(w) PROVE TypeOK'
  <2> USE <1>4 DEF StartTask
  <2>1. PICK m \in messages : StartTask(w)!2!(m)
    OBVIOUS
  <2>2. CASE aiState[m.review] = "done"
    BY <2>1, <2>2 DEF db, holding, session, faults
  <2>3. CASE aiState[m.review] # "done"
    <3>1. m.review \in Reviews /\ m.retries \in Nat
      OBVIOUS
    <3>2. /\ pc' = [pc EXCEPT ![w] = "loaded"]
          /\ task' = [task EXCEPT ![w] = "one"]
          /\ retries' = [retries EXCEPT ![w] = m.retries]
          /\ batch' = [batch EXCEPT ![w] = {m.review}]
          /\ loaded' = [loaded EXCEPT ![w] = [state |-> aiState[m.review],
                                              attempts |-> attempts[m.review]]]
          /\ messages' = messages \ {m}
          /\ UNCHANGED <<found, seen, overtaken>>
      BY <2>1, <2>3 DEF Goto
    <3>3. loaded' \in [Workers -> [state : AIState, attempts : Nat]]
      <4>1. [state |-> aiState[m.review], attempts |-> attempts[m.review]]
              \in [state : AIState, attempts : Nat]
        BY <3>1
      <4>2. QED
        BY <3>2, <4>1
    <3>4. /\ pc' \in [Workers -> Phases]
          /\ task' \in [Workers -> {"none", "batch", "one"}]
          /\ retries' \in [Workers -> Nat]
          /\ batch' \in [Workers -> SUBSET Reviews]
      BY <3>1, <3>2
    <3>5. QED
      BY <1>4, <3>2, <3>3, <3>4 DEF StartTask, db, faults
  <2>4. QED
    BY <2>2, <2>3
<1>5. ASSUME NEW w \in Workers, BeginTask(w) PROVE TypeOK'
  BY <1>5 DEF BeginTask, Goto, holding, session, faults
<1>6. ASSUME NEW w \in Workers, Snapshot(w) PROVE TypeOK'
  BY <1>6 DEF Snapshot, Goto, db, holding, faults
<1>7. ASSUME NEW w \in Workers, ClearEvidence(w) PROVE TypeOK'
  BY <1>7 DEF ClearEvidence, Goto, db, holding, faults
<1>8. ASSUME NEW w \in Workers, Commit(w) PROVE TypeOK'
  <2>1. PICK r \in cur[w] : Commit(w)!2!(r)
    BY <1>8 DEF Commit
  <2>2. r \in Reviews
    OBVIOUS
  <2>3. Kept(w, r) \cup found[w] \in SUBSET Dishes
    BY <2>2 DEF Kept
  <2>4. \A D \in SUBSET Dishes : PairsOf(r, D) \in SUBSET Pairs
    BY <2>2 DEF PairsOf, Pairs
  <2>5. aiState' \in [Reviews -> AIState] /\ mentions' \in [Reviews -> SUBSET Dishes]
    BY <2>1, <2>2, <2>3
  <2>6. unranked' \subseteq Pairs /\ dirty' \in [Workers -> SUBSET Pairs]
    <3>1. unranked' = unranked \cup
            PairsOf(r, ((Kept(w, r) \cup found[w]) \ mentions[r]) \cup
                         (mentions[r] \ (Kept(w, r) \cup found[w])))
      BY <2>1
    <3>2. ((Kept(w, r) \cup found[w]) \ mentions[r]) \cup
             (mentions[r] \ (Kept(w, r) \cup found[w])) \in SUBSET Dishes
      BY <2>2, <2>3
    <3>3. PairsOf(r, seen[w] \cup found[w]) \in SUBSET Pairs
      BY <2>4
    <3>4. dirty' = [dirty EXCEPT ![w] = @ \cup PairsOf(r, seen[w] \cup found[w])]
      BY <2>1
    <3>5. QED
      BY <2>4, <3>1, <3>2, <3>3, <3>4
  <2>7. overtaken' \in [Workers -> BOOLEAN] /\ jobs' \subseteq Reviews
    BY <2>1, <2>2
  <2>8. /\ pc' \in [Workers -> Phases]
        /\ batch' \in [Workers -> SUBSET Reviews]
        /\ cur' \in [Workers -> SUBSET Reviews]
    BY <1>8, LeaveTypes DEF Commit
  <2>9. QED
    BY <1>8, <2>5, <2>6, <2>7, <2>8 DEF Commit, holding, faults
<1>9. ASSUME NEW w \in Workers, Raise(w) PROVE TypeOK'
  BY <1>9 DEF Raise, Goto, db, holding, session, faults
<1>10. ASSUME NEW w \in Workers, MarkFailed(w) PROVE TypeOK'
  BY <1>10, LeaveTypes DEF MarkFailed, holding, session, faults
<1>11. ASSUME NEW w \in Workers, Retry(w) PROVE TypeOK'
  BY <1>11 DEF Retry, Release, Goto, Message, NotLoaded, db, faults
<1>12. ASSUME NEW w \in Workers, Finish(w) PROVE TypeOK'
  BY <1>12 DEF Finish, Release, Goto, NotLoaded, db, faults
<1>13. ASSUME NEW w \in Workers, Kill(w) PROVE TypeOK'
  BY <1>13 DEF Kill, Release, Goto, Message, NotLoaded, db
<1>14. ASSUME NEW w \in Workers, Abort(w) PROVE TypeOK'
  BY <1>14 DEF Abort, Release, Goto, NotLoaded, db
<1>15. ASSUME ResetStuck PROVE TypeOK'
  BY <1>15 DEF ResetStuck, Stuck, holding, session
<1>16. ASSUME NEW r \in Reviews, AdminRetry(r) PROVE TypeOK'
  BY <1>16 DEF AdminRetry, holding, session
<1>17. CASE UNCHANGED vars
  BY <1>17 DEF vars, db, holding, session, faults
<1>18. QED
  BY <1>1, <1>2, <1>3, <1>4, <1>5, <1>6, <1>7, <1>8, <1>9, <1>10, <1>11, <1>12, <1>13,
     <1>14, <1>15, <1>16, <1>17 DEF Next, WorkerStep

\* Every variable of ReviewPipeline keeps its type: the counters of attempts and retries
\* of workers/ai_tasks.py stay naturals, the tasks only hold rows that exist.
THEOREM TypeCorrect == Spec => []TypeOK
<1>1. QED
  BY TypeInit, TypeStep, PTL DEF Spec

-----------------------------------------------------------------------------
\* Only a user's review is ever the subject of ai.process_review.
OneIsUsers ==
  /\ \A m \in messages : m.review \in UserReviews
  /\ \A w \in Workers : /\ task[w] = "one" => batch[w] \subseteq UserReviews
                        /\ pc[w] \in {"loaded", "retrying"} => task[w] = "one"
                        /\ pc[w] # "idle" => task[w] # "none"
                        /\ pc[w] = "idle" => batch[w] = {}
                        /\ cur[w] \subseteq batch[w]

\* A sweepable review in a worker's hands is PROCESSING, by its claim.
HeldIsProcessing ==
  \A w \in Workers : \A r \in batch[w] \cap Sweepable : aiState[r] = "processing"

\* No two workers hold the same sweepable review.
HeldOnce ==
  \A v, w \in Workers : \A r \in Sweepable : r \in batch[v] /\ r \in batch[w] => v = w

\* Nobody replaces a sweepable review's mentions behind the back of its worker.
NotOvertaken ==
  \A w \in Workers : pc[w] = "persisting" /\ overtaken[w] => cur[w] \cap Sweepable = {}

IInv == TypeOK /\ OneIsUsers /\ HeldIsProcessing /\ HeldOnce /\ NotOvertaken

\* What the claim's guard and the attempts of the tasks keep true of sweepable reviews.
LEMMA InvInit == Init => IInv
BY TypeInit DEF Init, IInv, OneIsUsers, HeldIsProcessing, HeldOnce, NotOvertaken

\* Leaving a review changes the locals of its worker only, and gives up what it worked on
\* in a batch.
LEMMA LeaveEffect ==
  ASSUME TypeOK, NEW w \in Workers, NEW phase \in Phases, Leave(w, phase)
  PROVE  /\ \A v \in Workers \ {w} : pc'[v] = pc[v] /\ batch'[v] = batch[v] /\ cur'[v] = cur[v]
         /\ task[w] = "batch" => /\ pc'[w] = "loop" /\ cur'[w] = {}
                                 /\ batch'[w] = batch[w] \ cur[w]
         /\ task[w] # "batch" => /\ pc'[w] = phase /\ cur'[w] = cur[w]
                                 /\ batch'[w] = batch[w]
<1>1. /\ pc \in [Workers -> Phases]
      /\ batch \in [Workers -> SUBSET Reviews]
      /\ cur \in [Workers -> SUBSET Reviews]
  BY DEF TypeOK
<1>2. QED
  BY <1>1 DEF Leave, Goto

\* Every step keeps the invariant.
LEMMA InvStep == IInv /\ [Next]_vars => IInv'
<1> SUFFICES ASSUME IInv, [Next]_vars
             PROVE  (OneIsUsers /\ HeldIsProcessing /\ HeldOnce /\ NotOvertaken)'
  BY TypeStep DEF IInv
<1> USE ReviewsAssumption
    DEF IInv, TypeOK, OneIsUsers, HeldIsProcessing, HeldOnce, NotOvertaken, Sweepable
<1> DEFINE Goal == (OneIsUsers /\ HeldIsProcessing /\ HeldOnce /\ NotOvertaken)'
<1>1. ASSUME NEW r \in Reviews, Store(r) PROVE Goal
  BY <1>1 DEF Store, Message, holding, session, faults
<1>2. ASSUME NEW w \in Workers, Claim(w) PROVE Goal
  BY <1>2 DEF Claim, Claimable, Goto, session, faults
<1>3. ASSUME NEW w \in Workers, TakeNext(w) PROVE Goal
  BY <1>3 DEF TakeNext, Goto, db, holding, session, faults
<1>4. ASSUME NEW w \in Workers, StartTask(w) PROVE Goal
  <2>1. PICK m \in messages : StartTask(w)!2!(m)
    BY <1>4 DEF StartTask
  <2>2. CASE aiState[m.review] = "done"
    BY <1>4, <2>1, <2>2 DEF StartTask, db, holding, session, faults
  <2>3. CASE aiState[m.review] # "done"
    <3>1. /\ pc' = [pc EXCEPT ![w] = "loaded"]
          /\ task' = [task EXCEPT ![w] = "one"]
          /\ batch' = [batch EXCEPT ![w] = {m.review}]
          /\ messages' = messages \ {m}
          /\ UNCHANGED overtaken
      BY <2>1, <2>3 DEF Goto
    <3>2. UNCHANGED <<aiState, cur>> /\ pc[w] = "idle"
      BY <1>4 DEF StartTask, db
    <3>3. m.review \in UserReviews
      OBVIOUS
    <3>4. OneIsUsers'
      BY <3>1, <3>2, <3>3
    <3>5. HeldIsProcessing' /\ HeldOnce' /\ NotOvertaken'
      BY <3>1, <3>2, <3>3
    <3>6. QED
      BY <3>4, <3>5
  <2>4. QED
    BY <2>2, <2>3
<1>5. ASSUME NEW w \in Workers, BeginTask(w) PROVE Goal
  BY <1>5 DEF BeginTask, Goto, holding, session, faults
<1>6. ASSUME NEW w \in Workers, Snapshot(w) PROVE Goal
  BY <1>6 DEF Snapshot, Goto, db, holding, faults
<1>7. ASSUME NEW w \in Workers, ClearEvidence(w) PROVE Goal
  BY <1>7 DEF ClearEvidence, Goto, db, holding, faults
<1>8. ASSUME NEW w \in Workers, Commit(w) PROVE Goal
  <2>1. PICK r \in cur[w] : Commit(w)!2!(r)
    BY <1>8 DEF Commit
  <2>2. /\ r \in Reviews /\ r \in batch[w]
        /\ aiState' = [aiState EXCEPT ![r] = "done"]
        /\ overtaken' = [v \in Workers |->
                           overtaken[v] \/ (v # w /\ cur[v] = {r} /\ pc[v] = "persisting")]
    BY <2>1
  <2>3. UNCHANGED <<task, messages>> /\ pc[w] = "persisting"
    BY <1>8 DEF Commit, holding
  <2>4. Leave(w, "ending") /\ "ending" \in Phases
    BY <1>8 DEF Commit, Phases
  <2>5. OneIsUsers'
    <3>1. ASSUME NEW v \in Workers, v # w
          PROVE  /\ task'[v] = task[v] /\ pc'[v] = pc[v]
                 /\ batch'[v] = batch[v] /\ cur'[v] = cur[v]
      BY <2>3, <2>4, <3>1, LeaveEffect
    <3>2. /\ task'[w] = task[w] /\ pc'[w] \notin {"loaded", "retrying", "idle"}
          /\ batch'[w] \subseteq batch[w] /\ cur'[w] \subseteq batch'[w]
      BY <2>3, <2>4, LeaveEffect
    <3>3. QED
      BY <2>3, <3>1, <3>2
  <2>6. \A v \in Workers : batch'[v] \subseteq batch[v] /\ cur'[v] \subseteq cur[v]
    BY <2>4, LeaveEffect
  <2>7. ASSUME r \in Sweepable, NEW v \in Workers PROVE r \notin batch'[v]
    <3>1. CASE v = w
      <4>1. task[w] = "batch"
        BY <2>2, <2>3, <2>7
      <4>2. QED
        BY <2>4, <3>1, <4>1, LeaveEffect
    <3>2. CASE v # w
      BY <2>2, <2>6, <2>7, <3>2
    <3>3. QED
      BY <3>1, <3>2
  <2>8. HeldOnce'
    BY <2>6
  <2>9. HeldIsProcessing'
    <3>1. SUFFICES ASSUME NEW v \in Workers, NEW x \in batch'[v] \cap Sweepable
                   PROVE  aiState'[x] = "processing"
      OBVIOUS
    <3>2. x \in batch[v] /\ x # r
      BY <2>6, <2>7, <3>1
    <3>3. QED
      BY <2>2, <3>1, <3>2
  <2>10. NotOvertaken'
    <3>1. SUFFICES ASSUME NEW v \in Workers, pc'[v] = "persisting", overtaken'[v],
                          NEW x \in cur'[v] \cap Sweepable
                   PROVE  FALSE
      OBVIOUS
    <3>2. v # w /\ pc[v] = "persisting" /\ x \in cur[v]
      BY <2>4, <2>6, <3>1, LeaveEffect
    <3>3. CASE overtaken[v]
      BY <3>1, <3>2, <3>3
    <3>4. CASE cur[v] = {r}
      BY <2>2, <3>1, <3>2, <3>4
    <3>5. QED
      BY <2>2, <3>1, <3>3, <3>4
  <2>11. QED
    BY <2>5, <2>8, <2>9, <2>10
<1>9. ASSUME NEW w \in Workers, Raise(w) PROVE Goal
  BY <1>9 DEF Raise, Goto, db, holding, session, faults
<1>10. ASSUME NEW w \in Workers, MarkFailed(w) PROVE Goal
  <2>1. PICK r \in cur[w] : MarkFailed(w)!2!(r)
    BY <1>10 DEF MarkFailed
  <2>2. /\ r \in Reviews /\ r \in batch[w]
        /\ \A x \in Reviews \ {r} : aiState'[x] = aiState[x]
    BY <2>1
  <2>3. UNCHANGED <<task, messages, overtaken>> /\ pc[w] = "failing"
    BY <1>10 DEF MarkFailed, holding, session
  <2>4. Leave(w, "retrying") /\ "retrying" \in Phases
    BY <1>10 DEF MarkFailed, Phases
  <2>5. OneIsUsers'
    BY <2>2, <2>3, <2>4, LeaveEffect
  <2>6. \A v \in Workers : batch'[v] \subseteq batch[v] /\ cur'[v] \subseteq cur[v]
    BY <2>4, LeaveEffect
  <2>7. ASSUME r \in Sweepable, NEW v \in Workers PROVE r \notin batch'[v]
    <3>1. CASE v = w
      <4>1. task[w] = "batch"
        BY <2>2, <2>3, <2>7
      <4>2. QED
        BY <2>4, <3>1, <4>1, LeaveEffect
    <3>2. CASE v # w
      BY <2>2, <2>6, <2>7, <3>2
    <3>3. QED
      BY <3>1, <3>2
  <2>8. HeldOnce'
    BY <2>6
  <2>9. HeldIsProcessing'
    <3>1. SUFFICES ASSUME NEW v \in Workers, NEW x \in batch'[v] \cap Sweepable
                   PROVE  aiState'[x] = "processing"
      OBVIOUS
    <3>2. x \in batch[v] /\ x # r
      BY <2>6, <2>7, <3>1
    <3>3. QED
      BY <2>2, <3>1, <3>2
  <2>10. NotOvertaken'
    <3>1. \A v \in Workers : pc'[v] = "persisting" => pc[v] = "persisting"
      BY <2>4, LeaveEffect
    <3>2. QED
      BY <2>3, <2>6, <3>1
  <2>11. QED
    BY <2>5, <2>8, <2>9, <2>10
<1>11. ASSUME NEW w \in Workers, Retry(w) PROVE Goal
  BY <1>11 DEF Retry, Release, Goto, Message, NotLoaded, db, faults
<1>12. ASSUME NEW w \in Workers, Finish(w) PROVE Goal
  BY <1>12 DEF Finish, Release, Goto, NotLoaded, db, faults
<1>13. ASSUME NEW w \in Workers, Kill(w) PROVE Goal
  BY <1>13 DEF Kill, Release, Goto, Message, NotLoaded, db
<1>14. ASSUME NEW w \in Workers, Abort(w) PROVE Goal
  BY <1>14 DEF Abort, Release, Goto, NotLoaded, db
<1>15. ASSUME ResetStuck PROVE Goal
  BY <1>15 DEF ResetStuck, Stuck, Holders, Holds, holding, session
<1>16. ASSUME NEW r \in Reviews, AdminRetry(r) PROVE Goal
  BY <1>16 DEF AdminRetry, holding, session
<1>17. CASE UNCHANGED vars
  BY <1>17 DEF vars, db, holding, session, faults
<1>18. QED
  BY <1>1, <1>2, <1>3, <1>4, <1>5, <1>6, <1>7, <1>8, <1>9, <1>10, <1>11, <1>12, <1>13,
     <1>14, <1>15, <1>16, <1>17 DEF Next, WorkerStep

\* SweptExclusively: an ingested review is never in the hands of two workers, whatever
\* crashes, resets, user tasks and admin retries go on beside it.
THEOREM SweptExclusivelyHolds == Spec => []SweptExclusively
<1>1. IInv => SweptExclusively
  BY DEF IInv, SweptExclusively, HeldOnce, Holders, Holds, Sweepable
<1>2. QED
  BY InvInit, InvStep, <1>1, PTL DEF Spec

-----------------------------------------------------------------------------

\* The initial state of the pipeline is one of the lifecycle.
LEMMA LifecycleInit == Init => Lifecycle!Init
BY DEF Init, Lifecycle!Init, Sweepable

\* A step that changes the rows of reviews outside Sweepable only is a stutter.
LEMMA LifecycleStutter ==
  ASSUME \A r \in Sweepable : /\ aiState'[r] = aiState[r]
                               /\ attempts'[r] = attempts[r]
                               /\ mentions'[r] = mentions[r]
  PROVE  UNCHANGED Lifecycle!vars
BY DEF Lifecycle!vars

\* Every step is a step of the lifecycle or leaves its variables alone.
LEMMA LifecycleStep == IInv /\ [Next]_vars => [Lifecycle!Next]_(Lifecycle!vars)
<1> SUFFICES ASSUME IInv, [Next]_vars PROVE [Lifecycle!Next]_(Lifecycle!vars)
  OBVIOUS
<1> DEFINE Goal == [Lifecycle!Next]_(Lifecycle!vars)
<1>0. /\ aiState \in [Reviews -> AIState] /\ attempts \in [Reviews -> Nat]
      /\ mentions \in [Reviews -> SUBSET Dishes] /\ found \in [Workers -> SUBSET Dishes]
      /\ Sweepable \subseteq Reviews
  BY DEF IInv, TypeOK, Sweepable
<1>1. ASSUME NEW r \in Reviews, Store(r) PROVE Goal
  <2>1. CASE r \in Sweepable
    <3>1. Lifecycle!Store(r)
      BY <1>0, <1>1, <2>1 DEF Store, Lifecycle!Store
    <3>2. QED
      BY <2>1, <3>1 DEF Lifecycle!Next
  <2>2. CASE r \notin Sweepable
    BY <1>0, <1>1, <2>2, LifecycleStutter DEF Store
  <2>3. QED
    BY <2>1, <2>2
<1>2. ASSUME NEW w \in Workers, Claim(w) PROVE Goal
  <2>1. PICK S \in SUBSET Claimable : Claim(w)!2!(S)
    BY <1>2 DEF Claim
  <2>2. Lifecycle!Claim(S \cap Sweepable)
    BY <1>0, <1>2, <2>1 DEF Claim, Claimable, Lifecycle!Claim
  <2>3. QED
    BY <2>2 DEF Lifecycle!Next
<1>3. ASSUME NEW w \in Workers,
             TakeNext(w) \/ StartTask(w) \/ Snapshot(w) \/ ClearEvidence(w) \/ Raise(w)
               \/ Retry(w) \/ Finish(w) \/ Kill(w) \/ Abort(w)
      PROVE  Goal
  <2>1. UNCHANGED db
    BY <1>3 DEF TakeNext, StartTask, Snapshot, ClearEvidence, Raise, Retry, Finish, Kill, Abort
  <2>2. QED
    BY <2>1, LifecycleStutter DEF db
<1>4. ASSUME NEW w \in Workers, BeginTask(w) PROVE Goal
  <2>1. batch[w] \cap Sweepable = {}
    BY <1>4 DEF BeginTask, IInv, OneIsUsers, Sweepable
  <2>2. QED
    BY <1>0, <1>4, <2>1, LifecycleStutter DEF BeginTask
<1>5. ASSUME NEW w \in Workers, Commit(w) PROVE Goal
  <2>1. PICK r \in cur[w] : Commit(w)!2!(r)
    BY <1>5 DEF Commit
  <2>2. /\ r \in Reviews /\ r \in batch[w]
        /\ aiState' = [aiState EXCEPT ![r] = "done"]
        /\ mentions' = [mentions EXCEPT ![r] = Kept(w, r) \cup found[w]]
        /\ attempts' = attempts
    BY <1>5, <2>1 DEF Commit, IInv, TypeOK, OneIsUsers
  <2>3. CASE r \in Sweepable
    <3>1. aiState[r] = "processing"
      BY <2>2, <2>3 DEF IInv, HeldIsProcessing
    <3>2. Kept(w, r) = {}
      BY <1>5, <2>1, <2>3 DEF Commit, Kept, IInv, NotOvertaken
    <3>3. PICK D \in SUBSET Dishes : D = found[w]
      BY <1>0
    <3>4. Lifecycle!Complete(r, D)
      BY <1>0, <2>2, <2>3, <3>1, <3>2, <3>3 DEF Lifecycle!Complete
    <3>5. QED
      BY <2>3, <3>4 DEF Lifecycle!Next
  <2>4. CASE r \notin Sweepable
    BY <1>0, <2>2, <2>4, LifecycleStutter
  <2>5. QED
    BY <2>3, <2>4
<1>6. ASSUME NEW w \in Workers, MarkFailed(w) PROVE Goal
  <2>1. PICK r \in cur[w] : MarkFailed(w)!2!(r)
    BY <1>6 DEF MarkFailed
  <2>2. /\ r \in Reviews /\ r \in batch[w]
        /\ aiState' = [aiState EXCEPT ![r] =
                         IF attempts[r] >= MAX_ATTEMPTS THEN "failed" ELSE "pending"]
        /\ attempts' = attempts /\ mentions' = mentions
    BY <1>6, <2>1 DEF MarkFailed, IInv, TypeOK, OneIsUsers
  <2>3. CASE r \in Sweepable
    <3>1. aiState[r] = "processing"
      BY <2>2, <2>3 DEF IInv, HeldIsProcessing
    <3>2. Lifecycle!Fail(r)
      BY <1>0, <2>2, <2>3, <3>1 DEF Lifecycle!Fail
    <3>3. QED
      BY <2>3, <3>2 DEF Lifecycle!Next
  <2>4. CASE r \notin Sweepable
    BY <1>0, <2>2, <2>4, LifecycleStutter
  <2>5. QED
    BY <2>3, <2>4
<1>7. ASSUME ResetStuck PROVE Goal
  <2>1. PICK S \in SUBSET Sweepable : S = Stuck \cap Sweepable
    OBVIOUS
  <2>2. \A r \in S : aiState[r] = "processing"
    BY <2>1 DEF Stuck
  <2>3. /\ \A r \in Sweepable : aiState'[r] = IF r \in S THEN "pending" ELSE aiState[r]
        /\ attempts' = attempts /\ mentions' = mentions
    BY <1>0, <1>7, <2>1 DEF ResetStuck
  <2>4. Lifecycle!Recover(S)
    BY <2>2, <2>3 DEF Lifecycle!Recover
  <2>5. QED
    BY <2>4 DEF Lifecycle!Next
<1>8. ASSUME NEW r \in Reviews, AdminRetry(r) PROVE Goal
  BY <1>0, <1>8, LifecycleStutter DEF AdminRetry, Sweepable
<1>9. CASE UNCHANGED vars
  BY <1>9, LifecycleStutter DEF vars, db
<1>10. QED
  BY <1>1, <1>2, <1>3, <1>4, <1>5, <1>6, <1>7, <1>8, <1>9 DEF Next, WorkerStep

\* ImplementsLifecycle: for the reviews only process_pending works on, the workers together
\* do no more than ReviewLifecycle allows: attempts that count, end once and replace the
\* evidence as a whole, and a final `done`.
THEOREM LifecycleRefined == Spec => ImplementsLifecycle
<1>1. Spec => []IInv
  BY InvInit, InvStep, PTL DEF Spec
<1>2. QED
  BY <1>1, LifecycleInit, LifecycleStep, PTL DEF Spec, ImplementsLifecycle, Lifecycle!Spec

-----------------------------------------------------------------------------
\* A task works on one review at a time, ai.process_review on one in all, and that has no dirty pairs
\* before it ends.
Singles ==
  \A w \in Workers : /\ \A x, y \in cur[w] : x = y
                     /\ task[w] = "one" => \A x, y \in batch[w] : x = y
                     /\ pc[w] = "idle" \/ (task[w] = "one" /\ pc[w] # "ending") => dirty[w] = {}

LEMMA SinglesInit == Init => Singles
BY DEF Init, Singles

LEMMA SinglesStep == IInv /\ Singles /\ [Next]_vars => Singles'
<1> SUFFICES ASSUME IInv, Singles, [Next]_vars PROVE Singles'
  OBVIOUS
<1>0. /\ pc \in [Workers -> Phases] /\ batch \in [Workers -> SUBSET Reviews]
      /\ cur \in [Workers -> SUBSET Reviews] /\ task \in [Workers -> {"none", "batch", "one"}]
      /\ dirty \in [Workers -> SUBSET Pairs]
      /\ \A w \in Workers : pc[w] # "idle" => task[w] # "none"
  BY DEF IInv, TypeOK, OneIsUsers
<1> USE <1>0 DEF Singles
<1>1. ASSUME NEW r \in Reviews, Store(r) \/ AdminRetry(r) PROVE Singles'
  BY <1>1 DEF Store, AdminRetry, holding
<1>2. ASSUME NEW w \in Workers, Claim(w) PROVE Singles'
  BY <1>2 DEF Claim, Goto
<1>3. ASSUME NEW w \in Workers, TakeNext(w) PROVE Singles'
  BY <1>3 DEF TakeNext, Goto, holding
<1>4. ASSUME NEW w \in Workers, StartTask(w) PROVE Singles'
  <2>1. PICK m \in messages : StartTask(w)!2!(m)
    BY <1>4 DEF StartTask
  <2>2. CASE aiState[m.review] = "done"
    BY <1>4, <2>1, <2>2 DEF StartTask, holding
  <2>3. CASE aiState[m.review] # "done"
    <3>1. /\ batch' = [batch EXCEPT ![w] = {m.review}] /\ pc' = [pc EXCEPT ![w] = "loaded"]
          /\ task' = [task EXCEPT ![w] = "one"] /\ UNCHANGED <<cur, dirty>> /\ pc[w] = "idle"
      BY <1>4, <2>1, <2>3 DEF StartTask, Goto
    <3> QED
      BY <3>1
  <2> QED
    BY <2>2, <2>3
<1>5. ASSUME NEW w \in Workers, BeginTask(w) PROVE Singles'
  BY <1>5 DEF BeginTask, Goto, holding
<1>6. ASSUME NEW w \in Workers, Snapshot(w) \/ ClearEvidence(w) \/ Raise(w) PROVE Singles'
  BY <1>6 DEF Snapshot, ClearEvidence, Raise, Goto, holding
<1>7. ASSUME NEW w \in Workers, NEW phase \in Phases, phase # "idle", Leave(w, phase), UNCHANGED task,
             pc[w] \notin {"idle", "ending"}, \A v \in Workers \ {w} : dirty'[v] = dirty[v],
             dirty'[w] = dirty[w] \/ phase = "ending"
      PROVE  Singles'
  <2>1. /\ \A v \in Workers \ {w} : pc'[v] = pc[v] /\ batch'[v] = batch[v] /\ cur'[v] = cur[v]
        /\ task[w] = "batch" => pc'[w] = "loop" /\ cur'[w] = {} /\ batch'[w] \subseteq batch[w]
        /\ task[w] = "one" => pc'[w] = phase /\ cur'[w] = cur[w] /\ batch'[w] = batch[w]
    BY <1>7, LeaveEffect DEF IInv
  <2>2. task[w] \in {"batch", "one"}
    BY <1>7
  <2>3. CASE task[w] = "batch"
    BY <1>7, <2>1, <2>3
  <2>4. CASE task[w] = "one"
    BY <1>7, <2>1, <2>4
  <2> QED
    BY <2>2, <2>3, <2>4
<1>8. ASSUME NEW w \in Workers, Commit(w) PROVE Singles'
  <2>1. PICK r \in cur[w] : Commit(w)!2!(r)
    BY <1>8 DEF Commit
  <2>2. \A v \in Workers \ {w} : dirty'[v] = dirty[v]
    BY <2>1
  <2> QED
    BY <1>7, <1>8, <2>2 DEF Commit, holding, Phases
<1>9. ASSUME NEW w \in Workers, MarkFailed(w) PROVE Singles'
  BY <1>7, <1>9 DEF MarkFailed, holding, Phases
<1>10. ASSUME NEW w \in Workers, Release(w) PROVE Singles'
  BY <1>10 DEF Release, Goto
<1>11. ASSUME NEW w \in Workers, Retry(w) \/ Finish(w) \/ Kill(w) \/ Abort(w) PROVE Singles'
  BY <1>10, <1>11 DEF Retry, Finish, Kill, Abort
<1>12. CASE ResetStuck \/ UNCHANGED vars
  BY <1>12 DEF ResetStuck, vars, holding
<1> QED
  BY <1>1, <1>2, <1>3, <1>4, <1>5, <1>6, <1>8, <1>9, <1>11, <1>12 DEF Next, WorkerStep

-----------------------------------------------------------------------------
\* No second session works on a review: one worker, or ingested reviews only, which the claim
\* keeps apart.  Otherwise the two tasks may overlap on one review, and none of the next three
\* theorems holds.
Alone == (\A v, w \in Workers : v = w) \/ Sweepable = Reviews

LEMMA Apart ==
  ASSUME Alone, IInv
  PROVE  \A v, w \in Workers : \A r \in batch[v] : r \in batch[w] => v = w
BY DEF Alone, IInv, HeldOnce, TypeOK

\* What a session has read stays true until it commits.
SeenIsCurrent ==
  \A w \in Workers : pc[w] \in {"snapped", "persisting"} => \A r \in cur[w] : seen[w] = mentions[r]
DeletesAll == \A w \in Workers : pc[w] = "persisting" => ~overtaken[w]
NotYetDone == \A w \in Workers : pc[w] # "ending" => \A r \in batch[w] : aiState[r] # "done"

Undisturbed == SeenIsCurrent /\ DeletesAll /\ NotYetDone

LEMMA UndisturbedInit == Init => Undisturbed
BY DEF Init, Undisturbed, SeenIsCurrent, DeletesAll, NotYetDone

LEMMA UndisturbedStep ==
  ASSUME Alone
  PROVE  IInv /\ Singles /\ Undisturbed /\ [Next]_vars => Undisturbed'
<1> SUFFICES ASSUME IInv, Singles, Undisturbed, [Next]_vars PROVE Undisturbed'
  OBVIOUS
<1>0. /\ pc \in [Workers -> Phases] /\ batch \in [Workers -> SUBSET Reviews]
      /\ cur \in [Workers -> SUBSET Reviews] /\ \A w \in Workers : cur[w] \subseteq batch[w]
      /\ seen \in [Workers -> SUBSET Dishes] /\ overtaken \in [Workers -> BOOLEAN]
      /\ mentions \in [Reviews -> SUBSET Dishes] /\ aiState \in [Reviews -> AIState]
      /\ messages \subseteq [review : Reviews, retries : Nat]
  BY DEF IInv, TypeOK, OneIsUsers
<1> USE <1>0 DEF Undisturbed, SeenIsCurrent, DeletesAll, NotYetDone
<1>1. ASSUME NEW r \in Reviews, Store(r) \/ AdminRetry(r) PROVE Undisturbed'
  BY <1>1 DEF Store, AdminRetry, session
<1>2. ASSUME NEW w \in Workers, Claim(w) PROVE Undisturbed'
  BY <1>2 DEF Claim, Claimable, Goto, session
<1>3. ASSUME NEW w \in Workers, TakeNext(w) PROVE Undisturbed'
  BY <1>3 DEF TakeNext, Goto, db, session
<1>4. ASSUME NEW w \in Workers, StartTask(w) PROVE Undisturbed'
  <2>1. PICK m \in messages : StartTask(w)!2!(m)
    BY <1>4 DEF StartTask
  <2>2. CASE aiState[m.review] = "done"
    BY <1>4, <2>1, <2>2 DEF StartTask, session, db
  <2>3. CASE aiState[m.review] # "done"
    <3>1. /\ batch' = [batch EXCEPT ![w] = {m.review}] /\ pc' = [pc EXCEPT ![w] = "loaded"]
          /\ UNCHANGED <<aiState, mentions, cur, seen, overtaken>>
      BY <1>4, <2>1, <2>3 DEF StartTask, Goto, db
    <3> QED
      BY <2>3, <3>1
  <2> QED
    BY <2>2, <2>3
<1>5. ASSUME NEW w \in Workers, BeginTask(w) PROVE Undisturbed'
  BY <1>5 DEF BeginTask, Goto, session
<1>6. ASSUME NEW w \in Workers, Snapshot(w) PROVE Undisturbed'
  BY <1>6 DEF Snapshot, Singles, Goto, db
<1>7. ASSUME NEW w \in Workers, ClearEvidence(w) PROVE Undisturbed'
  BY <1>7 DEF ClearEvidence, Goto, db
<1>8. ASSUME NEW w \in Workers, Raise(w) PROVE Undisturbed'
  BY <1>8 DEF Raise, Goto, db, session
<1>9. ASSUME NEW w \in Workers, Commit(w) PROVE Undisturbed'
  <2>1. PICK r \in cur[w] : Commit(w)!2!(r)
    BY <1>9 DEF Commit
  <2>2. /\ aiState' = [aiState EXCEPT ![r] = "done"] /\ UNCHANGED seen
        /\ \A x \in Reviews \ {r} : mentions'[x] = mentions[x]
        /\ overtaken' = [v \in Workers |->
                           overtaken[v] \/ (v # w /\ cur[v] = {r} /\ pc[v] = "persisting")]
    <3>1. /\ mentions' = [mentions EXCEPT ![r] = Kept(w, r) \cup found[w]]
          /\ aiState' = [aiState EXCEPT ![r] = "done"]
          /\ overtaken' = [v \in Workers |->
                             overtaken[v] \/ (v # w /\ cur[v] = {r} /\ pc[v] = "persisting")]
      BY <2>1
    <3>2. UNCHANGED seen
      BY <1>9 DEF Commit
    <3> QED
      BY <3>1, <3>2
  <2>3. \A v \in Workers \ {w} : r \notin batch[v]
    BY <1>0, Apart
  <2>4. Leave(w, "ending") /\ "ending" \in Phases
    BY <1>9 DEF Commit, Phases
  <2>5. ASSUME NEW v \in Workers, v # w
        PROVE  /\ pc'[v] = pc[v] /\ batch'[v] = batch[v] /\ cur'[v] = cur[v]
               /\ pc[v] = "persisting" => overtaken'[v] = overtaken[v]
    <3>1. cur[v] # {r}
      BY <2>3, <2>5
    <3> QED
      BY <2>2, <2>4, <2>5, <3>1, LeaveEffect DEF IInv
  <2>6. /\ pc'[w] \in {"loop", "ending"}
        /\ pc'[w] = "loop" => batch'[w] = batch[w] \ cur[w]
    BY <2>4, LeaveEffect DEF IInv
  <2>7. SeenIsCurrent'
    BY <2>2, <2>3, <2>5, <2>6
  <2>8. DeletesAll'
    BY <2>5, <2>6
  <2>9. NotYetDone'
    <3>1. ASSUME NEW v \in Workers, pc'[v] # "ending", NEW x \in batch'[v] PROVE aiState'[x] # "done"
      <4>1. x \in batch[v] /\ pc[v] # "ending" /\ x # r
        BY <1>9, <2>3, <2>5, <2>6, <3>1 DEF Commit
      <4> QED
        BY <2>2, <4>1
    <3> QED
      BY <3>1
  <2> QED
    BY <2>7, <2>8, <2>9
<1>10. ASSUME NEW w \in Workers, MarkFailed(w) PROVE Undisturbed'
  <2>1. PICK r \in cur[w] : MarkFailed(w)!2!(r)
    BY <1>10 DEF MarkFailed
  <2>2. /\ UNCHANGED <<mentions, seen, overtaken>> /\ pc[w] = "failing"
        /\ \A x \in Reviews : aiState'[x] = "done" => aiState[x] = "done"
    BY <1>10, <2>1 DEF MarkFailed, session
  <2>3. Leave(w, "retrying") /\ "retrying" \in Phases
    BY <1>10 DEF MarkFailed, Phases
  <2>4. \A v \in Workers \ {w} : pc'[v] = pc[v] /\ batch'[v] = batch[v] /\ cur'[v] = cur[v]
    BY <2>3, LeaveEffect DEF IInv
  <2>5. pc'[w] \in {"loop", "retrying"} /\ batch'[w] \subseteq batch[w]
    BY <2>3, LeaveEffect DEF IInv
  <2> QED
    BY <2>2, <2>4, <2>5
<1>11. ASSUME NEW w \in Workers, Release(w), UNCHANGED db PROVE Undisturbed'
  BY <1>11 DEF Release, Goto, db
<1>12. ASSUME NEW w \in Workers, Retry(w) \/ Finish(w) \/ Kill(w) \/ Abort(w) PROVE Undisturbed'
  BY <1>11, <1>12 DEF Retry, Finish, Kill, Abort
<1>13. CASE ResetStuck
  BY <1>13 DEF ResetStuck, Stuck, session
<1>14. CASE UNCHANGED vars
  BY <1>14 DEF vars, db, session
<1> QED
  BY <1>1, <1>2, <1>3, <1>4, <1>5, <1>6, <1>7, <1>8, <1>9, <1>10, <1>12, <1>13, <1>14
     DEF Next, WorkerStep

LEMMA UndisturbedAlways ==
  ASSUME Alone PROVE Spec => [](IInv /\ Singles /\ Undisturbed)
BY InvInit, InvStep, SinglesInit, SinglesStep, UndisturbedInit, UndisturbedStep, PTL DEF Spec

\* "A retry can never double-count evidence": the rows a commit leaves are exactly those its own
\* analysis found, through any retries, crashes and resets.
THEOREM ReplacesEvidenceHolds == Alone => (Spec => ReplacesEvidence)
<1> SUFFICES ASSUME Alone PROVE Spec => ReplacesEvidence
  OBVIOUS
<1> DEFINE A == \A r \in Reviews : mentions'[r] # mentions[r] =>
                  \E w \in Workers : cur[w] = {r} /\ mentions'[r] = found[w]
<1>1. ASSUME IInv, Singles, Undisturbed, Next PROVE A
  <2>1. ASSUME NEW w \in Workers, Commit(w) PROVE A
    <3>1. PICK r \in cur[w] : Commit(w)!2!(r)
      BY <2>1 DEF Commit
    <3>2. mentions' = [mentions EXCEPT ![r] = Kept(w, r) \cup found[w]]
      BY <3>1
    <3>3. Kept(w, r) = {}
      BY <1>1, <2>1 DEF Commit, Kept, Undisturbed, DeletesAll
    <3>4. cur[w] = {r} /\ mentions \in [Reviews -> SUBSET Dishes]
      BY <1>1 DEF Singles, IInv, TypeOK
    <3> QED
      BY <3>2, <3>3, <3>4
  <2>2. CASE UNCHANGED mentions
    BY <2>2
  <2> QED
    BY <1>1, <2>1, <2>2
       DEF Next, WorkerStep, Store, AdminRetry, Claim, StartTask, TakeNext, BeginTask, Snapshot,
           ClearEvidence, Raise, MarkFailed, Retry, Finish, Kill, Abort, ResetStuck, db
<1>2. IInv /\ Singles /\ Undisturbed /\ [Next]_vars => [A]_vars
  BY <1>1
<1> QED
  BY <1>2, UndisturbedAlways, PTL DEF Spec, ReplacesEvidence

\* Nothing but an admin's retry overwrites a committed result, through any crashes and resets.
THEOREM DoneIsFinalHolds == Alone => (Spec => DoneIsFinal)
<1> SUFFICES ASSUME Alone PROVE Spec => DoneIsFinal
  OBVIOUS
<1> DEFINE A == \A r \in Reviews \ Redrivable : aiState[r] = "done" => aiState'[r] = "done"
<1>1. ASSUME IInv, Undisturbed, Next PROVE A
  <2>0. /\ aiState \in [Reviews -> AIState]
        /\ \A w \in Workers : cur[w] \subseteq batch[w]
        /\ \A w \in Workers : pc[w] # "ending" => \A r \in batch[w] : aiState[r] # "done"
    BY <1>1 DEF IInv, TypeOK, OneIsUsers, Undisturbed, NotYetDone
  <2>1. ASSUME NEW r \in Reviews, Store(r) \/ AdminRetry(r) PROVE A
    BY <2>0, <2>1 DEF Store, AdminRetry
  <2>2. ASSUME NEW w \in Workers, Claim(w) PROVE A
    BY <2>2 DEF Claim, Claimable
  <2>3. ASSUME NEW w \in Workers, BeginTask(w) PROVE A
    BY <2>0, <2>3 DEF BeginTask
  <2>4. ASSUME NEW w \in Workers, Commit(w) PROVE A
    BY <2>0, <2>4 DEF Commit
  <2>5. ASSUME NEW w \in Workers, MarkFailed(w) PROVE A
    BY <2>0, <2>5 DEF MarkFailed
  <2>6. CASE ResetStuck
    BY <2>6 DEF ResetStuck, Stuck
  <2>7. CASE UNCHANGED aiState
    BY <2>7
  <2> QED
    BY <1>1, <2>1, <2>2, <2>3, <2>4, <2>5, <2>6, <2>7
       DEF Next, WorkerStep, StartTask, TakeNext, Snapshot, ClearEvidence, Raise, Retry, Finish,
           Kill, Abort, db
<1>2. IInv /\ Undisturbed /\ [Next]_vars => [A]_vars
  BY <1>1
<1> QED
  BY <1>2, UndisturbedAlways, PTL DEF Spec, DoneIsFinal

-----------------------------------------------------------------------------
\* No task dies.
NoCrash == MaxCrashes = 0

\* Evidence that changed is in some task's dirty pairs: what a commit changed is what it had seen or
\* found, and a task that does not die hands its pairs over.
LEMMA ChangeStep ==
  ASSUME Alone, NoCrash
  PROVE  IInv /\ Singles /\ Undisturbed /\ ChangeReachesRanking /\ [Next]_vars => ChangeReachesRanking'
<1> SUFFICES ASSUME IInv, Singles, Undisturbed, ChangeReachesRanking, [Next]_vars
             PROVE  ChangeReachesRanking'
  OBVIOUS
<1>0. /\ dirty \in [Workers -> SUBSET Pairs] /\ crashes \in Nat
      /\ mentions \in [Reviews -> SUBSET Dishes]
  BY DEF IInv, TypeOK
<1>1. CASE UNCHANGED <<unranked, dirty>>
  BY <1>1 DEF ChangeReachesRanking
<1>2. ASSUME NEW w \in Workers, Commit(w) PROVE ChangeReachesRanking'
  <2>1. PICK r \in cur[w] : Commit(w)!2!(r)
    BY <1>2 DEF Commit
  <2>2. /\ unranked' = unranked \cup PairsOf(r, (found[w] \ mentions[r]) \cup (mentions[r] \ found[w]))
        /\ dirty' = [dirty EXCEPT ![w] = @ \cup PairsOf(r, seen[w] \cup found[w])]
    <3>1. Kept(w, r) = {}
      BY <1>2 DEF Commit, Kept, Undisturbed, DeletesAll
    <3>2. Kept(w, r) \cup found[w] = found[w]
      BY <3>1
    <3> QED
      BY <2>1, <3>2
  <2>3. seen[w] = mentions[r]
    BY <1>2, <2>1 DEF Commit, Undisturbed, SeenIsCurrent
  <2>4. /\ dirty'[w] = dirty[w] \cup PairsOf(r, mentions[r] \cup found[w])
        /\ \A v \in Workers : dirty[v] \subseteq dirty'[v]
    BY <1>0, <2>2, <2>3
  <2>5. PairsOf(r, (found[w] \ mentions[r]) \cup (mentions[r] \ found[w]))
          \subseteq PairsOf(r, mentions[r] \cup found[w])
    BY DEF PairsOf
  <2>6. unranked \subseteq UNION {dirty'[v] : v \in Workers}
    BY <2>4 DEF ChangeReachesRanking
  <2>7. PairsOf(r, (found[w] \ mentions[r]) \cup (mentions[r] \ found[w])) \subseteq dirty'[w]
    BY <2>4, <2>5
  <2> QED
    BY <2>2, <2>6, <2>7 DEF ChangeReachesRanking
<1>3. ASSUME NEW w \in Workers, Finish(w) PROVE ChangeReachesRanking'
  <2>1. unranked' = unranked \ dirty[w] /\ \A v \in Workers \ {w} : dirty'[v] = dirty[v]
    BY <1>0, <1>3 DEF Finish, Release
  <2> QED
    BY <2>1 DEF ChangeReachesRanking
<1>4. ASSUME NEW w \in Workers, Retry(w) PROVE ChangeReachesRanking'
  <2>1. dirty[w] = {}
    BY <1>4 DEF Retry, IInv, OneIsUsers, Singles
  <2>2. unranked' = unranked /\ \A v \in Workers \ {w} : dirty'[v] = dirty[v]
    BY <1>0, <1>4 DEF Retry, Release
  <2> QED
    BY <2>1, <2>2 DEF ChangeReachesRanking
<1>5. ASSUME NEW w \in Workers, Kill(w) \/ Abort(w) PROVE ChangeReachesRanking'
  BY <1>0, <1>5 DEF Kill, Abort, NoCrash
<1> QED
  BY <1>1, <1>2, <1>3, <1>4, <1>5
     DEF Next, WorkerStep, Store, AdminRetry, Claim, StartTask, TakeNext, BeginTask, Snapshot,
         ClearEvidence, Raise, MarkFailed, ResetStuck, vars

\* "Pairs that existed before must still be recomputed even if they vanish now": while no task dies
\* and none works on another's review, every change of evidence is with the task that reports it.
THEOREM ChangeReachesRankingHolds == Alone /\ NoCrash => (Spec => []ChangeReachesRanking)
<1> SUFFICES ASSUME Alone, NoCrash PROVE Spec => []ChangeReachesRanking
  OBVIOUS
<1>1. Init => ChangeReachesRanking
  BY DEF Init, ChangeReachesRanking
<1> QED
  BY <1>1, ChangeStep, UndisturbedAlways, PTL DEF Spec

-----------------------------------------------------------------------------
\* Who still has to deal with a review: a task that will write its row's state once more, or one
\* that has yet to read it.  A task that has written it ("retrying", "ending") does not count.
Working == {"loop", "analyzing", "snapped", "persisting", "failing"}
InHand(r) == \E w \in Workers : r \in batch[w] /\ pc[w] \in Working
Expected(r) == \/ InHand(r)
               \/ \E w \in Workers : r \in batch[w] /\ pc[w] = "loaded"
               \/ \E m \in messages : m.review = r

LookedAfter ==
  \A r \in Reviews : /\ aiState[r] = "processing" => InHand(r)
                     /\ aiState[r] = "pending" => Expected(r) \/ attempts[r] < MAX_ATTEMPTS

\* Nobody knows of a review before it is stored.
Unknown == \A r \in Reviews : aiState[r] = "absent" => ~Outstanding(r) /\ attempts[r] = 0

LEMMA UnknownInit == Init => Unknown
BY DEF Init, Unknown, Outstanding

LEMMA UnknownStep == IInv /\ Unknown /\ [Next]_vars => Unknown'
<1> SUFFICES ASSUME IInv, Unknown, [Next]_vars PROVE Unknown'
  OBVIOUS
<1>0. /\ batch \in [Workers -> SUBSET Reviews] /\ \A w \in Workers : cur[w] \subseteq batch[w]
      /\ aiState \in [Reviews -> AIState] /\ attempts \in [Reviews -> Nat]
      /\ messages \subseteq [review : Reviews, retries : Nat]
  BY DEF IInv, TypeOK, OneIsUsers
<1> USE <1>0 DEF Unknown, Outstanding
\* Who holds a review or a message about it did so before.
<1>1. ASSUME \A r \in Reviews : aiState'[r] = "absent" => aiState[r] = "absent" /\ attempts'[r] = attempts[r],
             \A w \in Workers : \A r \in batch'[w] : Outstanding(r),
             \A m \in messages' : Outstanding(m.review)
      PROVE  Unknown'
  BY <1>1
<1>2. ASSUME NEW r \in Reviews, Store(r) PROVE Unknown'
  BY <1>2 DEF Store, Message
<1>3. ASSUME NEW r \in Reviews, AdminRetry(r) PROVE Unknown'
  BY <1>3 DEF AdminRetry
<1>4. ASSUME NEW w \in Workers, Claim(w) PROVE Unknown'
  BY <1>4 DEF Claim, Claimable
<1>5. ASSUME NEW w \in Workers, StartTask(w) PROVE Unknown'
  <2>1. PICK m \in messages : StartTask(w)!2!(m)
    BY <1>5 DEF StartTask
  <2>2. /\ messages' = messages \ {m} /\ UNCHANGED <<aiState, attempts>>
        /\ batch' = batch \/ batch' = [batch EXCEPT ![w] = {m.review}]
    BY <1>5, <2>1 DEF StartTask, db
  <2> QED
    BY <2>2
<1>6. ASSUME NEW w \in Workers, BeginTask(w) PROVE Unknown'
  BY <1>6 DEF BeginTask
<1>7. ASSUME NEW w \in Workers, Commit(w) PROVE Unknown'
  <2>1. PICK r \in cur[w] : Commit(w)!2!(r)
    BY <1>7 DEF Commit
  <2>2. aiState' = [aiState EXCEPT ![r] = "done"]
    BY <2>1
  <2>3. /\ UNCHANGED <<attempts, messages>> /\ \A v \in Workers : batch'[v] \subseteq batch[v]
    BY <1>7, LeaveEffect DEF Commit, IInv, Phases
  <2> QED
    BY <2>2, <2>3
<1>8. ASSUME NEW w \in Workers, MarkFailed(w) PROVE Unknown'
  <2>1. PICK r \in cur[w] : MarkFailed(w)!2!(r)
    BY <1>8 DEF MarkFailed
  <2>2. aiState' \in {[aiState EXCEPT ![r] = "failed"], [aiState EXCEPT ![r] = "pending"]}
    BY <2>1
  <2>3. /\ UNCHANGED <<attempts, messages>> /\ \A v \in Workers : batch'[v] \subseteq batch[v]
    BY <1>8, LeaveEffect DEF MarkFailed, IInv, Phases
  <2> QED
    BY <2>2, <2>3
<1>9. ASSUME NEW w \in Workers, Retry(w) \/ Finish(w) \/ Kill(w) \/ Abort(w) PROVE Unknown'
  <2>1. /\ batch' = [batch EXCEPT ![w] = {}] /\ UNCHANGED <<aiState, attempts>>
        /\ \A m \in messages' : m \in messages \/ m.review \in batch[w]
    BY <1>9 DEF Retry, Finish, Kill, Abort, Release, Message, db
  <2> QED
    BY <2>1
<1>10. CASE ResetStuck
  BY <1>10 DEF ResetStuck, Stuck
<1>11. CASE UNCHANGED <<aiState, attempts, batch, messages>>
  BY <1>11
<1> QED
  BY <1>2, <1>3, <1>4, <1>5, <1>6, <1>7, <1>8, <1>9, <1>10, <1>11
     DEF Next, WorkerStep, TakeNext, Snapshot, ClearEvidence, Raise, vars, db

LEMMA LookedAfterInit == Init => LookedAfter
BY DEF Init, LookedAfter

\* A worker that goes on or leaves a review keeps the others in hand.
LEMMA StaysInHand ==
  ASSUME NEW w \in Workers, NEW r \in Reviews, DOMAIN pc = Workers, DOMAIN batch = Workers,
         \A v \in Workers \ {w} : pc'[v] = pc[v] /\ batch'[v] = batch[v],
         r \in batch[w] /\ pc[w] \in Working => r \in batch'[w] /\ pc'[w] \in Working
  PROVE  InHand(r) => InHand(r)'
BY DEF InHand

LEMMA LookedAfterStep ==
  ASSUME NoCrash
  PROVE  IInv /\ Singles /\ Unknown /\ LookedAfter /\ [Next]_vars => LookedAfter'
<1> SUFFICES ASSUME IInv, Singles, Unknown, LookedAfter, [Next]_vars PROVE LookedAfter'
  OBVIOUS
<1>0. /\ pc \in [Workers -> Phases] /\ batch \in [Workers -> SUBSET Reviews]
      /\ cur \in [Workers -> SUBSET Reviews] /\ task \in [Workers -> {"none", "batch", "one"}]
      /\ aiState \in [Reviews -> AIState] /\ attempts \in [Reviews -> Nat] /\ crashes \in Nat
      /\ messages \subseteq [review : Reviews, retries : Nat] /\ MAX_ATTEMPTS \in Nat \ {0}
  BY ReviewsAssumption DEF IInv, TypeOK
<1>a. \A w \in Workers : /\ cur[w] \subseteq batch[w]
                         /\ pc[w] # "idle" => task[w] # "none"
                         /\ pc[w] = "idle" => batch[w] = {}
                         /\ pc[w] = "retrying" => task[w] = "one"
                         /\ task[w] = "one" => \A x, y \in batch[w] : x = y
  BY DEF IInv, OneIsUsers, Singles
\* Nobody's review changes hands, or one that nobody needs to look after.
<1>b. ASSUME UNCHANGED <<aiState, attempts>>,
             \A r \in Reviews : InHand(r) => InHand(r)',
             \A r \in Reviews : aiState[r] = "pending" /\ Expected(r) => Expected(r)'
      PROVE  LookedAfter'
  BY <1>b DEF LookedAfter
<1>1. ASSUME NEW r \in Reviews, Store(r) PROVE LookedAfter'
  <2>1. /\ aiState' = [aiState EXCEPT ![r] = "pending"] /\ messages \subseteq messages'
        /\ UNCHANGED <<attempts, pc, batch>> /\ attempts[r] = 0
    BY <1>1 DEF Store, Unknown
  <2>2. \A x \in Reviews : (InHand(x) => InHand(x)') /\ (Expected(x) => Expected(x)')
    BY <2>1 DEF InHand, Expected
  <2> QED
    BY <1>0, <2>1, <2>2 DEF LookedAfter
<1>2. ASSUME NEW r \in Reviews, AdminRetry(r) PROVE LookedAfter'
  <2>1. /\ aiState' = [aiState EXCEPT ![r] = "pending"] /\ attempts' = [attempts EXCEPT ![r] = 0]
        /\ UNCHANGED <<messages, pc, batch>>
    BY <1>2 DEF AdminRetry
  <2>2. \A x \in Reviews : (InHand(x) => InHand(x)') /\ (Expected(x) => Expected(x)')
    BY <2>1 DEF InHand, Expected
  <2> QED
    BY <1>0, <2>1, <2>2 DEF LookedAfter
<1>3. ASSUME NEW w \in Workers, Claim(w) PROVE LookedAfter'
  <2>1. PICK S \in SUBSET Claimable : Claim(w)!2!(S)
    BY <1>3 DEF Claim
  <2>2. /\ batch' = [batch EXCEPT ![w] = S] /\ pc' = [pc EXCEPT ![w] = "loop"] /\ pc[w] = "idle"
        /\ UNCHANGED messages
        /\ \A r \in Reviews \ S : aiState'[r] = aiState[r] /\ attempts'[r] = attempts[r]
        /\ \A r \in S : aiState'[r] = "processing"
        /\ S \subseteq Reviews
    BY <1>0, <1>3, <2>1 DEF Claim, Goto, Claimable
  <2>3. \A r \in Reviews : InHand(r) => InHand(r)'
    BY <1>0, <1>a, <2>2, StaysInHand
  <2>4. \A r \in S : InHand(r)'
    BY <1>0, <2>2 DEF InHand, Working
  <2>5. \A r \in Reviews : Expected(r) => Expected(r)'
    BY <1>0, <1>a, <2>2, <2>3 DEF Expected
  <2> QED
    BY <2>2, <2>3, <2>4, <2>5 DEF LookedAfter
<1>4. ASSUME NEW w \in Workers, StartTask(w) PROVE LookedAfter'
  <2>1. PICK m \in messages : StartTask(w)!2!(m)
    BY <1>4 DEF StartTask
  <2>2. /\ messages' = messages \ {m} /\ UNCHANGED <<aiState, attempts>> /\ pc[w] = "idle"
        /\ \/ aiState[m.review] = "done" /\ UNCHANGED <<pc, batch>>
           \/ pc' = [pc EXCEPT ![w] = "loaded"] /\ batch' = [batch EXCEPT ![w] = {m.review}]
    BY <1>4, <2>1 DEF StartTask, Goto, db, holding
  <2>3. \A r \in Reviews : InHand(r) => InHand(r)'
    BY <1>0, <1>a, <2>2 DEF InHand
  <2>4. \A r \in Reviews : aiState[r] = "pending" /\ Expected(r) => Expected(r)'
    BY <1>0, <1>a, <2>2, <2>3 DEF Expected
  <2> QED
    BY <1>b, <2>2, <2>3, <2>4
<1>5. ASSUME NEW w \in Workers, BeginTask(w) PROVE LookedAfter'
  <2>1. PICK r \in batch[w] : BeginTask(w)!2!(r)
    BY <1>5 DEF BeginTask
  <2>2. /\ pc' = [pc EXCEPT ![w] = "analyzing"] /\ pc[w] = "loaded" /\ UNCHANGED <<batch, messages>>
        /\ \A x \in Reviews \ {r} : aiState'[x] = aiState[x] /\ attempts'[x] = attempts[x]
    BY <1>5, <2>1 DEF BeginTask, Goto
  <2>3. \A x \in batch[w] : InHand(x)'
    BY <1>0, <2>2 DEF InHand, Working
  <2>4. \A x \in Reviews : InHand(x) => InHand(x)'
    BY <1>0, <2>2 DEF InHand, Working
  <2>5. \A x \in Reviews : Expected(x) => Expected(x)'
    BY <1>0, <2>2, <2>3, <2>4 DEF Expected
  <2> QED
    BY <2>2, <2>3, <2>4, <2>5 DEF LookedAfter, Expected
<1>6. ASSUME NEW w \in Workers,
             TakeNext(w) \/ Snapshot(w) \/ ClearEvidence(w) \/ Raise(w)
      PROVE  LookedAfter'
  <2>1. /\ pc[w] \in Working /\ \E phase \in Working : pc' = [pc EXCEPT ![w] = phase]
        /\ UNCHANGED <<aiState, attempts, batch, messages>>
    BY <1>6 DEF TakeNext, Snapshot, ClearEvidence, Raise, Goto, Working, db
  <2>2. \A r \in Reviews : InHand(r) => InHand(r)'
    BY <1>0, <2>1 DEF InHand
  <2>3. \A r \in Reviews : Expected(r) => Expected(r)'
    BY <1>0, <2>1, <2>2 DEF Expected, Working
  <2> QED
    BY <1>b, <2>1, <2>2, <2>3
\* A review is left for good, or with an attempt to spare.
<1>7. ASSUME NEW w \in Workers, NEW r \in cur[w], NEW phase \in Phases, Leave(w, phase), pc[w] \in Working,
             \A x \in Reviews \ {r} : aiState'[x] = aiState[x],
             aiState'[r] \in {"done", "failed"} \/ (aiState'[r] = "pending" /\ attempts[r] < MAX_ATTEMPTS),
             UNCHANGED <<attempts, messages>>
      PROVE  LookedAfter'
  <2>1. /\ \A v \in Workers \ {w} : pc'[v] = pc[v] /\ batch'[v] = batch[v]
        /\ task[w] = "batch" => pc'[w] = "loop" /\ batch'[w] = batch[w] \ cur[w]
        /\ task[w] = "one" => batch'[w] = batch[w]
    BY <1>7, LeaveEffect DEF IInv
  <2>2. cur[w] = {r}
    BY DEF Singles
  <2>3. task[w] \in {"batch", "one"} /\ "loop" \in Working
    BY <1>0, <1>7, <1>a DEF Working
  <2>4. \A x \in batch[w] : x # r => task[w] = "batch"
    BY <1>a, <2>2, <2>3
  <2>5. \A x \in Reviews \ {r} : InHand(x) => InHand(x)'
    BY <1>0, <1>7, <2>1, <2>2, <2>3, <2>4, StaysInHand
  <2>6. \A x \in Reviews \ {r} : Expected(x) => Expected(x)'
    <3>1. pc[w] # "loaded"
      BY <1>7 DEF Working
    <3> QED
      BY <1>7, <2>1, <2>5, <3>1 DEF Expected
  <2> QED
    BY <1>7, <2>5, <2>6 DEF LookedAfter
<1>8. ASSUME NEW w \in Workers, Commit(w) PROVE LookedAfter'
  <2>1. PICK r \in cur[w] : Commit(w)!2!(r)
    BY <1>8 DEF Commit
  <2>2. aiState' = [aiState EXCEPT ![r] = "done"] /\ r \in Reviews
    BY <1>0, <2>1
  <2>3. aiState'[r] = "done" /\ \A x \in Reviews \ {r} : aiState'[x] = aiState[x]
    BY <1>0, <2>2
  <2>4. Leave(w, "ending") /\ pc[w] = "persisting" /\ UNCHANGED <<attempts, messages>>
    BY <1>8 DEF Commit
  <2>5. "ending" \in Phases /\ "persisting" \in Working
    BY DEF Phases, Working
  <2> QED
    BY <1>7, <2>3, <2>4, <2>5
<1>9. ASSUME NEW w \in Workers, MarkFailed(w) PROVE LookedAfter'
  <2>1. PICK r \in cur[w] : MarkFailed(w)!2!(r)
    BY <1>9 DEF MarkFailed
  <2>2. /\ \A x \in Reviews \ {r} : aiState'[x] = aiState[x]
        /\ aiState'[r] \in {"done", "failed"} \/ (aiState'[r] = "pending" /\ attempts[r] < MAX_ATTEMPTS)
    <3>1. /\ aiState' = [aiState EXCEPT ![r] = IF attempts[r] >= MAX_ATTEMPTS THEN "failed" ELSE "pending"]
          /\ r \in Reviews /\ attempts[r] \in Nat
      BY <1>0, <2>1
    <3>2. CASE attempts[r] >= MAX_ATTEMPTS
      BY <1>0, <3>1, <3>2
    <3>3. CASE ~(attempts[r] >= MAX_ATTEMPTS)
      BY <1>0, <3>1, <3>3
    <3> QED
      BY <3>2, <3>3
  <2>3. Leave(w, "retrying") /\ pc[w] = "failing" /\ UNCHANGED <<attempts, messages>>
    BY <1>9 DEF MarkFailed
  <2>4. "retrying" \in Phases /\ "failing" \in Working
    BY DEF Phases, Working
  <2> QED
    BY <1>7, <2>2, <2>3, <2>4
<1>10. ASSUME NEW w \in Workers, Retry(w) \/ Finish(w) PROVE LookedAfter'
  <2>1. /\ pc' = [pc EXCEPT ![w] = "idle"] /\ batch' = [batch EXCEPT ![w] = {}]
        /\ messages \subseteq messages' /\ UNCHANGED <<aiState, attempts>>
        /\ pc[w] \in {"retrying", "ending"} \/ batch[w] = {}
    BY <1>10 DEF Retry, Finish, Release, Goto, db
  <2>2. \A r \in Reviews : InHand(r) => InHand(r)'
    BY <1>0, <2>1 DEF InHand, Working
  <2>3. \A r \in Reviews : Expected(r) => Expected(r)'
    BY <1>0, <2>1, <2>2 DEF Expected
  <2> QED
    BY <1>b, <2>1, <2>2, <2>3
<1>11. ASSUME NEW w \in Workers, Kill(w) \/ Abort(w) PROVE LookedAfter'
  BY <1>0, <1>11 DEF Kill, Abort, NoCrash
<1>12. ASSUME ResetStuck PROVE LookedAfter'
  <2>1. Stuck = {}
    BY DEF Stuck, Holders, Holds, LookedAfter, InHand, Working
  <2> QED
    BY <1>12, <2>1 DEF ResetStuck
<1>13. CASE UNCHANGED vars
  BY <1>13, <1>b DEF vars, db, InHand, Expected
<1> QED
  BY <1>1, <1>2, <1>3, <1>4, <1>5, <1>6, <1>8, <1>9, <1>10, <1>11, <1>12, <1>13 DEF Next, WorkerStep

\* While no task dies, no interleaving of the two tasks, their retries, the resets and the admin's
\* leaves an unsettled review where nothing will take it up again.
THEOREM NoReviewInLimboHolds == NoCrash => (Spec => []NoReviewInLimbo)
<1> SUFFICES ASSUME NoCrash PROVE Spec => []NoReviewInLimbo
  OBVIOUS
<1>1. LookedAfter => NoReviewInLimbo
  BY DEF LookedAfter, NoReviewInLimbo, Expected, InHand, Outstanding, Claimable
<1> QED
  BY <1>1, InvInit, InvStep, SinglesInit, SinglesStep, UnknownInit, UnknownStep,
     LookedAfterInit, LookedAfterStep, PTL DEF Spec

=============================================================================
