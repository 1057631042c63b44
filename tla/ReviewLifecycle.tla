--------------------------- MODULE ReviewLifecycle ---------------------------
(***************************************************************************)
(* What the AI pipeline promises about one stored review, whatever the     *)
(* number of workers (docs/ai-pipeline.md, section 6):                     *)
(*                                                                         *)
(*     pending -> processing -> done | failed                              *)
(*                                                                         *)
(*   - an attempt starts only on a pending review with attempts left, and  *)
(*     counts;                                                             *)
(*   - an attempt ends exactly once: it replaces the review's evidence as  *)
(*     a whole, or leaves it as it was and gives the review back;          *)
(*   - `done` is final; `failed` is reached only when the attempts are     *)
(*     used up.                                                            *)
(*                                                                         *)
(* There are no workers here: an attempt is atomic between Claim and its   *)
(* outcome.  ReviewPipeline shows how far the code keeps this promise.     *)
(***************************************************************************)
EXTENDS Naturals

CONSTANTS Reviews,       \* rows of `reviews`
          Dishes,        \* rows of `dishes`
          MAX_ATTEMPTS   \* attempts before a review is given up

VARIABLES aiState,       \* review -> reviews.ai_state
          attempts,      \* review -> reviews.ai_attempts
          mentions       \* review -> dishes it has a review_dish_mentions row for

vars == <<aiState, attempts, mentions>>

Init == /\ aiState = [r \in Reviews |-> "absent"]
        /\ attempts = [r \in Reviews |-> 0]
        /\ mentions = [r \in Reviews |-> {}]

\* A review is ingested or submitted.
Store(r) == /\ aiState[r] = "absent"
            /\ aiState' = [aiState EXCEPT ![r] = "pending"]
            /\ UNCHANGED <<attempts, mentions>>

\* A batch of pending reviews starts an attempt each.
Claim(S) == /\ \A r \in S : aiState[r] = "pending" /\ attempts[r] < MAX_ATTEMPTS
            /\ aiState' = [r \in Reviews |-> IF r \in S THEN "processing" ELSE aiState[r]]
            /\ attempts' = [r \in Reviews |-> IF r \in S THEN attempts[r] + 1 ELSE attempts[r]]
            /\ UNCHANGED mentions

\* An attempt succeeds: its findings D become the review's only evidence.
Complete(r, D) == /\ aiState[r] = "processing"
                  /\ aiState' = [aiState EXCEPT ![r] = "done"]
                  /\ mentions' = [mentions EXCEPT ![r] = D]
                  /\ UNCHANGED attempts

\* An attempt fails: another one follows, or the review is given up.
Fail(r) == /\ aiState[r] = "processing"
           /\ aiState' = [aiState EXCEPT ![r] =
                            IF attempts[r] >= MAX_ATTEMPTS THEN "failed" ELSE "pending"]
           /\ UNCHANGED <<attempts, mentions>>

\* Attempts whose worker died are given back.
Recover(S) == /\ \A r \in S : aiState[r] = "processing"
              /\ aiState' = [r \in Reviews |-> IF r \in S THEN "pending" ELSE aiState[r]]
              /\ UNCHANGED <<attempts, mentions>>

Next == \/ \E r \in Reviews : Store(r)
        \/ \E S \in SUBSET Reviews : Claim(S) \/ Recover(S)
        \/ \E r \in Reviews : Fail(r) \/ \E D \in SUBSET Dishes : Complete(r, D)

Spec == Init /\ [][Next]_vars
=============================================================================
