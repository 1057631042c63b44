----------------------------- MODULE SourceQuota -----------------------------
(***************************************************************************)
(* The budgets of the paid sources: QuotaGuard (youtube.py, units per day) *)
(* and PlacesQuotaGuard (google_places.py, calls per month), which differ  *)
(* in nothing but the period, and the loops that spend them.  A            *)
(* reservation is an INCRBY of the current period's key, then, if that     *)
(* passed the budget, an INCRBY back; a call that failed is refunded.      *)
(* Several workers run at once, the period may change under them, Redis    *)
(* may fail and workers may die.                                           *)
(***************************************************************************)
EXTENDS Integers, FiniteSets

CONSTANTS
  Runs,          \* the worker processes' runs
  None,
  BUDGET, COST_SEARCH, COST_VIDEOS, COST_COMMENTS, COST_PLACES,
  STEPS,         \* queries, videos or cells of a run
  MAX_VIDEOS, RUN_CAP, MAX_PAGES,
  MaxPeriod, MaxFaults   \* bounds: periods that begin, faults of Redis, of the network and of workers

QuotaAssumption ==
  /\ IsFiniteSet(Runs) /\ None \notin Nat
  /\ {BUDGET, COST_SEARCH, COST_VIDEOS, COST_COMMENTS, COST_PLACES, MaxPeriod} \subseteq Nat

VARIABLES
  now,       \* the period the clock is in
  spent,     \* spent[p]: the value of the key of period p
  billed,    \* billed[p]: the units the source has counted in p (history)
  unseen,    \* unseen[p]: units billed or given back in p and not reserved in it (history)
  leaked,    \* leaked[p]: units reserved in p, never billed in it nor given back (history)
  run,       \* run[r]: where a run is
  faults

vars == <<now, spent, billed, unseen, leaked, run, faults>>

Periods == 0..MaxPeriod
Add(f, p, n) == IF p = None THEN f ELSE [f EXCEPT ![p] = @ + n]

\* A run: what it does, what it reserved and in which period, the total that INCRBY answered, what
\* it owes back, and how far its loop is.
Idle(kind) == [kind |-> kind, pc |-> "loop", held |-> 0, at |-> None, total |-> 0, owed |-> 0,
               left |-> STEPS, found |-> 0, made |-> 0, page |-> 0, on |-> TRUE]

Init ==
  /\ now = 0 /\ faults = 0
  /\ spent = [p \in Periods |-> 0] /\ billed = spent /\ unseen = spent /\ leaked = spent
  /\ \/ \E kind \in [Runs -> {"videos", "comments"}] : run = [r \in Runs |-> Idle(kind[r])]
     \/ run = [r \in Runs |-> Idle("places")]

Goes(r, fields) == run' = [run EXCEPT ![r] = [f \in DOMAIN @ |-> IF f \in DOMAIN fields THEN fields[f] ELSE @[f]]]
Fault == faults < MaxFaults /\ faults' = faults + 1

Cost(kind) ==
  CASE kind = "videos" -> COST_SEARCH + COST_VIDEOS
    [] kind = "comments" -> COST_COMMENTS
    [] kind = "places" -> COST_PLACES

\* The loop of fetch_reviews, fetch_comments_for_videos or discover_places goes on.
Wants(r) ==
  /\ run[r].pc = "loop" /\ run[r].on /\ run[r].left > 0
  /\ run[r].kind = "videos" => run[r].found < MAX_VIDEOS
  /\ run[r].kind = "places" => run[r].made < RUN_CAP

-----------------------------------------------------------------------------
(* reserve() *)

Reserve(r) ==
  /\ Wants(r)
  /\ spent' = Add(spent, now, Cost(run[r].kind))
  /\ Goes(r, [pc |-> "reserved", held |-> Cost(run[r].kind), at |-> now, total |-> spent'[now]])
  /\ UNCHANGED <<now, billed, unseen, leaked, faults>>

\* Redis fails before the INCRBY or after it (in EXPIRE): the run is allowed, and what it has put
\* on the key, unchecked, counts as not reserved.
ReserveFails(r) ==
  /\ Wants(r) /\ Fault
  /\ Goes(r, [pc |-> "call", held |-> Cost(run[r].kind)])
  /\ \E n \in {0, Cost(run[r].kind)} : spent' = Add(spent, now, n) /\ leaked' = Add(leaked, now, n)
  /\ UNCHANGED <<now, billed, unseen>>

\* Mutant: the total compared is the one before the reservation.
GrantedBefore(r) == run[r].total - run[r].held <= BUDGET
Granted(r) == run[r].total <= BUDGET

Grant(r) ==
  /\ run[r].pc = "reserved" /\ Granted(r)
  /\ Goes(r, [pc |-> "call"])
  /\ UNCHANGED <<now, spent, billed, unseen, leaked, faults>>

\* The books when n of the units that r holds are billed or given back now.
Settle(r, n) ==
  /\ unseen' = IF run[r].at = now THEN unseen ELSE Add(unseen, now, n)
  /\ leaked' = IF run[r].at = now THEN leaked ELSE Add(leaked, run[r].at, n)

\* Over budget: the reservation is taken back and the loop ends.
TakeBack(r) ==
  /\ run[r].pc = "reserved" /\ ~Granted(r)
  /\ spent' = Add(spent, now, -run[r].held) /\ Settle(r, run[r].held)
  /\ Goes(r, [pc |-> "loop", on |-> FALSE, held |-> 0, at |-> None, total |-> 0])
  /\ UNCHANGED <<now, billed, faults>>

\* Redis fails in between, and reserve() answers yes: what it reserved counts as not reserved.
TakeBackFails(r) ==
  /\ run[r].pc = "reserved" /\ ~Granted(r) /\ Fault
  /\ leaked' = Add(leaked, run[r].at, run[r].held)
  /\ Goes(r, [pc |-> "call", at |-> None])
  /\ UNCHANGED <<now, spent, billed, unseen>>

-----------------------------------------------------------------------------
(* The calls and refund(). *)

\* The source counts n of the units r holds, in the period it is called in.
Bill(r, n) == billed' = Add(billed, now, n) /\ Settle(r, n)

\* The next step of the loop: the next query or video, or the next page of a cell.
Onwards(r, more) ==
  IF run[r].kind = "places" /\ more /\ run[r].page + 1 < MAX_PAGES
  THEN [left |-> run[r].left, page |-> run[r].page + 1]
  ELSE [left |-> run[r].left - 1, page |-> 0]

\* A search that found n new videos: without any, the unit for their details is refunded.
SearchAnswered(r, n) ==
  /\ run[r].pc = "call" /\ run[r].kind = "videos"
  /\ Bill(r, COST_SEARCH)
  /\ IF n = 0
     THEN Goes(r, [pc |-> "refund", held |-> COST_VIDEOS, owed |-> COST_VIDEOS, left |-> run[r].left - 1])
     ELSE Goes(r, [pc |-> "details", held |-> COST_VIDEOS, found |-> run[r].found + n])
  /\ UNCHANGED <<now, spent, faults>>

DetailsAnswered(r) ==
  /\ run[r].pc = "details"
  /\ Bill(r, COST_VIDEOS)
  /\ Goes(r, [pc |-> "loop", held |-> 0, at |-> None, total |-> 0, left |-> run[r].left - 1])
  /\ UNCHANGED <<now, spent, faults>>

\* A page of comments or of a cell, with or without a token for one more.
PageAnswered(r, more) ==
  /\ run[r].pc = "call" /\ run[r].kind # "videos"
  /\ Bill(r, run[r].held)
  /\ Goes(r, [pc |-> "loop", held |-> 0, at |-> None, total |-> 0, made |-> run[r].made + 1,
              left |-> Onwards(r, more).left, page |-> Onwards(r, more).page])
  /\ UNCHANGED <<now, spent, faults>>

\* 403 for a video without comments (on the way to the next), 4xx for a cell (likewise) or for
\* the credentials (the run ends).
Refused(r, fatal) ==
  /\ run[r].pc = "call" /\ run[r].kind # "videos"
  /\ run[r].kind = "comments" => ~fatal
  /\ Bill(r, run[r].held)
  /\ Goes(r, [pc |-> "loop", held |-> 0, at |-> None, total |-> 0, made |-> run[r].made + 1,
              left |-> run[r].left - 1, page |-> 0, on |-> ~fatal])
  /\ UNCHANGED <<now, spent, faults>>

\* An error that is refunded and raised.  The source has not counted the call, or it has and the
\* answer was lost: units billed behind the guard's back.
CallFails(r) ==
  /\ run[r].pc \in {"call", "details"}
  /\ Goes(r, [pc |-> "refund", owed |-> run[r].held, on |-> FALSE])
  /\ \/ UNCHANGED <<billed, unseen, faults>>
     \/ LET n == IF run[r].kind = "videos" /\ run[r].pc = "call" THEN COST_SEARCH ELSE run[r].held
        IN  Fault /\ billed' = Add(billed, now, n) /\ unseen' = Add(unseen, now, n)
  /\ UNCHANGED <<now, spent, leaked>>

Refund(r) ==
  /\ run[r].pc = "refund"
  /\ spent' = Add(spent, now, -run[r].owed) /\ Settle(r, run[r].held)
  /\ Goes(r, [pc |-> "loop", held |-> 0, at |-> None, total |-> 0, owed |-> 0])
  /\ UNCHANGED <<now, billed, faults>>

RefundFails(r) ==
  /\ run[r].pc = "refund" /\ Fault
  /\ leaked' = Add(leaked, run[r].at, run[r].held)
  /\ Goes(r, [pc |-> "loop", held |-> 0, at |-> None, total |-> 0, owed |-> 0])
  /\ UNCHANGED <<now, spent, billed, unseen>>

-----------------------------------------------------------------------------

\* The worker dies.
Die(r) ==
  /\ run[r].pc # "loop" /\ Fault
  /\ leaked' = Add(leaked, run[r].at, run[r].held)
  /\ Goes(r, [pc |-> "loop", on |-> FALSE, held |-> 0, at |-> None, total |-> 0, owed |-> 0])
  /\ UNCHANGED <<now, spent, billed, unseen>>

NextPeriod ==
  /\ now < MaxPeriod /\ now' = now + 1
  /\ UNCHANGED <<spent, billed, unseen, leaked, run, faults>>

Next ==
  \/ \E r \in Runs :
       \/ Reserve(r) \/ ReserveFails(r) \/ Grant(r) \/ TakeBack(r) \/ TakeBackFails(r)
       \/ \E n \in 0..2 : SearchAnswered(r, n)
       \/ \E more \in BOOLEAN : PageAnswered(r, more) \/ Refused(r, more)
       \/ DetailsAnswered(r) \/ CallFails(r) \/ Refund(r) \/ RefundFails(r) \/ Die(r)
  \/ NextPeriod

Spec == Init /\ [][Next]_vars

-----------------------------------------------------------------------------

\* How many units the runs in S hold, counted one by one.
Units(held, S) == Cardinality(UNION {{r} \X (1..held[r]) : r \in S})

\* The units that runs hold reserved in period p.
Held(p) == Units([r \in Runs |-> run[r].held], {r \in Runs : run[r].at = p})

\* Whatever runs overlap, and whatever fails, the source bills no more than the budget in a
\* period, but for the units that the guard cannot see: calls that Redis's failure let through,
\* refunds and calls of a reservation made before midnight, calls whose answer was lost.  And the
\* key accounts for every unit (reserve, refund; the comment "can never overshoot the cap").
BudgetKept ==
  \A p \in Periods : /\ billed[p] <= BUDGET + unseen[p]
                     /\ spent[p] = billed[p] + Held(p) + leaked[p] - unseen[p]

=============================================================================
