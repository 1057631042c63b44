------------------------------ MODULE Services ------------------------------
(***************************************************************************)
(* Three small protocols around the core that share no state with each     *)
(* other: the budget of a paid source, the counters of likes and points,   *)
(* and the cache of public pages.  A behaviour is one of them: `part' says *)
(* which, and the variables of the other two stay as they begin.           *)
(***************************************************************************)
EXTENDS Integers, FiniteSets

CONSTANTS
  None,
  Runs, BUDGET, COST_SEARCH, COST_VIDEOS, COST_COMMENTS, COST_PLACES, STEPS, MAX_VIDEOS, RUN_CAP,
  MAX_PAGES, MaxPeriod, MaxFaults,
  Users, Author, Sessions, POINTS, THRESHOLDS, MaxRequests,
  Dishes, Search, Trending, SlugsFrom, Readers, Tasks, MaxChanges

VARIABLES
  part,
  now, spent, billed, unseen, leaked, run, faults,
  likes, likeCount, received, events, score, posts, badge, open, crossed, doubled, raced, requests,
  version, cached, saw, excused, reading, seen, late, todo, changes

quota == <<now, spent, billed, unseen, leaked, run, faults>>
engagement == <<likes, likeCount, received, events, score, posts, badge, open, crossed, doubled, raced, requests>>
cache == <<version, cached, saw, excused, reading, seen, late, todo, changes>>

Quota == INSTANCE SourceQuota
Engaged == INSTANCE Engagement
Cache == INSTANCE PageCache

ASSUME ServicesAssumption ==
  Quota!QuotaAssumption /\ Engaged!EngagementAssumption /\ Cache!CacheAssumption

Init ==
  /\ part \in {"quota", "engagement", "cache"}
  /\ Quota!Init /\ Engaged!Init /\ Cache!Init
  /\ part # "quota" => run = [r \in Runs |-> Quota!Idle("places")]

Spend == part = "quota" /\ Quota!Next /\ UNCHANGED part /\ UNCHANGED engagement /\ UNCHANGED cache
Engage == part = "engagement" /\ Engaged!Next /\ UNCHANGED part /\ UNCHANGED quota /\ UNCHANGED cache
Show == part = "cache" /\ Cache!Next /\ UNCHANGED part /\ UNCHANGED quota /\ UNCHANGED engagement

Next == Spend \/ Engage \/ Show
Spec == Init /\ [][Next]_<<part, quota, engagement, cache>>

-----------------------------------------------------------------------------

\* No interleaving of runs makes the source bill more than the budget but for what the guard
\* cannot see, and its key accounts for every unit (QuotaGuard, PlacesQuotaGuard).
BudgetKept == Quota!BudgetKept

\* The counters of likes and points say what the rows say, up to the overlaps and the lag of one
\* event that reading before writing costs (toggle_like, award_for_review).
CountersKept == Engaged!CountersKept

\* A stored page that is out of date is about to be dropped, or its reader or its invalidation is
\* one that the order of commit and invalidation cannot help (cached, _invalidate).
StaleIsExcused == Cache!StaleIsExcused

=============================================================================
