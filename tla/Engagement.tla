----------------------------- MODULE Engagement -----------------------------
(***************************************************************************)
(* What users get for a review: its likes (toggle_like) and its author's   *)
(* points and badge (gamification.py), as requests that read rows, compute *)
(* and commit later.  `like_count' and `contribution_score' are written    *)
(* from what the request read, `like_received_count' is changed in SQL.    *)
(***************************************************************************)
EXTENDS Integers, FiniteSets

CONSTANTS
  Users, Author,     \* of one published review
  Sessions,
  None,
  POINTS,            \* of a published review
  THRESHOLDS,        \* of the levels of a badge
  MaxRequests        \* bound on the requests

EngagementAssumption ==
  POINTS \in Nat /\ THRESHOLDS \subseteq Nat /\ IsFiniteSet(THRESHOLDS)

VARIABLES
  likes,          \* the users with a row in `likes' for the review
  likeCount,      \* reviews.like_count
  received,       \* the author's profiles.like_received_count
  events,         \* how many rows the author has in gamification_events
  score,          \* profiles.contribution_score
  posts,          \* the places the author has a published review of
  badge,          \* the level in user_badges, 0 without a row
  open,           \* open[s]: the request in session s and what it has read, or None
  crossed,        \* two toggles of the review have overlapped (history)
  doubled,        \* two toggles of one user have
  raced,          \* two submissions of the author have
  requests

vars == <<likes, likeCount, received, events, score, posts, badge, open, crossed, doubled, raced, requests>>

Init ==
  /\ likes = {} /\ likeCount = 0 /\ received = 0
  /\ events = 0 /\ score = 0 /\ posts = 0 /\ badge = 0
  /\ open = [s \in Sessions |-> None]
  /\ crossed = FALSE /\ doubled = FALSE /\ raced = FALSE /\ requests = 0

Others(kind) == {s \in Sessions : open[s] # None /\ open[s].kind = kind}
AtLeastZero(n) == IF n > 0 THEN n ELSE 0

-----------------------------------------------------------------------------
(* toggle_like *)

\* The review and the user's Like are read.
LoadLike(s, u) ==
  /\ open[s] = None /\ requests < MaxRequests
  /\ open' = [open EXCEPT ![s] = [kind |-> "like", user |-> u, had |-> u \in likes, count |-> likeCount]]
  /\ crossed' = (crossed \/ Others("like") # {})
  /\ doubled' = (doubled \/ \E o \in Others("like") : open[o].user = u)
  /\ requests' = requests + 1
  /\ UNCHANGED <<likes, likeCount, received, events, score, posts, badge, raced>>

\* Mutant: a counter that an unlike leaves alone.
CountedUp(q) == IF q.had THEN q.count ELSE q.count + 1
\* The like_count that the request computes.
Counted(q) == IF q.had THEN AtLeastZero(q.count - 1) ELSE q.count + 1

\* UPDATE profiles, then the flush: a second row for the user fails and rolls everything back,
\* deleting a row that is gone is only a warning, and an unchanged count is not written.
CommitLike(s) ==
  LET q == open[s]
  IN  /\ q # None /\ q.kind = "like"
      /\ open' = [open EXCEPT ![s] = None]
      /\ IF ~q.had /\ q.user \in likes
         THEN UNCHANGED <<likes, likeCount, received>>
         ELSE /\ likes' = IF q.had THEN likes \ {q.user} ELSE likes \cup {q.user}
              /\ likeCount' = IF Counted(q) = q.count THEN likeCount ELSE Counted(q)
              /\ received' = IF q.user # Author THEN AtLeastZero(received + IF q.had THEN -1 ELSE 1)
                             ELSE received
      /\ UNCHANGED <<events, score, posts, badge, crossed, doubled, raced, requests>>

-----------------------------------------------------------------------------
(* award_for_review, inside create_review by a trusted author *)

Level(n) == Cardinality({t \in THRESHOLDS : n >= t})

\* The points are summed without the request's own event, which is not flushed; the reviews are
\* counted with its own, which is.
LoadAward(s) ==
  /\ open[s] = None /\ requests < MaxRequests
  /\ open' = [open EXCEPT ![s] = [kind |-> "award", total |-> POINTS * events, old |-> score,
                                  level |-> Level(posts + 1), had |-> badge]]
  /\ raced' = (raced \/ Others("award") # {})
  /\ requests' = requests + 1
  /\ UNCHANGED <<likes, likeCount, received, events, score, posts, badge, crossed, doubled>>

\* A badge that another request has inserted meanwhile fails the whole submission.
CommitAward(s) ==
  LET q == open[s]
  IN  /\ q # None /\ q.kind = "award"
      /\ open' = [open EXCEPT ![s] = None]
      /\ IF q.had = 0 /\ q.level > 0 /\ badge > 0
         THEN UNCHANGED <<events, score, posts, badge>>
         ELSE /\ events' = events + 1 /\ posts' = posts + 1
              /\ score' = IF q.total = q.old THEN score ELSE q.total
              /\ badge' = IF q.level > q.had THEN q.level ELSE badge
      /\ UNCHANGED <<likes, likeCount, received, crossed, doubled, raced, requests>>

\* A moderator publishes a waiting review of the author's: no award.
Approve ==
  /\ requests < MaxRequests /\ requests' = requests + 1
  /\ posts' = posts + 1
  /\ UNCHANGED <<likes, likeCount, received, events, score, badge, open, crossed, doubled, raced>>

\* An exception before the commit.
Rollback(s) ==
  /\ open[s] # None
  /\ open' = [open EXCEPT ![s] = None]
  /\ UNCHANGED <<likes, likeCount, received, events, score, posts, badge, crossed, doubled, raced, requests>>

Next ==
  \/ \E s \in Sessions :
       (\E u \in Users : LoadLike(s, u)) \/ CommitLike(s) \/ LoadAward(s) \/ CommitAward(s) \/ Rollback(s)
  \/ Approve

Spec == Init /\ [][Next]_vars

-----------------------------------------------------------------------------

\* A review's like_count is the number of its likes unless two toggles of it overlapped, and the
\* author's like_received_count unless two of one user did: other users' toggles in between lose
\* nothing there, the author's own never count (toggle_like: one counter is written from a read,
\* the other in SQL).  The score is at most the events' sum and exactly one event behind it
\* without overlapping submissions, and a badge's level is one that the author's published
\* reviews support (recompute_contribution_score, refresh_badges).
CountersKept ==
  /\ ~crossed => likeCount = Cardinality(likes)
  /\ ~doubled => received = Cardinality(likes \ {Author})
  /\ score <= POINTS * events
  /\ ~raced => score = POINTS * AtLeastZero(events - 1)
  /\ badge <= Level(posts)

=============================================================================
