------------------------------ MODULE Moderation ------------------------------
(***************************************************************************)
(* The moderation of the reviews of one author (services/review_service.py,*)
(* and the spam and duplicate verdicts of services/ai_processing.py).      *)
(*                                                                         *)
(* Every request and every AI task is a database session: it reads the     *)
(* rows it needs, computes, and commits.  Sessions are READ COMMITTED and  *)
(* interleave between the two, so a session is a Load and a Commit.  The   *)
(* ORM writes the columns whose value differs from the one it read.        *)
(* Points, likes, severities and the review_count columns are left out.    *)
(***************************************************************************)
EXTENDS Naturals, FiniteSets

CONSTANTS
  Reviews,            \* the author's reviews
  ReportReasons,      \* the reasons they give (ReviewReport takes any ModerationReason)
  Sessions,           \* sessions that can be open at once
  Decisions,          \* moderator actions in use
  Verdicts,           \* the sets of reasons an AI analysis may come back with
  Deletes,            \* whether reviews are deleted
  REPORTS_TO_HIDE,    \* 3 in report_review
  AUTO_PUBLISH_MIN,   \* AUTO_PUBLISH_MIN_PUBLISHED
  MaxReports,         \* bound: report_count
  MaxDecisions        \* bound: moderator decisions

ASSUME ModerationAssumption ==
  /\ ReportReasons \subseteq {"spam", "manual", "duplicate", "user_report"}
  /\ Decisions \subseteq {"publish", "reject", "flag", "dismiss"}
  /\ Verdicts \subseteq SUBSET {"spam", "duplicate"}
  /\ Deletes \in BOOLEAN
  /\ {REPORTS_TO_HIDE, AUTO_PUBLISH_MIN, MaxReports, MaxDecisions} \subseteq Nat
  /\ IsFiniteSet(Reviews)

VARIABLES
  status,      \* reviews.status; "absent" before the row exists
  reports,     \* reviews.report_count
  items,       \* review -> reason -> moderation_queue.status; "none" without a row
  history,     \* review -> reason -> review statuses the row's history shows as reached
  published,   \* profiles.published_review_count
  analysed,    \* reviews whose AI analysis is committed
  decided,     \* decisions taken so far
  session      \* session -> Idle or what it has loaded

vars == <<status, reports, items, history, published, analysed, decided, session>>

Reasons == {"spam", "manual", "duplicate", "user_report"}
Status == {"absent", "pending", "published", "flagged", "rejected"}
ItemStatus == {"none", "open", "resolved", "dismissed"}
Idle == [op |-> "idle"]
Published == {r \in Reviews : status[r] = "published"}
Hidden(r) == status[r] \in {"pending", "flagged"}

\* The rows a session reads before it decides what to write.
Loaded(op, r, reason, input) ==
  [op |-> op, review |-> r, reason |-> reason, input |-> input,
   status |-> status[r], reports |-> reports[r], item |-> items[r][reason],
   history |-> history[r][reason], published |-> published]

Open(s, request) == /\ session[s] = Idle
                    /\ session' = [session EXCEPT ![s] = request]
                    /\ UNCHANGED <<status, reports, items, history, published, analysed, decided>>
Close(s) == session' = [session EXCEPT ![s] = Idle]

\* What an attribute assignment leaves in the column: nothing is written when the value is
\* the one that was read.
Assign(column, read, value) == IF value = read THEN column ELSE value

SetStatus(me, value) ==
  status' = [status EXCEPT ![me.review] = Assign(@, me.status, value)]

Init == /\ status = [r \in Reviews |-> "absent"]
        /\ reports = [r \in Reviews |-> 0]
        /\ items = [r \in Reviews |-> [x \in Reasons |-> "none"]]
        /\ history = [r \in Reviews |-> [x \in Reasons |-> {}]]
        /\ published = 0
        /\ analysed = {}
        /\ decided = 0
        /\ session = [s \in Sessions |-> Idle]

-----------------------------------------------------------------------------
\* create_review: the spam score and the author's published_review_count decide.
LoadCreate(s) ==
  \E r \in Reviews, input \in {"spam", "clean"} :
    /\ status[r] = "absent"
    /\ \A t \in Sessions : session[t] # Idle => session[t].review # r
    /\ Open(s, Loaded("create", r, "manual", input))

CreateStatus(me) == IF me.input = "spam" THEN "flagged"
                    ELSE IF me.published >= AUTO_PUBLISH_MIN THEN "published"
                    ELSE "pending"

\* Mutant: only spam is queued.
CommitCreateUnqueued(s) ==
  LET me == session[s] IN
  /\ me.op = "create"
  /\ status' = [status EXCEPT ![me.review] = CreateStatus(me)]
  /\ items' = IF CreateStatus(me) = "flagged" THEN [items EXCEPT ![me.review]["spam"] = "open"]
              ELSE items
  /\ published' = IF CreateStatus(me) = "published" THEN me.published + 1 ELSE published
  /\ Close(s)
  /\ UNCHANGED <<reports, history, analysed, decided>>

CommitCreate(s) ==
  LET me == session[s] IN
  /\ me.op = "create"
  /\ status' = [status EXCEPT ![me.review] = CreateStatus(me)]
  /\ items' = CASE CreateStatus(me) = "flagged" -> [items EXCEPT ![me.review]["spam"] = "open"]
                [] CreateStatus(me) = "pending" -> [items EXCEPT ![me.review]["manual"] = "open"]
                [] OTHER -> items
  /\ published' = IF CreateStatus(me) = "published" THEN me.published + 1 ELSE published
  /\ Close(s)
  /\ UNCHANGED <<reports, history, analysed, decided>>

\* report_review, with _queue_moderation: the count, the threshold, the queue item.
LoadReport(s) ==
  \E r \in Reviews, x \in ReportReasons :
    /\ status[r] # "absent" /\ reports[r] < MaxReports
    /\ Open(s, Loaded("report", r, x, "report"))

\* Mutant: the threshold hides whatever the status.
HidesAlways(me) == me.reports + 1 >= REPORTS_TO_HIDE

Hides(me) == me.reports + 1 >= REPORTS_TO_HIDE /\ me.status = "published"

\* Mutant: an existing item keeps its status.
RequeuedOnce(me) == IF me.item = "none" THEN "open" ELSE me.item

\* _queue_moderation of review_service (re)opens the item.
Requeued(me) == "open"

CommitReport(s) ==
  LET me == session[s] IN
  /\ me.op = "report"
  /\ ~(me.item = "none" /\ items[me.review][me.reason] # "none")
  /\ reports' = [reports EXCEPT ![me.review] = me.reports + 1]
  /\ SetStatus(me, IF Hides(me) THEN "flagged" ELSE me.status)
  /\ items' = [items EXCEPT ![me.review][me.reason] = Assign(@, me.item, Requeued(me))]
  /\ history' = [history EXCEPT ![me.review][me.reason] = me.history]
  /\ Close(s)
  /\ UNCHANGED <<published, analysed, decided>>

\* UNIQUE (review_id, reason): the second INSERT of a queue item rolls its request back.
RollbackReport(s) ==
  LET me == session[s] IN
  /\ me.op = "report"
  /\ me.item = "none" /\ items[me.review][me.reason] # "none"
  /\ Close(s)
  /\ UNCHANGED <<status, reports, items, history, published, analysed, decided>>

\* decide_moderation on any existing item, open or not.
LoadDecide(s) ==
  \E r \in Reviews, x \in Reasons, d \in Decisions :
    /\ items[r][x] # "none" /\ decided < MaxDecisions
    /\ Open(s, Loaded("decide", r, x, d))

\* Mutant: the action is stored for the status.
DecidedAction(me) == me.input

DecidedStatus(me) == CASE me.input = "publish" -> "published"
                       [] me.input = "reject"  -> "rejected"
                       [] me.input = "flag"    -> "flagged"
                       [] me.input = "dismiss" -> me.status

DecidedItem(d) == CASE d \in {"publish", "reject"} -> "resolved"
                    [] d = "flag"    -> "open"
                    [] d = "dismiss" -> "dismissed"

\* Mutant: the list is replaced by the new entry.
DecidedHistoryLast(me) == {DecidedStatus(me)}

DecidedHistory(me) == me.history \cup {DecidedStatus(me)}

\* _sync_author_counters: the sessions do not autoflush, so the COUNT runs on the rows as
\* they were committed, without the status this session is about to write.
SyncedCount == Cardinality(Published)

CommitDecide(s) ==
  LET me == session[s] IN
  /\ me.op = "decide"
  /\ SetStatus(me, DecidedStatus(me))
  /\ items' = [items EXCEPT ![me.review][me.reason] = Assign(@, me.item, DecidedItem(me.input))]
  /\ history' = [history EXCEPT ![me.review][me.reason] = DecidedHistory(me)]
  /\ published' = SyncedCount
  /\ decided' = decided + 1
  /\ Close(s)
  /\ UNCHANGED <<reports, analysed>>

\* delete_review, by its author or a moderator.
LoadDelete(s) ==
  \E r \in Reviews :
    /\ Deletes /\ status[r] # "absent"
    /\ Open(s, Loaded("delete", r, "manual", "delete"))

CommitDelete(s) ==
  LET me == session[s] IN
  /\ me.op = "delete"
  /\ SetStatus(me, "rejected")
  /\ published' = SyncedCount
  /\ Close(s)
  /\ UNCHANGED <<reports, items, history, analysed, decided>>

\* The AI task on a user's review: it has the row from its claim on, and persists its
\* verdict with _queue_moderation of ai_processing, which leaves an existing item alone.
LoadAnalysis(s) ==
  \E r \in Reviews \ analysed, v \in Verdicts :
    /\ status[r] # "absent"
    /\ Open(s, Loaded("analyse", r, "spam", v))

CommitAnalysis(s) ==
  LET me == session[s]
      queued == {x \in me.input : items[me.review][x] = "none"}
  IN
  /\ me.op = "analyse"
  /\ items' = [items EXCEPT ![me.review] = [x \in Reasons |-> IF x \in queued THEN "open" ELSE @[x]]]
  /\ SetStatus(me, IF "spam" \in me.input THEN "flagged" ELSE me.status)
  /\ analysed' = analysed \cup {me.review}
  /\ Close(s)
  /\ UNCHANGED <<reports, history, published, decided>>

Next == \E s \in Sessions :
  \/ LoadCreate(s) \/ CommitCreate(s)
  \/ LoadReport(s) \/ CommitReport(s) \/ RollbackReport(s)
  \/ LoadDecide(s) \/ CommitDecide(s)
  \/ LoadDelete(s) \/ CommitDelete(s)
  \/ LoadAnalysis(s) \/ CommitAnalysis(s)

Spec == Init /\ [][Next]_vars

-----------------------------------------------------------------------------
\* Every variable has its type.
TypeOK ==
  /\ status \in [Reviews -> Status]
  /\ reports \in [Reviews -> Nat]
  /\ items \in [Reviews -> [Reasons -> ItemStatus]]
  /\ history \in [Reviews -> [Reasons -> SUBSET Status]]
  /\ published \in Nat
  /\ analysed \subseteq Reviews
  /\ decided \in Nat
  /\ \A s \in Sessions : session[s] = Idle \/ session[s].review \in Reviews

\* A review kept from the public without a final decision has a row in the moderation queue,
\* in whichever order requests and AI tasks commit or roll back.
HiddenHasItem ==
  \A r \in Reviews : Hidden(r) => \E x \in Reasons : items[r][x] # "none"

\* ... and the row is open, so that the queue moderators work from shows it: "It will
\* appear once a moderator approves it", "hide the content pending review".
HiddenIsQueued ==
  \A r \in Reviews : Hidden(r) => \E x \in Reasons : items[r][x] = "open"

\* A rejected or deleted review comes back only by a moderator's decision, never by the
\* stale status another session read.
RejectionStands ==
  [][\A r \in Reviews : status[r] = "rejected" /\ status'[r] # "rejected" =>
       \E s \in Sessions : /\ session[s].op = "decide" /\ session'[s] = Idle
                           /\ session[s].review = r]_vars

\* "`history` accumulates every transition, so moderation is never lossy": what a queue
\* item's history shows, a later report, decision or AI verdict does not erase.
HistoryKept ==
  [][\A r \in Reviews, x \in Reasons : history[r][x] \subseteq history'[r][x]]_vars
=============================================================================
