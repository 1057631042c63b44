--------------------------- MODULE ModerationProofs ---------------------------
(***************************************************************************)
(* Theorems about Moderation, for any reviews, sessions, decisions,        *)
(* verdicts and limits.                                                    *)
(*                                                                         *)
(* HiddenHasItem is not inductive: a commit decides on rows its session    *)
(* read earlier.  What saves it is that a queue row, once there, stays: a  *)
(* session that read an item may rely on the row, if not on its status.    *)
(* What needs the status too is proved of sessions that do not overlap.    *)
(***************************************************************************)
EXTENDS Moderation, FiniteSetTheorems, TLAPS

\* What a session in progress holds.
Requests ==
  /\ DOMAIN session = Sessions
  /\ \A s \in Sessions : session[s] # Idle =>
       LET me == session[s] IN
       /\ me.op \in {"create", "report", "decide", "delete", "analyse"}
       /\ me.review \in Reviews
       /\ me.reason \in Reasons
       /\ me.status \in Status
       /\ me.reports \in Nat
       /\ me.item \in ItemStatus
       /\ me.history \subseteq Status
       /\ me.published \in Nat
       /\ me.op = "decide" => me.input \in Decisions /\ me.item # "none"
       /\ me.op = "analyse" => me.input \in Verdicts

\* A queue row a session has read is still there.
ItemsStay ==
  \A s \in Sessions : session[s] # Idle /\ session[s].item # "none" =>
    items[session[s].review][session[s].reason] # "none"

IInv == TypeOK /\ Requests /\ ItemsStay /\ HiddenHasItem

-----------------------------------------------------------------------------
\* The initial states satisfy the invariant.
LEMMA InitIInv == Init => IInv
<1> SUFFICES ASSUME Init PROVE IInv
  OBVIOUS
<1>1. TypeOK
  BY DEF Init, TypeOK, Status, ItemStatus
<1>2. Requests /\ ItemsStay
  BY DEF Init, Requests, ItemsStay
<1>3. HiddenHasItem
  BY DEF Init, HiddenHasItem, Hidden
<1> QED
  BY <1>1, <1>2, <1>3 DEF IInv

\* Opening a session on rows it reads now keeps the invariant.
LEMMA OpenKeeps ==
  ASSUME IInv, NEW s \in Sessions, NEW r \in Reviews, NEW x \in Reasons, NEW input,
         NEW op \in {"create", "report", "decide", "delete", "analyse"},
         Open(s, Loaded(op, r, x, input)),
         op = "decide" => input \in Decisions /\ items[r][x] # "none",
         op = "analyse" => input \in Verdicts
  PROVE  IInv'
<1> DEFINE me == Loaded(op, r, x, input)
<1>1. /\ me # Idle
      /\ me.op = op /\ me.review = r /\ me.reason = x /\ me.input = input
      /\ me.status = status[r] /\ me.reports = reports[r] /\ me.item = items[r][x]
      /\ me.history = history[r][x] /\ me.published = published
  BY DEF Loaded, Idle
<1>2. /\ session' = [session EXCEPT ![s] = me]
      /\ UNCHANGED <<status, reports, items, history, published, analysed, decided>>
  BY DEF Open
<1> HIDE DEF me
<1>3. \A t \in Sessions : session'[t] = IF t = s THEN me ELSE session[t]
  BY <1>2 DEF IInv, Requests
<1>4. TypeOK'
  BY <1>1, <1>2, <1>3 DEF IInv, TypeOK
<1>5. Requests'
  <2>1. DOMAIN session' = Sessions
    BY <1>2 DEF IInv, Requests
  <2>2. /\ status[r] \in Status /\ reports[r] \in Nat /\ items[r][x] \in ItemStatus
        /\ history[r][x] \subseteq Status /\ published \in Nat
    BY DEF IInv, TypeOK
  <2> QED
    BY <1>1, <1>2, <1>3, <2>1, <2>2 DEF IInv, Requests
<1>6. ItemsStay'
  BY <1>1, <1>2, <1>3 DEF IInv, ItemsStay
<1>7. HiddenHasItem'
  BY <1>2 DEF IInv, HiddenHasItem, Hidden
<1> QED
  BY <1>4, <1>5, <1>6, <1>7 DEF IInv

\* A commit that only closes its session, removes no queue row, and leaves every hidden
\* review with a row, keeps the invariant.
LEMMA CloseKeeps ==
  ASSUME IInv, NEW s \in Sessions, Close(s), TypeOK', HiddenHasItem',
         \A r \in Reviews, x \in Reasons : items[r][x] # "none" => items'[r][x] # "none"
  PROVE  IInv'
<1>1. DOMAIN session' = Sessions
  BY DEF Close, IInv, Requests
<1>2. \A t \in Sessions : session'[t] = Idle \/ session'[t] = session[t]
  BY DEF Close, IInv, Requests
<1>3. Requests'
  BY <1>1, <1>2 DEF IInv, Requests
<1>4. ItemsStay'
  BY <1>2 DEF IInv, ItemsStay, Requests
<1> QED
  BY <1>3, <1>4 DEF IInv

\* The count _sync_author_counters makes is a number.
LEMMA SyncedCountType == SyncedCount \in Nat
<1>1. Published \in SUBSET Reviews /\ IsFiniteSet(Reviews)
  BY ModerationAssumption DEF Published
<1>2. IsFiniteSet(Published)
  BY <1>1, FS_Subset
<1> QED
  BY <1>2, FS_CardinalityType DEF SyncedCount

\* Every step keeps the invariant.
LEMMA StepIInv == IInv /\ [Next]_vars => IInv'
<1> SUFFICES ASSUME IInv, Next PROVE IInv'
  BY DEF vars, IInv, TypeOK, Requests, ItemsStay, HiddenHasItem, Hidden
<1> PICK s \in Sessions :
      \/ LoadCreate(s) \/ CommitCreate(s)
      \/ LoadReport(s) \/ CommitReport(s) \/ RollbackReport(s)
      \/ LoadDecide(s) \/ CommitDecide(s)
      \/ LoadDelete(s) \/ CommitDelete(s)
      \/ LoadAnalysis(s) \/ CommitAnalysis(s)
  BY DEF Next
<1> DEFINE me == session[s]
           r == me.review
           x == me.reason
           ItemsRemain == \A q \in Reviews, y \in Reasons :
                            items[q][y] # "none" => items'[q][y] # "none"
<1>typed. ASSUME me # Idle
          PROVE  /\ r \in Reviews /\ x \in Reasons /\ me.status \in Status
                 /\ me.reports \in Nat /\ me.item \in ItemStatus
                 /\ me.history \subseteq Status /\ me.published \in Nat
                 /\ me.op = "decide" => me.input \in Decisions /\ me.item # "none"
                 /\ me.op = "analyse" => me.input \in Verdicts
                 /\ me.item # "none" => items[r][x] # "none"
  BY <1>typed DEF IInv, Requests, ItemsStay
<1>closed. ASSUME Close(s)
           PROVE  \A t \in Sessions : session'[t] = Idle \/ session'[t].review \in Reviews
  BY <1>closed DEF Close, IInv, Requests
<1>reasons. {"spam", "manual", "duplicate", "user_report"} = Reasons
  BY DEF Reasons
<1>1. CASE LoadCreate(s)
  <2>1. PICK q \in Reviews, input \in {"spam", "clean"} :
          Open(s, Loaded("create", q, "manual", input))
    BY <1>1 DEF LoadCreate
  <2> QED
    BY <2>1, <1>reasons, OpenKeeps
<1>2. CASE LoadReport(s)
  <2>1. PICK q \in Reviews, y \in ReportReasons : Open(s, Loaded("report", q, y, "report"))
    BY <1>2 DEF LoadReport
  <2>2. y \in Reasons
    BY ModerationAssumption DEF Reasons
  <2> QED
    BY <2>1, <2>2, OpenKeeps
<1>3. CASE LoadDecide(s)
  <2>1. PICK q \in Reviews, y \in Reasons, d \in Decisions :
          items[q][y] # "none" /\ Open(s, Loaded("decide", q, y, d))
    BY <1>3 DEF LoadDecide
  <2> QED
    BY <2>1, OpenKeeps
<1>4. CASE LoadDelete(s)
  <2>1. PICK q \in Reviews : Open(s, Loaded("delete", q, "manual", "delete"))
    BY <1>4 DEF LoadDelete
  <2> QED
    BY <2>1, <1>reasons, OpenKeeps
<1>5. CASE LoadAnalysis(s)
  <2>1. PICK q \in Reviews, v \in Verdicts : Open(s, Loaded("analyse", q, "spam", v))
    BY <1>5 DEF LoadAnalysis
  <2> QED
    BY <2>1, <1>reasons, OpenKeeps
<1>6. CASE CommitCreate(s)
  <2> DEFINE kind == IF CreateStatus(me) = "flagged" THEN "spam" ELSE "manual"
  <2>1. /\ me # Idle /\ Close(s)
        /\ status' = [status EXCEPT ![r] = CreateStatus(me)]
        /\ items' = IF CreateStatus(me) \in {"flagged", "pending"}
                    THEN [items EXCEPT ![r][kind] = "open"] ELSE items
        /\ published' \in {published, me.published + 1}
        /\ UNCHANGED <<reports, history, analysed, decided>>
        /\ CreateStatus(me) \in {"flagged", "published", "pending"}
    <3>1. CreateStatus(me) \in {"flagged", "published", "pending"}
      BY DEF CreateStatus
    <3>2. me # Idle
      BY <1>6 DEF CommitCreate, Idle
    <3>3. CASE CreateStatus(me) = "flagged"
      BY <1>6, <3>2, <3>3 DEF CommitCreate
    <3>4. CASE CreateStatus(me) = "pending"
      BY <1>6, <3>2, <3>4 DEF CommitCreate
    <3>5. CASE CreateStatus(me) = "published"
      BY <1>6, <3>2, <3>5 DEF CommitCreate
    <3> QED
      BY <3>1, <3>3, <3>4, <3>5
  <2>2. kind \in Reasons
    BY <1>reasons
  <2> HIDE DEF kind
  <2>3. ItemsRemain
    BY <2>1, <2>2, <1>typed DEF IInv, TypeOK
  <2>4. TypeOK'
    BY <2>1, <2>2, <1>typed, <1>closed DEF IInv, TypeOK, Status, ItemStatus
  <2>5. HiddenHasItem'
    BY <2>1, <2>2, <2>3, <1>typed DEF IInv, TypeOK, HiddenHasItem, Hidden
  <2> QED
    BY <2>1, <2>3, <2>4, <2>5, CloseKeeps
<1>7. CASE CommitReport(s)
  <2>1. /\ me # Idle /\ Close(s)
        /\ reports' = [reports EXCEPT ![r] = me.reports + 1]
        /\ status' \in {status, [status EXCEPT ![r] = "flagged"]}
        /\ items' = [items EXCEPT ![r][x] = IF me.item = "open" THEN @ ELSE "open"]
        /\ history' = [history EXCEPT ![r][x] = me.history]
        /\ UNCHANGED <<published, analysed, decided>>
    <3>1. me # Idle
      BY <1>7 DEF CommitReport, Idle
    <3>2. status' \in {status, [status EXCEPT ![r] = "flagged"]}
      BY <1>7, <3>1, <1>typed DEF CommitReport, SetStatus, Assign, IInv, TypeOK
    <3> QED
      BY <1>7, <3>1, <3>2 DEF CommitReport, Assign, Requeued
  <2>2. ItemsRemain /\ items'[r][x] # "none"
    BY <2>1, <1>typed DEF IInv, TypeOK
  <2>3. TypeOK'
    <3>1. items' \in [Reviews -> [Reasons -> ItemStatus]]
      BY <2>1, <1>typed DEF IInv, TypeOK, ItemStatus
    <3>2. history' \in [Reviews -> [Reasons -> SUBSET Status]]
      BY <2>1, <1>typed DEF IInv, TypeOK
    <3>3. reports' \in [Reviews -> Nat]
      BY <2>1, <1>typed DEF IInv, TypeOK
    <3>4. status' \in [Reviews -> Status]
      BY <2>1, <1>typed DEF IInv, TypeOK, Status
    <3> QED
      BY <2>1, <3>1, <3>2, <3>3, <3>4, <1>closed DEF IInv, TypeOK
  <2>4. HiddenHasItem'
    BY <2>1, <2>2, <1>typed DEF IInv, TypeOK, HiddenHasItem, Hidden
  <2> QED
    BY <2>1, <2>2, <2>3, <2>4, CloseKeeps
<1>8. CASE RollbackReport(s)
  <2>1. Close(s) /\ UNCHANGED <<status, reports, items, history, published, analysed, decided>>
    BY <1>8 DEF RollbackReport
  <2>2. TypeOK'
    BY <2>1, <1>closed DEF IInv, TypeOK
  <2>3. HiddenHasItem'
    BY <2>1 DEF IInv, HiddenHasItem, Hidden
  <2> QED
    BY <2>1, <2>2, <2>3, CloseKeeps
<1>9. CASE CommitDecide(s)
  <2>1. me # Idle /\ me.op = "decide" /\ me.input \in {"publish", "reject", "flag", "dismiss"}
    BY <1>9, <1>typed, ModerationAssumption DEF CommitDecide, Idle
  <2>2. /\ DecidedStatus(me) \in Status
        /\ DecidedItem(me.input) \in ItemStatus \ {"none"}
        /\ DecidedHistory(me) \subseteq Status
    BY <2>1, <1>typed DEF DecidedStatus, DecidedItem, DecidedHistory, Status, ItemStatus
  <2>3. /\ Close(s)
        /\ status' = [status EXCEPT ![r] = IF DecidedStatus(me) = me.status THEN @
                                           ELSE DecidedStatus(me)]
        /\ items' = [items EXCEPT ![r][x] = IF DecidedItem(me.input) = me.item THEN @
                                            ELSE DecidedItem(me.input)]
        /\ history' = [history EXCEPT ![r][x] = DecidedHistory(me)]
        /\ published' \in Nat
        /\ decided' = decided + 1
        /\ UNCHANGED <<reports, analysed>>
    BY <1>9, SyncedCountType DEF CommitDecide, SetStatus, Assign
  <2>4. ItemsRemain /\ items'[r][x] # "none"
    BY <2>1, <2>2, <2>3, <1>typed DEF IInv, TypeOK
  <2>5. TypeOK'
    BY <2>1, <2>2, <2>3, <1>typed, <1>closed DEF IInv, TypeOK
  <2>6. HiddenHasItem'
    BY <2>1, <2>3, <2>4, <1>typed DEF IInv, TypeOK, HiddenHasItem, Hidden
  <2> QED
    BY <2>3, <2>4, <2>5, <2>6, CloseKeeps
<1>10. CASE CommitDelete(s)
  <2>1. /\ me # Idle /\ Close(s)
        /\ status' = [status EXCEPT ![r] = IF "rejected" = me.status THEN @ ELSE "rejected"]
        /\ published' \in Nat
        /\ UNCHANGED <<reports, items, history, analysed, decided>>
    BY <1>10, SyncedCountType DEF CommitDelete, SetStatus, Assign, Idle
  <2>2. TypeOK'
    BY <2>1, <1>typed, <1>closed DEF IInv, TypeOK, Status
  <2>3. HiddenHasItem'
    BY <2>1, <1>typed DEF IInv, TypeOK, HiddenHasItem, Hidden
  <2> QED
    BY <2>1, <2>2, <2>3, CloseKeeps
<1>11. CASE CommitAnalysis(s)
  <2> DEFINE queued == {y \in me.input : items[r][y] = "none"}
  <2>1. /\ me # Idle /\ Close(s) /\ me.input \subseteq Reasons
        /\ items' = [items EXCEPT ![r] = [y \in Reasons |-> IF y \in queued THEN "open" ELSE @[y]]]
        /\ status' \in {status, [status EXCEPT ![r] = "flagged"]}
        /\ "spam" \notin me.input => status' = status
        /\ analysed' = analysed \cup {r}
        /\ UNCHANGED <<reports, history, published, decided>>
    <3>0. me # Idle /\ me.op = "analyse"
      BY <1>11 DEF CommitAnalysis, Idle
    <3>1. me.input \subseteq Reasons
      <4>1. me.input \in SUBSET {"spam", "duplicate"}
        BY <3>0, <1>typed, ModerationAssumption
      <4> QED
        BY <4>1, <1>reasons
    <3>2. /\ status' \in {status, [status EXCEPT ![r] = "flagged"]}
          /\ "spam" \notin me.input => status' = status
      BY <1>11, <3>0, <1>typed DEF CommitAnalysis, SetStatus, Assign, IInv, TypeOK
    <3> QED
      BY <1>11, <3>0, <3>1, <3>2 DEF CommitAnalysis
  <2>2. ItemsRemain
    BY <2>1, <1>typed DEF IInv, TypeOK
  <2>3. "spam" \in me.input => items'[r]["spam"] # "none"
    BY <2>1, <1>typed, <1>reasons DEF IInv, TypeOK
  <2>4. TypeOK'
    BY <2>1, <1>typed, <1>closed DEF IInv, TypeOK, Status, ItemStatus
  <2>5. HiddenHasItem'
    BY <2>1, <2>2, <2>3, <1>typed, <1>reasons DEF IInv, TypeOK, HiddenHasItem, Hidden
  <2> QED
    BY <2>1, <2>2, <2>4, <2>5, CloseKeeps
<1> QED
  BY <1>1, <1>2, <1>3, <1>4, <1>5, <1>6, <1>7, <1>8, <1>9, <1>10, <1>11

-----------------------------------------------------------------------------
\* The invariant holds in every behaviour.
LEMMA Invariance == Spec => []IInv
BY InitIInv, StepIInv, PTL DEF Spec

\* The rows of reviews, queue items and the author's counter keep their types, whatever
\* sessions interleave.
THEOREM TypeCorrect == Spec => []TypeOK
<1>1. IInv => TypeOK
  BY DEF IInv
<1> QED
  BY <1>1, Invariance, PTL

\* A review kept from the public always has a queue row moderators can decide on, for any
\* number of sessions and whatever they read before others commit.
THEOREM HiddenHasItemHolds == Spec => []HiddenHasItem
<1>1. IInv => HiddenHasItem
  BY DEF IInv
<1> QED
  BY <1>1, Invariance, PTL
-----------------------------------------------------------------------------
\* What stays true of the rows only while sessions do not overlap: the ORM writes what differs from
\* the value it read, so a decision on stale rows may leave a hidden review without an open item.

OneAtATime == \A s, t \in Sessions : s = t
NoDismissal == "dismiss" \notin Decisions
NoSpamVerdict == \A v \in Verdicts : "spam" \notin v

\* The rows a session has read are as it read them.
Fresh ==
  \A s \in Sessions : session[s] # Idle =>
    LET me == session[s] IN
    /\ me.status = status[me.review]
    /\ me.item = items[me.review][me.reason]
    /\ me.history = history[me.review][me.reason]
    /\ me.op = "create" => me.status = "absent"

LEMMA FreshInit == Init => Fresh
BY DEF Init, Fresh

\* A session is opened on rows as they are; any other step closes the only one.
LEMMA FreshStep ==
  ASSUME OneAtATime
  PROVE  IInv /\ Fresh /\ [Next]_vars => Fresh'
<1> SUFFICES ASSUME IInv, Fresh, Next PROVE Fresh'
  BY DEF vars, Fresh
<1> PICK s \in Sessions :
      \/ LoadCreate(s) \/ CommitCreate(s)
      \/ LoadReport(s) \/ CommitReport(s) \/ RollbackReport(s)
      \/ LoadDecide(s) \/ CommitDecide(s)
      \/ LoadDelete(s) \/ CommitDelete(s)
      \/ LoadAnalysis(s) \/ CommitAnalysis(s)
  BY DEF Next
<1>1. ASSUME NEW op, NEW r \in Reviews, NEW x \in Reasons, NEW input,
             Open(s, Loaded(op, r, x, input)), op = "create" => status[r] = "absent"
      PROVE  Fresh'
  <2> DEFINE me == Loaded(op, r, x, input)
  <2>1. /\ me.op = op /\ me.review = r /\ me.reason = x
        /\ me.status = status[r] /\ me.item = items[r][x] /\ me.history = history[r][x]
    BY DEF Loaded
  <2>2. session' = [session EXCEPT ![s] = me] /\ UNCHANGED <<status, items, history>>
    BY <1>1 DEF Open
  <2> HIDE DEF me
  <2>3. \A t \in Sessions : session'[t] = me
    BY <2>2 DEF OneAtATime, IInv, Requests
  <2> QED
    BY <1>1, <2>1, <2>2, <2>3 DEF Fresh
<1>2. CASE Close(s)
  BY <1>2 DEF Close, Fresh, OneAtATime, IInv, Requests
<1>3. {"manual", "spam"} \subseteq Reasons /\ ReportReasons \subseteq Reasons
  BY ModerationAssumption DEF Reasons
<1>4. CASE LoadCreate(s)
  BY <1>1, <1>3, <1>4 DEF LoadCreate
<1>5. CASE LoadReport(s)
  BY <1>1, <1>3, <1>5 DEF LoadReport
<1>6. CASE LoadDecide(s)
  BY <1>1, <1>6 DEF LoadDecide
<1>7. CASE LoadDelete(s) \/ LoadAnalysis(s)
  BY <1>1, <1>3, <1>7 DEF LoadDelete, LoadAnalysis
<1>8. CASE CommitCreate(s) \/ CommitReport(s) \/ RollbackReport(s) \/ CommitDecide(s)
           \/ CommitDelete(s) \/ CommitAnalysis(s)
  BY <1>2, <1>8 DEF CommitCreate, CommitReport, RollbackReport, CommitDecide, CommitDelete, CommitAnalysis
<1> QED
  BY <1>4, <1>5, <1>6, <1>7, <1>8

LEMMA Freshness == ASSUME OneAtATime PROVE Spec => [](IInv /\ Fresh)
BY InitIInv, StepIInv, FreshInit, FreshStep, PTL DEF Spec

\* What a commit does to its review's row, to its item and to the item's history.
Touches(s, row, item, shown) ==
  LET me == session[s] IN
  /\ status' = [status EXCEPT ![me.review] = row]
  /\ items' = [items EXCEPT ![me.review][me.reason] = item]
  /\ history' = [history EXCEPT ![me.review][me.reason] = shown]

\* On fresh rows every column ends as the session meant it to.
LEMMA FreshCommit ==
  ASSUME IInv, Fresh, NEW s \in Sessions, session[s] # Idle
  PROVE  LET me == session[s] IN
         /\ me.review \in Reviews /\ me.reason \in Reasons
         /\ CommitReport(s) =>
              Touches(s, IF Hides(me) THEN "flagged" ELSE me.status, "open", me.history)
         /\ CommitDecide(s) =>
              Touches(s, DecidedStatus(me), DecidedItem(me.input), DecidedHistory(me))
         /\ CommitDelete(s) => /\ status' = [status EXCEPT ![me.review] = "rejected"]
                               /\ UNCHANGED <<items, history>>
         /\ CommitAnalysis(s) /\ "spam" \notin me.input =>
              UNCHANGED <<status, history>>
<1> DEFINE me == session[s]
<1>1. /\ me.review \in Reviews /\ me.reason \in Reasons
      /\ me.status = status[me.review] /\ me.item = items[me.review][me.reason]
      /\ me.history = history[me.review][me.reason]
  BY DEF IInv, Requests, Fresh
<1>2. /\ status \in [Reviews -> Status] /\ items \in [Reviews -> [Reasons -> ItemStatus]]
      /\ history \in [Reviews -> [Reasons -> SUBSET Status]]
  BY DEF IInv, TypeOK
<1>3. CommitReport(s) => Touches(s, IF Hides(me) THEN "flagged" ELSE me.status, "open", me.history)
  BY <1>1, <1>2 DEF CommitReport, Touches, SetStatus, Assign, Requeued
<1>4. CommitDecide(s) => Touches(s, DecidedStatus(me), DecidedItem(me.input), DecidedHistory(me))
  BY <1>1, <1>2 DEF CommitDecide, Touches, SetStatus, Assign
<1>5. CommitDelete(s) => /\ status' = [status EXCEPT ![me.review] = "rejected"]
                         /\ UNCHANGED <<items, history>>
  BY <1>1, <1>2 DEF CommitDelete, SetStatus, Assign
<1>6. CommitAnalysis(s) /\ "spam" \notin me.input => UNCHANGED <<status, history>>
  BY <1>1, <1>2 DEF CommitAnalysis, SetStatus, Assign
<1> QED
  BY <1>1, <1>3, <1>4, <1>5, <1>6

\* What the commits do on fresh rows, with reviews that are not found to be spam.
CreateDoes(s, r) ==
  /\ session[s].op = "create" /\ status[r] = "absent"
  /\ \/ status' = [status EXCEPT ![r] = "published"] /\ items' = items
     \/ /\ status' \in {[status EXCEPT ![r] = v] : v \in {"flagged", "pending"}}
        /\ \E x \in Reasons : items' = [items EXCEPT ![r][x] = "open"]
  /\ history' = history

ReportDoes(s, r, x) ==
  /\ session[s].op = "report"
  /\ \/ status' = status
     \/ status[r] = "published" /\ status' = [status EXCEPT ![r] = "flagged"]
  /\ items' = [items EXCEPT ![r][x] = "open"]
  /\ history' = history

DecideDoes(s, r, x, d) ==
  /\ session[s].op = "decide"
  /\ d = "publish" => status' = [status EXCEPT ![r] = "published"]
  /\ d = "reject" => status' = [status EXCEPT ![r] = "rejected"]
  /\ d = "flag" => /\ status' = [status EXCEPT ![r] = "flagged"]
                   /\ items' = [items EXCEPT ![r][x] = "open"]
  /\ \E v \in Status : status' = [status EXCEPT ![r] = v]
  /\ \E item \in ItemStatus : items' = [items EXCEPT ![r][x] = item]
  /\ \E v \in Status : history' = [history EXCEPT ![r][x] = @ \cup {v}]

DeleteDoes(s, r) ==
  session[s].op = "delete" /\ status' = [status EXCEPT ![r] = "rejected"] /\ UNCHANGED <<items, history>>

AnalyseDoes(s, r) ==
  /\ session[s].op = "analyse" /\ UNCHANGED <<status, history>>
  /\ \E Q \in SUBSET Reasons :
       items' = [items EXCEPT ![r] = [x \in Reasons |-> IF x \in Q THEN "open" ELSE @[x]]]

\* Every step is one of these, or leaves the rows alone.
LEMMA SerialStep ==
  ASSUME OneAtATime, NoSpamVerdict, IInv, Fresh, Next
  PROVE  \/ UNCHANGED <<status, items, history>>
         \/ \E s \in Sessions, r \in Reviews, x \in Reasons :
              /\ session[s] # Idle /\ session[s].review = r /\ session'[s] = Idle
              /\ \/ CreateDoes(s, r) \/ ReportDoes(s, r, x) \/ DeleteDoes(s, r) \/ AnalyseDoes(s, r)
                 \/ \E d \in Decisions : DecideDoes(s, r, x, d)
<1> PICK s \in Sessions :
      \/ LoadCreate(s) \/ CommitCreate(s)
      \/ LoadReport(s) \/ CommitReport(s) \/ RollbackReport(s)
      \/ LoadDecide(s) \/ CommitDecide(s)
      \/ LoadDelete(s) \/ CommitDelete(s)
      \/ LoadAnalysis(s) \/ CommitAnalysis(s)
  BY DEF Next
<1> DEFINE me == session[s]
           r == me.review
           x == me.reason
<1>1. CASE LoadCreate(s) \/ LoadReport(s) \/ LoadDecide(s) \/ LoadDelete(s) \/ LoadAnalysis(s)
  BY <1>1 DEF LoadCreate, LoadReport, LoadDecide, LoadDelete, LoadAnalysis, Open
<1>2. CASE RollbackReport(s)
  BY <1>2 DEF RollbackReport
<1>3. ASSUME me # Idle
      PROVE  /\ r \in Reviews /\ x \in Reasons /\ me.status = status[r]
             /\ me.item = items[r][x] /\ me.history = history[r][x]
  BY <1>3 DEF IInv, Requests, Fresh
<1>4. ASSUME Close(s) PROVE session'[s] = Idle
  BY <1>4 DEF Close, IInv, Requests
<1>5. CASE CommitCreate(s)
  <2>1. me # Idle /\ me.op = "create" /\ status[r] = "absent" /\ session'[s] = Idle
    BY <1>4, <1>5 DEF CommitCreate, Idle, Fresh
  <2>2. {"spam", "manual"} \subseteq Reasons
    BY DEF Reasons
  <2>3. CASE CreateStatus(me) = "published"
    BY <1>3, <1>5, <2>1, <2>3 DEF CommitCreate, CreateDoes
  <2>4. CASE CreateStatus(me) = "flagged"
    BY <1>3, <1>5, <2>1, <2>2, <2>4 DEF CommitCreate, CreateDoes
  <2>5. CASE CreateStatus(me) = "pending"
    BY <1>3, <1>5, <2>1, <2>2, <2>5 DEF CommitCreate, CreateDoes
  <2> QED
    BY <2>3, <2>4, <2>5 DEF CreateStatus
<1>6. CASE CommitReport(s)
  <2>1. me # Idle /\ me.op = "report" /\ session'[s] = Idle
    BY <1>4, <1>6 DEF CommitReport, Idle
  <2>2. Touches(s, IF Hides(me) THEN "flagged" ELSE me.status, "open", me.history)
    BY <1>6, <2>1, FreshCommit
  <2>3. history' = history
    BY <1>3, <2>1, <2>2 DEF Touches, IInv, TypeOK
  <2>4. \/ status' = status
        \/ status[r] = "published" /\ status' = [status EXCEPT ![r] = "flagged"]
    BY <1>3, <2>1, <2>2 DEF Touches, Hides, IInv, TypeOK
  <2> QED
    BY <1>3, <2>1, <2>2, <2>3, <2>4 DEF Touches, ReportDoes
<1>7. CASE CommitDecide(s)
  <2>1. /\ me # Idle /\ me.op = "decide" /\ session'[s] = Idle
        /\ me.input \in Decisions /\ me.input \in {"publish", "reject", "flag", "dismiss"}
    BY <1>4, <1>7, ModerationAssumption DEF CommitDecide, Idle, IInv, Requests
  <2>2. Touches(s, DecidedStatus(me), DecidedItem(me.input), DecidedHistory(me))
    BY <1>7, <2>1, FreshCommit
  <2>3. /\ DecidedItem(me.input) \in ItemStatus /\ DecidedStatus(me) \in Status
        /\ me.input = "publish" => DecidedStatus(me) = "published"
        /\ me.input = "reject" => DecidedStatus(me) = "rejected"
        /\ me.input = "flag" => DecidedStatus(me) = "flagged" /\ DecidedItem(me.input) = "open"
    BY <1>3, <2>1 DEF DecidedItem, DecidedStatus, ItemStatus, Status, IInv, TypeOK
  <2>4. history' = [history EXCEPT ![r][x] = @ \cup {DecidedStatus(me)}]
    BY <1>3, <2>1, <2>2 DEF Touches, DecidedHistory, IInv, TypeOK
  <2>5. DecideDoes(s, r, x, me.input)
    BY <2>1, <2>2, <2>3, <2>4 DEF Touches, DecideDoes
  <2> QED
    BY <1>3, <2>1, <2>5
<1>8. CASE CommitDelete(s)
  <2>1. me # Idle /\ me.op = "delete" /\ session'[s] = Idle
    BY <1>4, <1>8 DEF CommitDelete, Idle
  <2> QED
    BY <1>3, <1>8, <2>1, FreshCommit DEF DeleteDoes
<1>9. CASE CommitAnalysis(s)
  <2>1. me # Idle /\ me.op = "analyse" /\ session'[s] = Idle
    BY <1>4, <1>9 DEF CommitAnalysis, Idle
  <2>2. me.input \in Verdicts
    BY <2>1 DEF IInv, Requests
  <2>3. UNCHANGED <<status, history>>
    BY <1>9, <2>1, <2>2, FreshCommit DEF NoSpamVerdict
  <2>4. me.input \subseteq Reasons
    BY <2>2, ModerationAssumption DEF Reasons
  <2> DEFINE Q == {y \in me.input : items[r][y] = "none"}
  <2>5. items' = [items EXCEPT ![r] = [y \in Reasons |-> IF y \in Q THEN "open" ELSE @[y]]]
    BY <1>9 DEF CommitAnalysis
  <2>6. Q \in SUBSET Reasons
    BY <2>4
  <2> HIDE DEF Q
  <2> QED
    BY <1>3, <2>1, <2>3, <2>5, <2>6 DEF AnalyseDoes
<1> QED
  BY <1>1, <1>2, <1>5, <1>6, <1>7, <1>8, <1>9

LEMMA QueuedStep ==
  ASSUME OneAtATime, NoDismissal, NoSpamVerdict
  PROVE  IInv /\ Fresh /\ HiddenIsQueued /\ [Next]_vars => HiddenIsQueued'
<1> SUFFICES ASSUME IInv, Fresh, HiddenIsQueued, Next PROVE HiddenIsQueued'
  BY DEF vars, HiddenIsQueued, Hidden
<1> USE DEF HiddenIsQueued, Hidden
<1>1. /\ status \in [Reviews -> Status] /\ items \in [Reviews -> [Reasons -> ItemStatus]]
      /\ Decisions \subseteq {"publish", "reject", "flag"}
  BY ModerationAssumption DEF IInv, TypeOK, NoDismissal
<1>2. CASE UNCHANGED <<status, items, history>>
  BY <1>2
<1>3. ASSUME NEW s \in Sessions, NEW r \in Reviews, CreateDoes(s, r) PROVE HiddenIsQueued'
  BY <1>1, <1>3 DEF CreateDoes
<1>4. ASSUME NEW s \in Sessions, NEW r \in Reviews, NEW x \in Reasons, ReportDoes(s, r, x)
      PROVE  HiddenIsQueued'
  BY <1>1, <1>4 DEF ReportDoes
<1>5. ASSUME NEW s \in Sessions, NEW r \in Reviews, NEW x \in Reasons, NEW d \in Decisions,
             DecideDoes(s, r, x, d)
      PROVE  HiddenIsQueued'
  BY <1>1, <1>5 DEF DecideDoes
<1>6. ASSUME NEW s \in Sessions, NEW r \in Reviews, DeleteDoes(s, r) PROVE HiddenIsQueued'
  BY <1>1, <1>6 DEF DeleteDoes
<1>7. ASSUME NEW s \in Sessions, NEW r \in Reviews, AnalyseDoes(s, r) PROVE HiddenIsQueued'
  BY <1>1, <1>7 DEF AnalyseDoes
<1> QED
  BY SerialStep, <1>2, <1>3, <1>4, <1>5, <1>6, <1>7

\* "It will appear once a moderator approves it": while sessions do not overlap, no item is dismissed
\* and the AI finds no spam behind a decided item, a review kept from the public has an open item.
THEOREM HiddenIsQueuedHolds ==
  OneAtATime /\ NoDismissal /\ NoSpamVerdict => (Spec => []HiddenIsQueued)
<1> SUFFICES ASSUME OneAtATime, NoDismissal, NoSpamVerdict PROVE Spec => []HiddenIsQueued
  OBVIOUS
<1>1. Init => HiddenIsQueued
  BY DEF Init, HiddenIsQueued, Hidden
<1> QED
  BY <1>1, QueuedStep, Freshness, PTL DEF Spec

\* While sessions do not overlap and the AI finds no spam, only a moderator's decision takes a review
\* out of "rejected", where a moderator or its deletion put it.
THEOREM RejectionStandsHolds == OneAtATime /\ NoSpamVerdict => (Spec => RejectionStands)
<1> SUFFICES ASSUME OneAtATime, NoSpamVerdict PROVE Spec => RejectionStands
  OBVIOUS
<1> DEFINE A == \A r \in Reviews : status[r] = "rejected" /\ status'[r] # "rejected" =>
                  \E s \in Sessions : /\ session[s].op = "decide" /\ session'[s] = Idle
                                      /\ session[s].review = r
<1>1. ASSUME IInv, Fresh, Next PROVE A
  <2>1. status \in [Reviews -> Status]
    BY <1>1 DEF IInv, TypeOK
  <2>2. CASE UNCHANGED <<status, items, history>>
    BY <2>2
  <2>3. ASSUME NEW s \in Sessions, NEW r \in Reviews, NEW x \in Reasons,
               session[s].review = r, session'[s] = Idle,
               \/ CreateDoes(s, r) \/ ReportDoes(s, r, x) \/ DeleteDoes(s, r) \/ AnalyseDoes(s, r)
               \/ \E d \in Decisions : DecideDoes(s, r, x, d)
        PROVE  A
    <3>1. CASE CreateDoes(s, r)
      BY <2>1, <3>1 DEF CreateDoes
    <3>2. CASE ReportDoes(s, r, x)
      BY <2>1, <3>2 DEF ReportDoes
    <3>3. CASE DeleteDoes(s, r)
      BY <2>1, <3>3 DEF DeleteDoes
    <3>4. CASE AnalyseDoes(s, r)
      BY <3>4 DEF AnalyseDoes
    <3>5. ASSUME NEW d \in Decisions, DecideDoes(s, r, x, d) PROVE A
      <4>1. session[s].op = "decide" /\ d \in {"publish", "reject", "flag", "dismiss"}
        BY <3>5, ModerationAssumption DEF DecideDoes
      <4>2. \A q \in Reviews \ {r} : status'[q] = status[q]
        BY <2>1, <3>5 DEF DecideDoes
      <4> QED
        BY <2>3, <4>1, <4>2
    <3> QED
      BY <2>3, <3>1, <3>2, <3>3, <3>4, <3>5
  <2> QED
    BY <1>1, <2>2, <2>3, SerialStep
<1>2. IInv /\ Fresh /\ [Next]_vars => [A]_vars
  BY <1>1
<1> QED
  BY <1>2, Freshness, PTL DEF Spec, RejectionStands

\* "`history` accumulates every transition": while sessions do not overlap, nothing a queue item's
\* history shows is lost to a later report, decision or verdict.
THEOREM HistoryKeptHolds == OneAtATime /\ NoSpamVerdict => (Spec => HistoryKept)
<1> SUFFICES ASSUME OneAtATime, NoSpamVerdict PROVE Spec => HistoryKept
  OBVIOUS
<1> DEFINE A == \A r \in Reviews, x \in Reasons : history[r][x] \subseteq history'[r][x]
<1>1. ASSUME IInv, Fresh, Next PROVE A
  <2>1. history \in [Reviews -> [Reasons -> SUBSET Status]]
    BY <1>1 DEF IInv, TypeOK
  <2> QED
    BY <1>1, <2>1, SerialStep DEF CreateDoes, ReportDoes, DeleteDoes, AnalyseDoes, DecideDoes
<1>2. IInv /\ Fresh /\ [Next]_vars => [A]_vars
  BY <1>1
<1> QED
  BY <1>2, Freshness, PTL DEF Spec, HistoryKept
=============================================================================
