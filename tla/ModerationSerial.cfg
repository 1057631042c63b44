\* Two reviews, one session at a time; no dismissal, and an AI that finds no spam.
CONSTANTS
  Reviews = {r1, r2}
  ReportReasons = {"user_report"}
  Sessions = {s1}
  Decisions = {"publish", "reject", "flag"}
  Verdicts = {{"duplicate"}}
  Deletes = TRUE
  REPORTS_TO_HIDE = 2
  AUTO_PUBLISH_MIN = 1
  MaxReports = 2
  MaxDecisions = 2
SPECIFICATION Spec
SYMMETRY Permuted
INVARIANT HiddenIsQueued
 
 
\* Reports and decisions are bounded: the requests may run out.
CHECK_DEADLOCK FALSE
