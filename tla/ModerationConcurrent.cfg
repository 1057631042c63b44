\* One review, two sessions open at once, every request, decision and AI verdict.
CONSTANTS
  Reviews = {r1}
  ReportReasons = {"user_report", "spam"}
  Sessions = {s1, s2}
  Decisions = {"publish", "reject", "flag", "dismiss"}
  Verdicts = {{"spam"}, {"duplicate"}}
  Deletes = TRUE
  REPORTS_TO_HIDE = 2
  AUTO_PUBLISH_MIN = 1
  MaxReports = 2
  MaxDecisions = 1
SPECIFICATION Spec
SYMMETRY Permuted
INVARIANT TypeOK
INVARIANT HiddenHasItem
\* Reports and decisions are bounded: the requests may run out.
CHECK_DEADLOCK FALSE
