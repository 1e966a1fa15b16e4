SPECIFICATION Spec
CONSTANTS
  Recipient = {r1}
  MaxChecks = 2
  Rechecks = TRUE
  OnlyIfPerson = TRUE
  Answers = {"yes", "no", "unknown"}
  Workers = 2
  Upsets = {}
  MaxUpsets = 0
INVARIANT
  PersonReleasesAlarm
CHECK_DEADLOCK FALSE
