SPECIFICATION Spec
CONSTANTS
  Recipient = {r1}
  MaxChecks = 2
  Rechecks = TRUE
  OnlyIfPerson = TRUE
  Answers = {"yes", "no", "unknown"}
  Workers = 2
  Upsets = {"disarmed"}
  MaxUpsets = 1
PROPERTY
  DisarmedNeverAsks
CHECK_DEADLOCK FALSE
