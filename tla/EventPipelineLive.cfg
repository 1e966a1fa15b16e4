SPECIFICATION FairSpec
CONSTANTS
  Recipient = {r1}
  MaxChecks = 1
  Rechecks = FALSE
  OnlyIfPerson = TRUE
  Answers = {"yes", "no"}
  Workers = 2
  Upsets = {"offline", "crash"}
  MaxUpsets = 1
PROPERTY
  WorkSettles
CHECK_DEADLOCK FALSE
