SPECIFICATION Spec
CONSTANTS
  Recipient = {r1, r2}
  MaxChecks = 2
  Rechecks = TRUE
  OnlyIfPerson = TRUE
  Answers = {"yes", "no"}
  Workers = 2
  Upsets = {"disarmed", "deleted", "offline", "crash", "save raises"}
  MaxUpsets = 1
SYMMETRY Symmetry
INVARIANTS
  TypeOK
  
  NotifiedMeansEveryone
  RecheckReleases
  
PROPERTIES
  
  NobodyNoAlarm
CHECK_DEADLOCK FALSE
