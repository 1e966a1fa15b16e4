SPECIFICATION Spec
CONSTANTS
  Event = {e1, e2}
  NoEvent = NoEvent
  ArmedDefault = TRUE
  PostMotion = 1
  MaxEvent = 2
  Cooldown = 1
  Latency = 1
  MaxTime = 4
  MaxFaults = 1
SYMMETRY Symmetry
INVARIANTS
  TypeOK
  DisarmedQuiet
  
  SegmentFollowsMotion
  EndedRecordsAreComplete
  EventsAreCapped
PROPERTIES
  EventsBeginArmed
  CooldownBetweenEvents
  RestartKeepsSwitch
  
