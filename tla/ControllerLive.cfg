SPECIFICATION FairSpec
CONSTANTS
  Event = {e1, e2}
  NoEvent = NoEvent
  ArmedDefault = TRUE
  PostMotion = 1
  MaxEvent = 2
  Cooldown = 0
  Latency = 1
  MaxTime = 2
  MaxFaults = 0
PROPERTIES
  
  LatchedMotionIsRecorded
