SPECIFICATION FairSpec
CONSTANTS
  s1 = s1
  s2 = s2
  Stops <- BothStops
  MaxThrottle = 1
  Configurations <- EachSetting
INVARIANTS TypeOK CleanStop KeepsTrying Supervised
PROPERTIES Throttled Restarted StopEnds
CHECK_DEADLOCK FALSE
