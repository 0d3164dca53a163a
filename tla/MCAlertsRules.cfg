SPECIFICATION FairSpec
CONSTANTS
  Services = {s1}
  Channels = {}
  Capacity = 2
  RetryCount = 1
  Thresholds <- MCThresholds
  Intervals <- MCIntervals
  MaxEvents = 6
  MaxTime = 2
  MaxBoots = 1
  MaxRuleEdits = 1
INVARIANTS
  TypeOK
  OutageAnnounced
PROPERTIES
  ThresholdMet
  RepeatSpacing
  AlertsFormOutages
  LoopDrains
CHECK_DEADLOCK FALSE
