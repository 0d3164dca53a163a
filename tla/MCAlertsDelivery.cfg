SPECIFICATION FairSpec
CONSTANTS
  Services = {s1}
  Channels = {c1, c2}
  Capacity = 1
  RetryCount = 1
  Thresholds = {1}
  Intervals = {0}
  MaxEvents = 3
  MaxTime = 0
  MaxBoots = 1
  MaxRuleEdits = 0
INVARIANTS
  DeliveryAccounting
PROPERTIES
  EveryDeliverySettles
CHECK_DEADLOCK FALSE
