SPECIFICATION FairSpec
CONSTANTS
  None = None
  SystemdUnits <- MCUnits
  Containers <- MCContainers
  UnitNamed <- MCUnitNamed
  Title <- MCTitle
  Bodies <- MCBodies
  Ids = {i1, i2}
  Refreshers = {}
  Reqs = {r1}
  MaxFaults = 1
INVARIANTS
  AnswersHold
PROPERTIES
  AnswersSettle
  DuplicatesClear
CHECK_DEADLOCK FALSE
