SPECIFICATION Spec
CONSTANTS
  None = None
  SystemdUnits <- MCNoUnits
  Containers <- MCContainers
  UnitNamed <- MCUnitless
  Title <- MCTitle
  Bodies <- MCBoxBodies
  Ids = {i1}
  Refreshers = {f1}
  Reqs = {r1, r2}
  MaxFaults = 1
SYMMETRY MCSymmetry
INVARIANTS
  AnswersHold
CHECK_DEADLOCK FALSE
