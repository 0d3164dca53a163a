SPECIFICATION Spec
CONSTANTS
  None = None
  t1 = t1
  t2 = t2
  k1 = k1
  k2 = k2
  Tabs = {t1, t2}
  Slots = {k1, k2}
  Services <- MCServices
  Links <- MCLinks
  Shown <- MCShown
  Title <- MCTitle
  Source <- MCSource
  Modes <- MCModes
  Stored <- MCStored
  MaxGroup = 3
  MaxActs = 2
  MaxLooks = 4
  MaxFaults = 1
SYMMETRY Symmetry
INVARIANTS GroupsDistinct ShowsTarget
PROPERTIES DropLands PanicOnlyIfShrunk
CHECK_DEADLOCK FALSE
