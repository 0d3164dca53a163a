SPECIFICATION Spec
CONSTANTS
  None = None
  Ids <- MCIds
  Attributes <- MCAttributes
  Containers = {"docker", "podman"}
  Actions = {"start", "stop", "restart"}
  Retention = 1
  MaxProbes = 2
  MaxAsks = 2
  MaxFaults = 1
INVARIANTS
  NoFalseStatus
  IncidentsExact
PROPERTIES
  Settles
