SPECIFICATION Spec
CONSTANTS
  alice = alice
  bob = bob
  Names <- MCNames
  Reqs = {r1, r2}
  Databases <- MCDatabases
  MaxUsers = 3
  MaxLogins = 3
  MaxRequests = 3
  MaxAborts = 1
SYMMETRY MCSymmetry
INVARIANTS
  TypeOK
  NamesUnique
  SessionsTracked
PROPERTIES
  AdminsKept
CHECK_DEADLOCK FALSE
