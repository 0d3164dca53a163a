SPECIFICATION Spec
CONSTANTS
  alice = alice
  bob = bob
  Nobody = Nobody
  Users <- MCUsers
  Lists <- MCLists
  Reqs = {r1, r2, r3}
SYMMETRY MCSymmetry
INVARIANTS
  RoleFollowsClaim
  AnnouncedOnce
PROPERTIES
  ImplementsGrant
