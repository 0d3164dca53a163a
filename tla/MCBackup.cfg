SPECIFICATION Spec
CONSTANTS
  None = None
  Reqs = {r1, r2}
  Asks <- MCAsks
  MaxAsks = 3
  MaxFaults = 1
  TokenKinds = {"telegram", "gotify"}
  Kinds = {"webhook", "telegram", "gotify"}
  Stored <- MCStored
SYMMETRY MCSymmetry
INVARIANTS
  Integrity
  CredentialHeld
  BundleClosed
PROPERTIES
  FieldsKept
  ImportAdds
CHECK_DEADLOCK FALSE
