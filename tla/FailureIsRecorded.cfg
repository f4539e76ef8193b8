SPECIFICATION Spec
CONSTANTS
  Users <- MCUsers
  Offsets <- MCOffsets
  Sets <- MCSets
  CANONICAL_BUMP = 255
  MAX_CONTACTS = 2
  HALF = 1
  INDEX_VALUES = 256
INVARIANTS
  FailureIsRecorded
