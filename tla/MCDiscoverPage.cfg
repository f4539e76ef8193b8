SPECIFICATION Spec
CONSTANTS
  Calls <- MCCalls
INVARIANTS
  TypeOK
  ShownIsOneResult
  SpinnerIsLive
  OnlySetupOverlaps
PROPERTIES
  SpinnerEnds
