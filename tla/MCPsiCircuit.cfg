SPECIFICATION FairSpec
CONSTANTS
  MAX_CONTACTS = 2
  Half <- MCHalf
  Counts <- MCCounts
  Clients <- MCClients
INVARIANTS
  TypeOK
  LoopInv
  ResultIsIntersection
  CountIsExact
  ObliviousSchedule
PROPERTIES
  Returns
CHECK_DEADLOCK FALSE
