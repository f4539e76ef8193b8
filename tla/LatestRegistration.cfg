SPECIFICATION Spec
CONSTANTS
  MaxCalls = 2
  MAX_CONTACTS = 3
  Wallets <- MCWallets
  Targets <- MCTargets
  Contacts <- MCContacts
  Normal <- MCNormal
  Lists <- MCLists
  NoMutual <- MCNoMutual
INVARIANTS
  LatestRegistrationIsStored
CHECK_DEADLOCK FALSE
