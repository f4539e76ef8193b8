SPECIFICATION FairSpec
CONSTANTS
  MaxCalls = 2
  MAX_CONTACTS = 3
  Wallets <- MCWallets
  Targets <- MCTargets
  Contacts <- MCContacts
  Normal <- MCNormal
  Lists <- MCLists
  NoMutual <- MCNoMutual
INVARIANTS
  TypeOK
  ReturnsAreSigned
  
  MatchesAreMutual
  RawEntryIsTransient
  KeyIsOfArciumRegistration
PROPERTIES
  ImplementsLibrary
CHECK_DEADLOCK FALSE
