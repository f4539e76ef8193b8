SPECIFICATION Spec
CONSTANTS
  Calls <- MCCalls
  Wallets = {w1, w2}
  NoWallet = none
  Addresses = {a1, a2}
  Invalid = invalid
  maxContacts = 2
  MaxPaste = 3
INVARIANTS
  TypeOK
  WithinLimit
  ShownIsOneRegistration
  OneRegistrationAtATime
  NoticeIsOfWallet
PROPERTIES
  NewToTheList
  SpinnerEnds
