SPECIFICATION Spec
CONSTANTS
  ann = ann
  anne = anne
  bob = bob
  w1 = w1
  w2 = w2
  w3 = w3
  typed = typed
  shouted = shouted
  other = other
  mailA = mailA
  mailB = mailB
  None = None
  Quorum = Quorum
  Registrations = {ann, anne, bob}
  Creations = {w1, w2, w3}
  Spellings = {typed, shouted, other}
  Emails = {mailA, mailB}
  Normal <- MCNormal
  Typed <- MCTyped
  UserOf <- MCUserOf
  Wants <- MCWants
  ServerKeys = FALSE
  MaxAttempts = 2
  MaxFaults = 2
  MaybeKnown = {mailA}
INVARIANTS
  AccountsInv
  OneAccountPerMailbox
  OnePrimaryWallet
  WalletsAccountedFor
PROPERTIES
  LinkIsFinal
CHECK_DEADLOCK FALSE
