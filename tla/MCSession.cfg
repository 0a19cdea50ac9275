SPECIFICATION SessionSpec
CONSTANTS
  ann = ann
  bob = bob
  None = None
  Users = {ann, bob}
  MaxWallets = 2
  MaxLists = 2
  MaxFaults = 2
  MaxSignIns = 2
INVARIANTS
  SessionInv
  ShownMatchesServer
PROPERTIES
  ForeignCardsComeLate
CHECK_DEADLOCK FALSE
SYMMETRY Symmetry
