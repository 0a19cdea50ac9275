SPECIFICATION Spec
CONSTANTS
  v = v
  None = None
  Vaults = {v}
  Home = v
  Funds = 2
  Allowances = {1}
  Amounts = {2}
  ScriptAmount = 1
  SkipWithdraw = FALSE
  MaxCalls = 3
  MaxRows = 4
  MaxFaults = 1
VIEW UpToNumbers
INVARIANTS
  RevertNeedsRace
  DepositsAreApproved
  SuccessMeansConfirmed
  FormIsOfItsVault
