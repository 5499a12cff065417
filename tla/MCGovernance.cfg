SPECIFICATION Spec
CONSTANTS
  Keys = {multisig, guardian}
  NoKey = NoKey
  NoAccount = NoAccount
  TierTables <- MCTierTables
  UnbondPeriods <- MCUnbondPeriods
  Delays <- MCDelays
  MaxUnbondPeriod = 1
  MinTimelockDelay = 1
  MaxTimelockDelay = 2
  MaxTime = 3
INVARIANTS
  GovernanceTypeOK
  PendingHonoursDelay
  ExecutionNeverFailsValidation
  ConfigStaysValid
PROPERTIES
  TimelockSpec
CONSTRAINT AtMostTwoOpen
SYMMETRY KeySymmetry
CHECK_DEADLOCK FALSE
