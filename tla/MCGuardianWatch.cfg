SPECIFICATION WatchSpec
CONSTANTS
  Keys = {multisig, guardian}
  NoKey = NoKey
  NoAccount = NoAccount
  TierTables <- MCTierTables
  UnbondPeriods <- MCUnbondPeriods
  Delays <- MCDelays
  MaxUnbondPeriod = 1
  MinTimelockDelay = 2
  MaxTimelockDelay = 3
  MaxTime = 4
  Vigilance = 1
PROPERTIES
  LeversHeld
SYMMETRY KeySymmetry
CHECK_DEADLOCK FALSE
