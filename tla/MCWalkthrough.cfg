SPECIFICATION WalkSpec
CONSTANTS
  Keys = {cli,throwaway,alice,bob,carol,g1,g2,g3,v1,v2,v3}
  NoKey = NoKey
  NoAccount = NoAccount
  None = None
  Cli = cli
  Throwaway = throwaway
  Mints = {m1,m2,m3}
  Builders = {alice,bob,carol}
  BuilderKeys = {alice,bob,carol}
  GuardianKeys = {g1,g2,g3}
  VaultKeys = {v1,v2,v3}
  BotKeys = {bot}
  Ata <- MCAta
  Wallets <- MCWallets
  WalletOwner <- MCWalletOwner
  WalletBalance <- MCWalletBalance
  TierSetup <- MCTierSetup
  TierTables <- MCTierTables
  FeeConfigs <- MCFeeConfigs
  UnbondPeriod = 1
  UnbondPeriods = {1}
  MaxUnbondPeriod = 1
  Delay = 2
  Delays = {2}
  MinTimelockDelay = 2
  MaxTimelockDelay = 2
  Amounts = {1}
  U16Max = 6
  U32Max = 1
  U64Max = 1
  MaxTime = 20
  MaxFaults = 2
  Punctual = TRUE
INVARIANTS
  RerunsReuseKeys
  AuthorityKept
PROPERTIES
  ExpectedFailuresFail
  JourneyEnds
CHECK_DEADLOCK FALSE
