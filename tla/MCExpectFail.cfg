SPECIFICATION WalkSpec
CONSTANTS
  Keys = {cli,throwaway,alice,g1,v1}
  NoKey = NoKey
  NoAccount = NoAccount
  None = None
  Cli = cli
  Throwaway = throwaway
  Mints = {m1}
  Builders = {alice}
  BuilderKeys = {alice}
  GuardianKeys = {g1}
  VaultKeys = {v1}
  BotKeys = {bot}
  Ata <- MCAta
  Wallets <- MCWallets
  WalletOwner <- MCWalletOwner
  WalletBalance <- MCWalletBalance
  TierSetup <- MCTierSetup
  TierTables <- MCTierTables
  FeeConfigs <- MCFeeConfigs
  UnbondPeriod = 1
  UnbondPeriods = {1}
  MaxUnbondPeriod = 1
  Delay = 2
  Delays = {2}
  MinTimelockDelay = 2
  MaxTimelockDelay = 2
  Amounts = {1}
  U16Max = 6
  U32Max = 1
  U64Max = 1
  MaxTime = 20
  MaxFaults = 0
  Punctual = FALSE
PROPERTIES
  ExpectedFailuresFail
CHECK_DEADLOCK FALSE
