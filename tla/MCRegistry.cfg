SPECIFICATION RegistrySpec
CONSTANTS
  alice = alice
  multisig = multisig
  vault = vault
  aliceWallet = aliceWallet
  Keys = {alice, multisig, vault}
  NoKey = NoKey
  NoAccount = NoAccount
  TierTables <- MCTierTables
  UnbondPeriods = {0, 1, 2, 3}
  Delays = {1}
  Amounts = {1}
  FeeConfigs <- MCFeeConfigs
  MaxUnbondPeriod = 2
  MinTimelockDelay = 1
  MaxTimelockDelay = 1
  Builders = {alice}
  BotKeys = {bot}
  Wallets = {aliceWallet}
  WalletOwner <- MCWalletOwner
  WalletBalance <- MCWalletBalance
  U16Max = 1
  U32Max = 1
  U64Max = 2
  MaxTime = 3
CONSTRAINT UsualKeys
PROPERTIES
  ImplementsCapital
  CoverLostOnlyWithNotice
  ServedNoticeStands
CHECK_DEADLOCK FALSE
