SPECIFICATION RegistrySpec
CONSTANTS
  alice = alice
  multisig = multisig
  vault = vault
  aliceWallet = aliceWallet
  Keys = {alice, multisig, vault}
  NoKey = NoKey
  NoAccount = NoAccount
  TierTables <- MCTierTables
  UnbondPeriods = {1}
  Delays = {1}
  Amounts = {1, 2}
  FeeConfigs <- MCFeeConfigs
  MaxUnbondPeriod = 1
  MinTimelockDelay = 1
  MaxTimelockDelay = 1
  Builders = {alice}
  BotKeys = {bot}
  Wallets = {aliceWallet}
  WalletOwner <- MCWalletOwner
  WalletBalance <- MCWalletBalance
  U16Max = 1
  U32Max = 1
  U64Max = 2
  MaxTime = 4
CONSTRAINT UsualKeys
INVARIANTS
  WithdrawalsAlwaysWork
CHECK_DEADLOCK FALSE
