SPECIFICATION Spec
CONSTANTS
  alice = alice
  bob = bob
  multisig = multisig
  guardian = guardian
  vault = vault
  aliceWallet = aliceWallet
  bobWallet = bobWallet
  poolWallet = poolWallet
  Keys = {alice, multisig, guardian, vault}
  NoKey = NoKey
  NoAccount = NoAccount
  Builders = {alice}
  BotKeys = {bot, newBot}
  Wallets = {aliceWallet}
  WalletOwner <- MCWalletOwner
  WalletBalance <- MCWalletBalance
  Amounts = {1, 2}
  U16Max = 2
  U32Max = 1
  U64Max = 2
  Configs <- OneConfig
  Governances <- MCGovernances
  FeeConfigs <- MCFeeConfigs
  MaxTime = 2
INVARIANTS
  CapitalUnderGuardrails
  IndicesContiguous
  TotalAumWithinSum
PROPERTIES
  DelistedIsFinal
SYMMETRY BotSymmetry
CHECK_DEADLOCK FALSE
