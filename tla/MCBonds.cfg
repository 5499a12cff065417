SPECIFICATION HistorySpec
CONSTANTS
  alice = alice
  bob = bob
  multisig = multisig
  guardian = guardian
  vault = vault
  aliceWallet = aliceWallet
  bobWallet = bobWallet
  poolWallet = poolWallet
  Keys = {alice, multisig, guardian, vault}
  NoKey = NoKey
  NoAccount = NoAccount
  Builders = {alice}
  BotKeys = {bot}
  Wallets <- OneBuilderWallets
  WalletOwner <- MCWalletOwner
  WalletBalance <- MCWalletBalance
  Amounts = {1, 2}
  U16Max = 1
  U32Max = 1
  U64Max = 3
  Configs <- TwoConfigs
  Governances <- MCGovernances
  FeeConfigs <- MCFeeConfigs
  MaxTime = 4
INVARIANTS
  TypeOK
  BondsBacked
PROPERTIES
  TierStaleOnlyByUpdate
  CoverLostTwoWays
  NoticeServed
CHECK_DEADLOCK FALSE
