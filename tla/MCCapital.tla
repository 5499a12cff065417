----------------------------- MODULE MCCapital -----------------------------
(* Small instances of Capital for TLC.                                      *)
EXTENDS Capital, TLC

CONSTANTS alice, bob, multisig, guardian, vault, aliceWallet, bobWallet, poolWallet

Table(b1, b2, b3, c1, c2, c3) == [bonds |-> <<b1, b2, b3>>, ceilings |-> <<c1, c2, c3>>]

LowTable == Table(1, 2, 3, 1, 2, 3)
HighTable == Table(2, 3, 4, 1, 2, 4)

ConfigWith(table, period) ==
  [authority |-> multisig, vaultAuthority |-> vault, tiers |-> table, unbondPeriod |-> period]

OneBuilderWallets == {aliceWallet, poolWallet}

MCWalletOwner ==
  [w \in Wallets |-> CASE w = aliceWallet -> alice [] w = bobWallet -> bob [] OTHER -> multisig]
MCWalletBalance == [w \in Wallets |-> IF w = poolWallet THEN 0 ELSE 3]

OneConfig == {ConfigWith(LowTable, 1)}
\* Governance moves the tier table and the unbonding period.
TwoConfigs == {ConfigWith(LowTable, 1), ConfigWith(HighTable, 2)}

MCGovernances == {[guardian |-> guardian, timelockDelay |-> 1]}

TooExpensive == [LaunchDefaults EXCEPT !.performanceFee = 2001]
MCFeeConfigs == {LaunchDefaults, TooExpensive}

\* Bot keys are stored and never compared.
BotSymmetry == Permutations(BotKeys)
=============================================================================
