---------------------------- MODULE MCWalkthrough ----------------------------
(* Small instances of Walkthrough for TLC.                                  *)
EXTENDS Walkthrough

\* The amounts of the script, in units of 25 000 tokens.
MCTierSetup == [bonds |-> <<1, 4, 16>>, ceilings |-> <<1, 6, 40>>]

MCWalletOwner == [w \in Wallets |-> CHOOSE b \in Builders : Ata[b] = w]
MCWalletBalance == [w \in Wallets |-> 0]
MCTierTables == {MCTierSetup}
MCFeeConfigs == {LaunchDefaults}
MCAta == [b \in Builders |-> <<"ata", b>>]
MCWallets == {<<"ata", b>> : b \in Builders}
=============================================================================
