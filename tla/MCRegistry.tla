----------------------------- MODULE MCRegistry -----------------------------
(* Small instances of Registry for TLC.                                     *)
EXTENDS Registry, FiniteSets

CONSTANTS alice, multisig, vault, aliceWallet

Table(b1, b2, b3, c1, c2, c3) == [bonds |-> <<b1, b2, b3>>, ceilings |-> <<c1, c2, c3>>]

LowTable == Table(1, 2, 3, 1, 2, 3)
HighTable == Table(2, 3, 4, 1, 2, 4)

MCTierTables == {LowTable, HighTable}
MCFeeConfigs == {LaunchDefaults}
MCWalletOwner == [w \in Wallets |-> alice]
MCWalletBalance == [w \in Wallets |-> 2]

\* One change hangs at a time, and nobody passes an odd key: the authority stays
\* the multisig, which hands nothing over, and the guardian the vault's key.
\* Governance alone is checked without this.
UsualKeys ==
  /\ config # NoAccount =>
       config.authority = multisig /\ config.vaultAuthority \in {NoKey, vault}
  /\ governance # NoAccount => governance.guardian = vault
  /\ pending["TransferAuthority"] = NoAccount
  /\ Cardinality({k \in Kinds : pending[k] # NoAccount}) <= 1
  /\ \A k \in Kinds : pending[k] # NoAccount =>
       pending[k].kind = k /\ pending[k].newKey \in {NoKey, vault}
=============================================================================
