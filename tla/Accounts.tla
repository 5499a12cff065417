------------------------------ MODULE Accounts ------------------------------
(***************************************************************************)
(* The economic half of agent-registry: the accounts that builders, agent  *)
(* listings and bonds live in (state.rs), and the $AGENT token balances.   *)
(* Bonds, Listings and Aum hold the instructions that move them; Capital   *)
(* puts them together with their environment.                              *)
(*                                                                         *)
(* Left out: created_at, approved_at, market, metadata_hash and bumps,     *)
(* which no instruction reads.                                             *)
(***************************************************************************)
EXTENDS Integers, Tiers, Fees

CONSTANTS
  Keys,          \* keys somebody can sign with
  NoKey,         \* Pubkey::default()
  NoAccount,     \* an account that has not been created
  Builders,      \* the keys that may register as builders
  BotKeys,       \* signing keys of the builders' bots
  Wallets,       \* $AGENT token accounts held by keys
  WalletOwner,   \* the key that holds each wallet
  Amounts,       \* amounts that callers may pass
  U16Max,        \* u16::MAX: slash_count, agent_count
  U32Max,        \* u32::MAX: vault_count
  U64Max         \* u64::MAX: aum_current

VARIABLES
  now,           \* unix_timestamp of the Clock sysvar
  config,        \* the Config PDA
  governance,    \* the Governance PDA
  builder,       \* the Builder PDA of each key
  listing,       \* listing[b][i]: the AgentListing PDA of seeds (b, i)
  token          \* $AGENT held by each token account

vars == <<now, config, governance, builder, listing, token>>

AnyKey == Keys \cup {NoKey}

ConfigAccount ==
  [authority : AnyKey, vaultAuthority : AnyKey, tiers : TierTable, unbondPeriod : Int]

GovernanceAccount == [guardian : Keys, timelockDelay : Int]

BuilderAccount ==
  [bond : Nat, totalAum : Nat, tier : 0..TierCount, unbondRequestedAt : Nat,
   slashCount : 0..U16Max, agentCount : 0..U16Max]

Statuses == {"Vetting", "Live", "Paused", "Delisted"}

ListingAccount ==
  [agentAuthority : BotKeys, status : Statuses, fees : FeeConfig,
   aum : 0..U64Max, vaultCount : 0..U32Max]

\* The index of a new listing is the agent_count, which must be incremented.
Indices == 0..(U16Max - 1)

\* The escrow of a builder, a token account owned by the builder PDA.
BondVault(b) == <<"bond", b>>

BondVaults == {BondVault(b) : b \in Builders}

TokenAccounts == Wallets \cup BondVaults

ASSUME KeysAssumption == Builders \subseteq Keys /\ NoKey \notin Keys

ASSUME WalletsAssumption ==
  WalletOwner \in [Wallets -> Keys] /\ Wallets \cap BondVaults = {}

ASSUME NoAccountAssumption ==
  /\ NoAccount \notin ConfigAccount
  /\ NoAccount \notin GovernanceAccount
  /\ NoAccount \notin BuilderAccount
  /\ NoAccount \notin ListingAccount

ASSUME NumbersAssumption ==
  /\ Amounts \subseteq Nat
  /\ U16Max \in Nat /\ U32Max \in Nat /\ U64Max \in Nat

TypeOK ==
  /\ now \in Nat
  /\ config \in ConfigAccount \cup {NoAccount}
  /\ governance \in GovernanceAccount \cup {NoAccount}
  /\ builder \in [Builders -> BuilderAccount \cup {NoAccount}]
  /\ listing \in [Builders -> [Indices -> ListingAccount \cup {NoAccount}]]
  /\ token \in [TokenAccounts -> Nat]

Exists(b) == builder[b] # NoAccount

IsUnbonding(b) == builder[b].unbondRequestedAt > 0

SignedByAuthority(signer) == config # NoAccount /\ config.authority = signer

\* The SPL token program: a transfer fails if the balance does not cover it, and
\* a transfer to the account itself moves nothing.
CanPay(balances, from, amount) == balances[from] >= amount

Transfer(balances, from, to, amount) ==
  [a \in TokenAccounts |->
     balances[a] - (IF a = from THEN amount ELSE 0) + (IF a = to THEN amount ELSE 0)]

\* A bond vault is created together with its builder.
CanReceive(account) ==
  account \in Wallets \/ \E b \in Builders : account = BondVault(b) /\ Exists(b)
=============================================================================
