------------------------------ MODULE Registry ------------------------------
(***************************************************************************)
(* The whole program: every instruction that lib.rs dispatches, over one   *)
(* Config, one Governance account and one clock.  Governance holds the     *)
(* privileged instructions, Capital the others; each knows the other as    *)
(* an environment, and here the environment is the real one.               *)
(***************************************************************************)
EXTENDS Governance, Fees

CONSTANTS
  Builders, BotKeys, Wallets, WalletOwner, WalletBalance,   \* as in Accounts, Capital
  Amounts, FeeConfigs,
  U16Max, U32Max, U64Max

VARIABLES builder, listing, token   \* Capital's own

registryVars == <<now, config, governance, pending, builder, listing, token>>

\* The configurations that Capital's environment may arrive at: the valid ones.
ValidConfigs == {c \in ConfigAccount : ValidTiers(c.tiers, c.unbondPeriod)}

Cap == INSTANCE Capital WITH
  Configs     <- ValidConfigs,
  Governances <- GovernanceAccount

\* What Accounts and Capital assume of their constants.
ASSUME BuildersAssumption == Builders \subseteq Keys

ASSUME WalletsAssumption ==
  /\ WalletOwner \in [Wallets -> Keys]
  /\ WalletBalance \in [Wallets -> Nat]
  /\ Wallets \cap Cap!BondVaults = {}

ASSUME EconomyAssumption ==
  /\ Amounts \subseteq Nat
  /\ U16Max \in Nat /\ U32Max \in Nat /\ U64Max \in Nat
  /\ FeeConfigs \subseteq FeeConfig
  /\ NoAccount \notin Cap!BuilderAccount
  /\ NoAccount \notin Cap!ListingAccount

RegistryInit == Init /\ Cap!Init

-----------------------------------------------------------------------------
\* One entry point per group of instructions.

\* Configuration (multisig), and governance without guardian_pause_listing.
PrivilegedInstruction ==
  Instruction /\ UNCHANGED <<builder, listing, token>>

\* Builder identity and bond.
BondInstruction == Cap!BondStep /\ UNCHANGED pending

\* Listings, and guardian_pause_listing.
ListingInstruction == Cap!ListingStep /\ UNCHANGED pending

\* AUM reporting (CPI from agent_vault).
AumInstruction == Cap!AumStep /\ UNCHANGED pending

\* Anybody may send $AGENT with the token program.
AnybodyTransfers ==
  /\ \E from \in Wallets, to \in Cap!TokenAccounts, amount \in Amounts :
       Cap!TokenTransfer(from, to, amount)
  /\ UNCHANGED pending

RegistryTick == Tick /\ UNCHANGED <<builder, listing, token>>

RegistryNext ==
  \/ PrivilegedInstruction
  \/ BondInstruction
  \/ ListingInstruction
  \/ AumInstruction
  \/ AnybodyTransfers
  \/ RegistryTick

RegistrySpec == RegistryInit /\ [][RegistryNext]_registryVars

-----------------------------------------------------------------------------
\* Properties

\* The privileged half is a legal environment of the economic half: whatever
\* mix of instructions runs, builders, listings and AUM never meet a
\* configuration that Capital does not allow for (execute_change,
\* set_unbond_period, initialize_config against everything that reads Config).
ImplementsCapital == Cap!Spec

\* And the economic half never touches what is under the timelock.
ImplementsGovernance == Spec

\* A table that hung in its slot for the least notice there can be.
AnnouncedTable(table) ==
  LET change == pending["UpdateTiers"]
  IN  /\ change # NoAccount
      /\ change.kind = "UpdateTiers"
      /\ change.tiers = table
      /\ now - change.queuedAt >= MinTimelockDelay

\* A bond stops covering the capital deployed without a slash only by a tier table
\* that was public for the least delay: at once, when the table executes, or later,
\* by a deposit that is held against the tier cached before it.  No cached tier goes
\* stale, so that such a deposit can be made, but by a table as public (execute_change
\* against withdraw_bond and record_deposit).
CoverLostOnlyWithNotice ==
  [][ \A b \in Builders : Cap!Exists(b) =>
        /\ Cap!Covered(b) =>
             \/ Cap!Covered(b)'
             \/ Cap!SlashStep(b)
             \/ Cap!StaleDeposit(b)
             \/ AnnouncedTable(config'.tiers)
        /\ Cap!TierFresh(b) =>
             Cap!TierFresh(b)' \/ AnnouncedTable(config'.tiers) ]_registryVars

NoticeOver(b) == Cap!IsUnbonding(b) /\ Cap!PeriodElapsed(b)

\* A builder that may withdraw may go on withdrawing until its request is gone: only
\* a longer period makes it wait again (set_unbond_period), as request_unbond stores
\* no end of its own, and nothing does once the request is MAX_UNBOND_PERIOD old,
\* whatever period the registry started with.
ServedNoticeStands ==
  [][ \A b \in Builders : Cap!Exists(b) /\ NoticeOver(b) =>
        \/ Cap!PeriodElapsed(b)'
        \/ builder'[b].unbondRequestedAt = 0
        \/ /\ now - builder[b].unbondRequestedAt < MaxUnbondPeriod
           /\ \E signer \in Keys, period \in UnbondPeriods : SetUnbondPeriod(signer, period)
    ]_registryVars

\* "Withdrawals always work ... so traders can exit a paused listing, a delisted
\* agent, or an unbonding builder" (README.md): while capital is recorded, there
\* is a key that can record its withdrawal (record_withdrawal, assert_vault).
WithdrawalsAlwaysWork ==
  \A b \in Builders, i \in Cap!Indices :
    Cap!HasListing(b, i) /\ listing[b][i].aum > 0 => config.vaultAuthority # NoKey
=============================================================================
