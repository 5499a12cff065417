------------------------------ MODULE Capital ------------------------------
(***************************************************************************)
(* Bonds, listings and AUM together, with what moves around them: the      *)
(* clock, the holders of $AGENT, and governance, which may set the Config  *)
(* and Governance accounts to any valid value at any time (module          *)
(* Governance says when it really does).                                   *)
(***************************************************************************)
EXTENDS Bonds, Listings, Aum, FiniteSetsExt

CONSTANTS
  Configs,       \* the Config accounts governance may arrive at
  Governances,   \* the Governance accounts it may arrive at
  FeeConfigs,    \* fee configurations that callers may propose
  WalletBalance, \* what the wallets hold at first
  MaxTime        \* bound on the clock, for TLC

ASSUME EnvironmentAssumption ==
  /\ \A c \in Configs : c \in ConfigAccount /\ WellShaped(c.tiers) /\ c.unbondPeriod > 0
  /\ Governances \subseteq GovernanceAccount
  /\ FeeConfigs \subseteq FeeConfig
  /\ WalletBalance \in [Wallets -> Nat]
  /\ MaxTime \in Nat

Init ==
  /\ now = 1
  /\ config = NoAccount
  /\ governance = NoAccount
  /\ builder = [b \in Builders |-> NoAccount]
  /\ listing = [b \in Builders |-> [i \in Indices |-> NoAccount]]
  /\ token = [a \in TokenAccounts |-> IF a \in Wallets THEN WalletBalance[a] ELSE 0]

-----------------------------------------------------------------------------
\* The environment

Reconfigure ==
  /\ config' \in Configs
  /\ governance' \in Governances \cup {governance}
  /\ UNCHANGED <<now, builder, listing, token>>

\* Anybody may send $AGENT anywhere with the token program, to an escrow too.
TokenTransfer(from, to, amount) ==
  /\ CanReceive(to)
  /\ CanPay(token, from, amount)
  /\ token' = Transfer(token, from, to, amount)
  /\ UNCHANGED <<now, config, governance, builder, listing>>

Tick ==
  /\ now < MaxTime
  /\ now' = now + 1
  /\ UNCHANGED <<config, governance, builder, listing, token>>

-----------------------------------------------------------------------------

BondStep ==
  \E b \in Builders :
    \/ RegisterBuilder(b)
    \/ RequestUnbond(b)
    \/ CancelUnbond(b)
    \/ \E amount \in Amounts :
         \/ \E source \in Wallets : StakeBond(b, source, amount)
         \/ \E destination \in TokenAccounts : WithdrawBond(b, destination, amount)
         \/ \E signer \in Keys, traders, buyback \in TokenAccounts :
              SlashBond(signer, b, traders, buyback, amount)

ListingStep ==
  \E b \in Builders :
    \/ \E bot \in BotKeys : SubmitListing(b, bot)
    \/ \E i \in Indices :
         \/ \E bot \in BotKeys : RotateAgentAuthority(b, i, bot)
         \/ \E signer \in Keys :
              \/ \E fees \in FeeConfigs : ApproveListing(signer, b, i, fees)
              \/ PauseListing(signer, b, i)
              \/ GuardianPauseListing(signer, b, i)
              \/ ResumeListing(signer, b, i)
              \/ Delist(signer, b, i)

AumStep ==
  \E signer \in Keys, b \in Builders, i \in Indices, amount \in Amounts, flag \in BOOLEAN :
    \/ RecordDeposit(signer, b, i, amount, flag)
    \/ RecordWithdrawal(signer, b, i, amount, flag)

Environment ==
  \/ Reconfigure
  \/ \E from \in Wallets, to \in TokenAccounts, amount \in Amounts :
       TokenTransfer(from, to, amount)
  \/ Tick

Next == BondStep \/ ListingStep \/ AumStep \/ Environment

Spec == Init /\ [][Next]_vars

-----------------------------------------------------------------------------
\* Properties

\* Every bond is backed by the tokens in its escrow, over stakes, withdrawals to
\* any account (the escrow itself included), slashes split in two transfers and
\* tokens that strangers send (stake_bond, withdraw_bond, slash_bond).
BondsBacked ==
  \A b \in Builders : Exists(b) => builder[b].bond <= token[BondVault(b)]

\* Trader capital is only ever under a listing whose fees passed the guardrails,
\* whatever happened to the listing since (approve_listing, record_deposit).
CapitalUnderGuardrails ==
  \A b \in Builders, i \in Indices :
    /\ HasListing(b, i)
    /\ listing[b][i].aum > 0 \/ listing[b][i].status \in {"Live", "Paused"}
    => Validate(listing[b][i].fees)

\* Listings occupy the indices below agent_count, none skipped and none taken
\* twice, so the next submit_listing finds its PDA free (submit_listing).
IndicesContiguous ==
  \A b \in Builders, i \in Indices :
    HasListing(b, i) <=> Exists(b) /\ i < builder[b].agentCount

AumOf(account) == IF account = NoAccount THEN 0 ELSE account.aum

SumOfAum(b) == SumFunctionOnSet([i \in Indices |-> AumOf(listing[b][i])], Indices)

\* The figure the ceiling is enforced on never exceeds the capital the listings
\* account for: a builder is never refused capital that is not there
\* (record_deposit, record_withdrawal).
TotalAumWithinSum ==
  \A b \in Builders : Exists(b) => builder[b].totalAum <= SumOfAum(b)

\* "Sum of `aum_current` across every listing this builder owns" (state.rs,
\* Builder.total_aum).
TotalAumIsSum ==
  \A b \in Builders : Exists(b) => builder[b].totalAum = SumOfAum(b)

TierFresh(b) == builder[b].tier = TierForBond(config.tiers, builder[b].bond)

\* The bond, at today's table, stands behind the capital deployed.
Covered(b) ==
  LET tier == TierForBond(config.tiers, builder[b].bond)
  IN  builder[b].totalAum <= CeilingForTier(config.tiers, tier)

SlashStep(b) ==
  \E signer \in Keys, traders, buyback \in TokenAccounts, amount \in Amounts :
    SlashBond(signer, b, traders, buyback, amount)

WithdrawStep(b) ==
  \E destination \in TokenAccounts, amount \in Amounts : WithdrawBond(b, destination, amount)

DepositStep(b) ==
  \E signer \in Keys, i \in Indices, amount \in Amounts, isNewVault \in BOOLEAN :
    RecordDeposit(signer, b, i, amount, isNewVault)

\* A deposit that is held against a tier the bond does not deserve any more:
\* record_deposit reads the cached tier (state.rs, Builder.tier).
StaleDeposit(b) == ~TierFresh(b) /\ DepositStep(b)

\* Only a new tier table makes a stored tier stale, and the next instruction that
\* moves the bond stores the tier it deserves again (stake_bond, withdraw_bond,
\* slash_bond, which call tier_for_bond).
TierStaleOnlyByUpdate ==
  [][ \A b \in Builders :
        /\ Exists(b)
        /\ config'.tiers = config.tiers
        /\ TierFresh(b) \/ builder'[b].bond # builder[b].bond
        => TierFresh(b)' ]_vars

\* While the tier table stands, a builder whose bond covers the capital deployed
\* loses that cover in two ways only: by a slash, or by a deposit that was let in
\* on a tier cached under an earlier table.  No withdrawal of the bond does it, nor
\* a deposit under a tier that is right, nor anything done to listings
\* (record_deposit, withdraw_bond).
CoverLostTwoWays ==
  [][ \A b \in Builders :
        Exists(b) /\ Covered(b) /\ config'.tiers = config.tiers
          => Covered(b)' \/ SlashStep(b) \/ StaleDeposit(b) ]_vars

\* Delisting is terminal and leaves nothing behind: no status, fee, bot key or
\* capital ever moves on a delisted listing again (delist).
DelistedIsFinal ==
  [][ \A b \in Builders, i \in Indices :
        HasListing(b, i) /\ listing[b][i].status = "Delisted" =>
          /\ listing[b][i].aum = 0
          /\ listing'[b][i] = [listing[b][i] EXCEPT !.vaultCount = listing'[b][i].vaultCount]
    ]_vars
=============================================================================
