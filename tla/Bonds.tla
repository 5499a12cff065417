------------------------------- MODULE Bonds -------------------------------
(***************************************************************************)
(* Builder registration and the staked bond: instructions/builder.rs and   *)
(* instructions/bond.rs, one action per instruction.                       *)
(***************************************************************************)
EXTENDS Accounts

SlashTraderBps == 7000
BpsDenominator == 10000

RegisterBuilder(b) ==
  /\ config # NoAccount
  /\ ~Exists(b)
  /\ builder' = [builder EXCEPT ![b] =
       [bond |-> 0, totalAum |-> 0, tier |-> 0, unbondRequestedAt |-> 0,
        slashCount |-> 0, agentCount |-> 0]]
  /\ UNCHANGED <<now, config, governance, listing, token>>

\* The bond after a stake, a withdrawal or a slash, with the tier that the
\* table of the moment gives it.
Rebonded(b, bond) ==
  [builder[b] EXCEPT !.bond = bond, !.tier = TierForBond(config.tiers, bond)]

StakeBond(b, source, amount) ==
  /\ config # NoAccount
  /\ Exists(b)
  /\ WalletOwner[source] = b
  /\ amount > 0
  /\ ~IsUnbonding(b)
  /\ CanPay(token, source, amount)
  /\ token' = Transfer(token, source, BondVault(b), amount)
  /\ builder' = [builder EXCEPT ![b] = Rebonded(b, builder[b].bond + amount)]
  /\ UNCHANGED <<now, config, governance, listing>>

RequestUnbond(b) ==
  /\ Exists(b)
  /\ ~IsUnbonding(b)
  /\ builder' = [builder EXCEPT ![b].unbondRequestedAt = now]
  /\ UNCHANGED <<now, config, governance, listing, token>>

CancelUnbond(b) ==
  /\ Exists(b)
  /\ IsUnbonding(b)
  /\ builder' = [builder EXCEPT ![b].unbondRequestedAt = 0]
  /\ UNCHANGED <<now, config, governance, listing, token>>

PeriodElapsed(b) == now - builder[b].unbondRequestedAt >= config.unbondPeriod

\* Mutant: the tier of before the withdrawal is asked.
RemainderCovers_OldTier(b, remaining) ==
  CeilingForTier(config.tiers, builder[b].tier) >= builder[b].totalAum

\* Mutant: the ceiling itself is not enough.
RemainderCovers_Strict(b, remaining) ==
  CeilingForTier(config.tiers, TierForBond(config.tiers, remaining)) > builder[b].totalAum

\* The capital still deployed fits under what the remaining bond entitles to.
RemainderCovers(b, remaining) ==
  CeilingForTier(config.tiers, TierForBond(config.tiers, remaining)) >= builder[b].totalAum

\* Mutant: the tier is left as it was.
Withdrawn_TierKept(b, remaining) ==
  [builder[b] EXCEPT !.bond = remaining, !.unbondRequestedAt = 0]

\* Mutant: the request stays in flight.
Withdrawn_RequestKept(b, remaining) == Rebonded(b, remaining)

\* The request is consumed: withdrawing again means waiting again.
Withdrawn(b, remaining) == [Rebonded(b, remaining) EXCEPT !.unbondRequestedAt = 0]

WithdrawBond(b, destination, amount) ==
  /\ config # NoAccount
  /\ Exists(b)
  /\ CanReceive(destination)
  /\ amount > 0
  /\ IsUnbonding(b)
  /\ amount <= builder[b].bond
  /\ PeriodElapsed(b)
  /\ RemainderCovers(b, builder[b].bond - amount)
  /\ CanPay(token, BondVault(b), amount)
  /\ token' = Transfer(token, BondVault(b), destination, amount)
  /\ builder' = [builder EXCEPT ![b] = Withdrawn(b, builder[b].bond - amount)]
  /\ UNCHANGED <<now, config, governance, listing>>

\* 70% to the harmed traders, rounded down; the rest to the buyback pool.
TraderCut(amount) == (amount * SlashTraderBps) \div BpsDenominator

BuybackCut(amount) == amount - TraderCut(amount)

\* Mutant: the counter is not saturating.
Slashed_Unsaturated(b, amount) ==
  [Rebonded(b, builder[b].bond - amount) EXCEPT !.slashCount = @ + 1]

\* Mutant: only what went to the traders leaves the bond.
Slashed_TraderCutOnly(b, amount) ==
  [Rebonded(b, builder[b].bond - TraderCut(amount)) EXCEPT
     !.slashCount = IF @ < U16Max THEN @ + 1 ELSE @]

Slashed(b, amount) ==
  [Rebonded(b, builder[b].bond - amount) EXCEPT
     !.slashCount = IF @ < U16Max THEN @ + 1 ELSE @]

SlashBond(signer, b, traderCompensation, buyback, amount) ==
  LET compensated == Transfer(token, BondVault(b), traderCompensation, TraderCut(amount))
  IN  /\ SignedByAuthority(signer)
      /\ Exists(b)
      /\ CanReceive(traderCompensation)
      /\ CanReceive(buyback)
      /\ amount > 0
      /\ amount <= builder[b].bond
      /\ CanPay(token, BondVault(b), TraderCut(amount))
      /\ CanPay(compensated, BondVault(b), BuybackCut(amount))
      /\ token' = Transfer(compensated, BondVault(b), buyback, BuybackCut(amount))
      /\ builder' = [builder EXCEPT ![b] = Slashed(b, amount)]
      /\ UNCHANGED <<now, config, governance, listing>>
=============================================================================
