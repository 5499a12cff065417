-------------------------------- MODULE Aum --------------------------------
(***************************************************************************)
(* AUM accounting, called over CPI by the program that holds trader        *)
(* capital: instructions/aum.rs.                                           *)
(***************************************************************************)
EXTENDS Accounts

Deployed(b, i) == builder[b] # NoAccount /\ listing[b][i] # NoAccount

\* The vault program signs with the PDA the multisig registered for it.
SignedByVault(signer) ==
  config # NoAccount /\ config.vaultAuthority # NoKey /\ signer = config.vaultAuthority

\* The ceiling is per builder and comes from the tier stored at the last stake,
\* withdrawal or slash.
UnderCeiling(b, total) == total <= CeilingForTier(config.tiers, builder[b].tier)

\* Mutant: everything that is neither in vetting nor paused takes capital.
TakesCapital_Delisted(b, i) ==
  listing[b][i].status \notin {"Vetting", "Paused"} /\ ~IsUnbonding(b)

TakesCapital(b, i) == listing[b][i].status = "Live" /\ ~IsUnbonding(b)

Entered(b, i, amount, isNewVault) ==
  [listing[b][i] EXCEPT !.aum = @ + amount, !.vaultCount = @ + IF isNewVault THEN 1 ELSE 0]

RecordDeposit(signer, b, i, amount, isNewVault) ==
  /\ SignedByVault(signer)
  /\ Deployed(b, i)
  /\ amount > 0
  /\ TakesCapital(b, i)
  /\ UnderCeiling(b, builder[b].totalAum + amount)
  /\ listing[b][i].aum + amount <= U64Max
  /\ isNewVault => listing[b][i].vaultCount < U32Max
  /\ builder' = [builder EXCEPT ![b].totalAum = @ + amount]
  /\ listing' = [listing EXCEPT ![b][i] = Entered(b, i, amount, isNewVault)]
  /\ UNCHANGED <<now, config, governance, token>>

SaturatingSub(n, m) == IF n >= m THEN n - m ELSE 0

\* Mutant: a total smaller than the amount is left alone.
Relieved_Unsaturated(b, amount) ==
  IF builder[b].totalAum >= amount THEN builder[b].totalAum - amount ELSE builder[b].totalAum

\* Mutant: the builder's total keeps what has left.
Relieved_Forgotten(b, amount) == builder[b].totalAum

\* The builder's total and the listing's AUM saturate on their own.
Relieved(b, amount) == SaturatingSub(builder[b].totalAum, amount)

Left(b, i, amount, vaultClosed) ==
  [listing[b][i] EXCEPT !.aum = SaturatingSub(@, amount),
                        !.vaultCount = SaturatingSub(@, IF vaultClosed THEN 1 ELSE 0)]

\* No status, tier or unbonding check: traders can always leave.
RecordWithdrawal(signer, b, i, amount, vaultClosed) ==
  /\ SignedByVault(signer)
  /\ Deployed(b, i)
  /\ amount > 0
  /\ builder' = [builder EXCEPT ![b].totalAum = Relieved(b, amount)]
  /\ listing' = [listing EXCEPT ![b][i] = Left(b, i, amount, vaultClosed)]
  /\ UNCHANGED <<now, config, governance, token>>
=============================================================================
