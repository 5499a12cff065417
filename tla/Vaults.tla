------------------------------- MODULE Vaults -------------------------------
(***************************************************************************)
(* Capital with the two parties it is there for: traders, whose capital    *)
(* the vault program holds and reports, and builders who want their bond   *)
(* back.  agent_vault is not in the repository; this is the least one that *)
(* reports what really enters and leaves (lib.rs: it "holds trader capital *)
(* and calls back here over CPI to report AUM").                           *)
(*                                                                         *)
(* Capital lets the vault authority report anything; here every report is  *)
(* of a trader's own deposit or withdrawal, in the same transaction.  A    *)
(* trader has one vault under a listing, and may have it closed while some *)
(* of its capital is still to come out, or leave it open and empty: the    *)
(* registry takes either flag with any amount.                             *)
(***************************************************************************)
EXTENDS Capital

CONSTANTS
  Traders,       \* who may put capital under a listing
  LastDecision   \* bound on the time at which a builder decides to leave

VARIABLES
  principal,   \* what each trader has put into each listing and not taken out
  open,        \* the traders whose vault under a listing is open
  leaving      \* builders that want the whole bond back, for good

vaultVars == <<vars, principal, open, leaving>>

ASSUME TradersAssumption == IsFiniteSet(Traders)

ASSUME LastDecisionAssumption == LastDecision \in Nat

VaultInit ==
  /\ Init
  /\ principal = [b \in Builders |-> [i \in Indices |-> [t \in Traders |-> 0]]]
  /\ open = [b \in Builders |-> [i \in Indices |-> {}]]
  /\ leaving = [b \in Builders |-> FALSE]

-----------------------------------------------------------------------------
\* Traders

TraderDeposits(b, i, t, amount) ==
  /\ \E vault \in Keys : RecordDeposit(vault, b, i, amount, t \notin open[b][i])
  /\ principal' = [principal EXCEPT ![b][i][t] = @ + amount]
  /\ open' = [open EXCEPT ![b][i] = @ \cup {t}]
  /\ UNCHANGED leaving

TraderWithdraws(b, i, t, amount, closes) ==
  /\ amount <= principal[b][i][t]
  /\ closes => t \in open[b][i]
  /\ \E vault \in Keys : RecordWithdrawal(vault, b, i, amount, closes)
  /\ principal' = [principal EXCEPT ![b][i][t] = @ - amount]
  /\ open' = [open EXCEPT ![b][i] = IF closes THEN @ \ {t} ELSE @]
  /\ UNCHANGED leaving

TraderStep ==
  \E b \in Builders, i \in Indices, t \in Traders, amount \in Amounts :
    \/ TraderDeposits(b, i, t, amount)
    \/ \E closes \in BOOLEAN : TraderWithdraws(b, i, t, amount, closes)

-----------------------------------------------------------------------------
\* Builders that leave

DecidesToLeave(b) ==
  /\ Exists(b)
  /\ ~leaving[b]
  /\ now <= LastDecision
  /\ leaving' = [leaving EXCEPT ![b] = TRUE]
  /\ UNCHANGED <<vars, principal, open>>

\* A builder that leaves stakes nothing more and gives its request up for nothing
\* less than the whole bond: a smaller withdrawal would consume it.
KeepsItsWord ==
  \A b \in Builders : leaving[b] =>
    /\ builder'[b].bond <= builder[b].bond
    /\ IsUnbonding(b) => builder'[b].unbondRequestedAt > 0 \/ builder'[b].bond = 0

AsksForBond(b) ==
  /\ leaving[b]
  /\ RequestUnbond(b)
  /\ UNCHANGED <<principal, open, leaving>>

TakesBondHome(b) ==
  /\ leaving[b]
  /\ \E destination \in Wallets : WithdrawBond(b, destination, builder[b].bond)
  /\ UNCHANGED <<principal, open, leaving>>

\* A builder that leaves asks before the next second: this bounds the clock.
HasAsked(b) == leaving[b] /\ builder[b].bond > 0 => IsUnbonding(b)

VaultTick ==
  /\ \A b \in Builders : HasAsked(b)
  /\ Tick
  /\ UNCHANGED <<principal, open, leaving>>

-----------------------------------------------------------------------------

VaultNext ==
  \/ TraderStep
  \/ \E b \in Builders : DecidesToLeave(b) \/ AsksForBond(b) \/ TakesBondHome(b)
  \/ BondStep /\ KeepsItsWord /\ UNCHANGED <<principal, open, leaving>>
  \/ ListingStep /\ UNCHANGED <<principal, open, leaving>>
  \/ Reconfigure /\ UNCHANGED <<principal, open, leaving>>
  \/ VaultTick

\* The clock goes on, and a builder that leaves sends its own instructions when
\* they would succeed.  Nobody else has to do anything.
VaultFairness ==
  /\ WF_vaultVars(VaultTick)
  /\ \A b \in Builders : WF_vaultVars(AsksForBond(b)) /\ WF_vaultVars(TakesBondHome(b))

VaultSpec == VaultInit /\ [][VaultNext]_vaultVars /\ VaultFairness

-----------------------------------------------------------------------------
\* Properties

BondIsHome(b) == Exists(b) /\ builder[b].bond = 0

TradersIn(b) == \E i \in Indices, t \in Traders : principal[b][i][t] > 0

CapitalIn(b, i) == SumFunctionOnSet(principal[b][i], Traders)

VaultCountOf(account) == IF account = NoAccount THEN 0 ELSE account.vaultCount

\* While reports are honest the figures that record_deposit and record_withdrawal
\* keep apart stay right, and together: the listing's AUM is the capital of all the
\* traders in it, its vault count the vaults open, whichever order vaults are emptied
\* and closed in, the builder's total the sum, and no counter saturates.
LedgersAgree ==
  /\ \A b \in Builders, i \in Indices :
       /\ CapitalIn(b, i) = AumOf(listing[b][i])
       /\ VaultCountOf(listing[b][i]) = Cardinality(open[b][i])
  /\ TotalAumIsSum

\* "Otherwise vaults would be stranded against a dead listing" (listing.rs,
\* delist): once a listing is gone no trader has capital in it, open vault or
\* closed, and none gets any in later.  An open vault that is empty may remain.
NobodyStranded ==
  \A b \in Builders, i \in Indices :
    HasListing(b, i) /\ listing[b][i].status = "Delisted" =>
      \A t \in Traders : principal[b][i][t] = 0

\* A builder that wants to leave gets its whole bond out of escrow, but for what
\* is slashed, once no trader is in: whatever is done to its listings, to the tier
\* table and to the unbonding period on the way (request_unbond, withdraw_bond).
BondComesHome ==
  \A b \in Builders : leaving[b] ~> (BondIsHome(b) \/ TradersIn(b))
=============================================================================
