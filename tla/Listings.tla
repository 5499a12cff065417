------------------------------ MODULE Listings ------------------------------
(***************************************************************************)
(* The lifecycle of an agent listing: instructions/listing.rs, and         *)
(* guardian_pause_listing of instructions/governance.rs.                   *)
(***************************************************************************)
EXTENDS Accounts

HasListing(b, i) == listing[b][i] # NoAccount

\* Mutant: the counter stays where it was.
Counted_Not(b, index) == [builder[b] EXCEPT !.agentCount = index]

Counted(b, index) == [builder[b] EXCEPT !.agentCount = index + 1]

SubmitListing(b, agentAuthority) ==
  LET index == builder[b].agentCount
  IN  /\ config # NoAccount
      /\ Exists(b)
      /\ builder[b].tier >= 1
      /\ ~IsUnbonding(b)
      /\ index < U16Max
      /\ ~HasListing(b, index)
      /\ listing' = [listing EXCEPT ![b][index] =
           [agentAuthority |-> agentAuthority, status |-> "Vetting",
            fees |-> ZeroFees, aum |-> 0, vaultCount |-> 0]]
      /\ builder' = [builder EXCEPT ![b] = Counted(b, index)]
      /\ UNCHANGED <<now, config, governance, token>>

Approved(b, i, fees) == [listing[b][i] EXCEPT !.fees = fees, !.status = "Live"]

\* An approval that names no fees applies the launch defaults.
ApproveListing(signer, b, i, fees) ==
  /\ SignedByAuthority(signer)
  /\ HasListing(b, i)
  /\ listing[b][i].status = "Vetting"
  /\ Validate(fees)
  /\ listing' = [listing EXCEPT ![b][i] = Approved(b, i, fees)]
  /\ UNCHANGED <<now, config, governance, builder, token>>

BuilderOrAuthority(signer, b) ==
  config # NoAccount /\ (signer = b \/ signer = config.authority)

MoveTo(b, i, status) ==
  /\ listing' = [listing EXCEPT ![b][i].status = status]
  /\ UNCHANGED <<now, config, governance, builder, token>>

PauseListing(signer, b, i) ==
  /\ BuilderOrAuthority(signer, b)
  /\ HasListing(b, i)
  /\ listing[b][i].status = "Live"
  /\ MoveTo(b, i, "Paused")

GuardianPauseListing(signer, b, i) ==
  /\ governance # NoAccount
  /\ governance.guardian = signer
  /\ HasListing(b, i)
  /\ listing[b][i].status = "Live"
  /\ MoveTo(b, i, "Paused")

\* Mutant: whatever is not live yet can be resumed.
Resumable_FromVetting(b, i) == listing[b][i].status \in {"Vetting", "Paused"}

Resumable(b, i) == listing[b][i].status = "Paused"

ResumeListing(signer, b, i) ==
  /\ BuilderOrAuthority(signer, b)
  /\ HasListing(b, i)
  /\ Resumable(b, i)
  /\ MoveTo(b, i, "Live")

\* Mutant: nobody asks whether capital is deployed.
Drained_Unasked(b, i) == TRUE

\* Terminal, and refused while capital is deployed.
Drained(b, i) == listing[b][i].aum = 0

Delist(signer, b, i) ==
  /\ BuilderOrAuthority(signer, b)
  /\ HasListing(b, i)
  /\ listing[b][i].status # "Delisted"
  /\ Drained(b, i)
  /\ MoveTo(b, i, "Delisted")

RotateAgentAuthority(b, i, agentAuthority) ==
  /\ Exists(b)
  /\ HasListing(b, i)
  /\ listing[b][i].status # "Delisted"
  /\ listing' = [listing EXCEPT ![b][i].agentAuthority = agentAuthority]
  /\ UNCHANGED <<now, config, governance, builder, token>>
=============================================================================
