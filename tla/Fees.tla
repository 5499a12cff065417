-------------------------------- MODULE Fees --------------------------------
(***************************************************************************)
(* Fee and risk configuration of a listing (state.rs, FeeConfig) and the   *)
(* guardrails nobody may exceed (constants.rs), in basis points.           *)
(***************************************************************************)
EXTENDS Integers

MaxListingFeeBps == 500
MaxPerformanceFeeBps == 2000
MinBuilderSplitBps == 5000
MaxBps == 10000

FeeConfig ==
  [listingFee : Nat, performanceFee : Nat, builderSplit : Nat,
   positionCap : Nat, maxDrawdown : Nat, autoPause : BOOLEAN]

LaunchDefaults ==
  [listingFee |-> 0, performanceFee |-> 1000, builderSplit |-> 8000,
   positionCap |-> 1200, maxDrawdown |-> 1500, autoPause |-> TRUE]

\* What a listing carries until it is approved.
ZeroFees ==
  [listingFee |-> 0, performanceFee |-> 0, builderSplit |-> 0,
   positionCap |-> 0, maxDrawdown |-> 0, autoPause |-> TRUE]

Validate(fees) ==
  /\ fees.listingFee <= MaxListingFeeBps
  /\ fees.performanceFee <= MaxPerformanceFeeBps
  /\ fees.builderSplit \in MinBuilderSplitBps..MaxBps
  /\ fees.positionCap <= MaxBps
  /\ fees.maxDrawdown <= MaxBps
=============================================================================
