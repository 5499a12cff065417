------------------------------- MODULE Tiers -------------------------------
(***************************************************************************)
(* The tier table of agent-registry: what a bond of a given size entitles  *)
(* a builder to (state.rs, impl Config).  Pure operators, no state.        *)
(***************************************************************************)
EXTENDS Integers

TierCount == 3

TierVector == [1..TierCount -> Nat]

TierTable == [bonds : TierVector, ceilings : TierVector]

\* The payload of a pending change that carries no table.
ZeroTable == [bonds |-> <<0, 0, 0>>, ceilings |-> <<0, 0, 0>>]

Increasing(v) == \A i \in 1..(TierCount - 1) : v[i] < v[i + 1]

WellShaped(table) == Increasing(table.bonds) /\ Increasing(table.ceilings)

\* The highest tier whose threshold the bond reaches, 0 below tier 1.
TierForBond(table, bond) ==
  CHOOSE t \in 0..TierCount :
    /\ t > 0 => bond >= table.bonds[t]
    /\ \A i \in (t + 1)..TierCount : bond < table.bonds[i]

\* Tier 0 may hold no capital.
CeilingForTier(table, tier) ==
  IF tier \in 1..TierCount THEN table.ceilings[tier] ELSE 0
=============================================================================
