---------------------------- MODULE MCGovernance ----------------------------
(* A small instance of Governance for TLC. *)
EXTENDS Governance, FiniteSets, TLC

Table(b1, b2, b3, c1, c2, c3) == [bonds |-> <<b1, b2, b3>>, ceilings |-> <<c1, c2, c3>>]

\* Two tables in order, one whose bonds are not.
MCTierTables == {Table(1, 2, 4, 1, 2, 3), Table(2, 3, 4, 1, 2, 3), Table(2, 2, 4, 1, 2, 3)}

MCUnbondPeriods == {0, 1, 2}
MCDelays == {0, 1, 2, 3}

\* Changes interact in pairs, through the config account they share: two open
\* slots, of the three, show every interaction.
AtMostTwoOpen == Cardinality({k \in Kinds : pending[k] # NoAccount}) <= 2

\* No key is named anywhere in Governance: the holders are interchangeable.
KeySymmetry == Permutations(Keys)
=============================================================================
