-------------------------- MODULE MCGuardianWatch --------------------------
(* A small instance of GuardianWatch: a guardian who needs one tick to      *)
(* notice a change, and a shortest delay of two.                            *)
EXTENDS GuardianWatch, TLC

Table(b1, b2, b3, c1, c2, c3) == [bonds |-> <<b1, b2, b3>>, ceilings |-> <<c1, c2, c3>>]

MCTierTables == {Table(1, 2, 4, 1, 2, 3), Table(2, 3, 4, 1, 2, 3)}

MCUnbondPeriods == {1}
MCDelays == {1, 2, 3}

\* No key is named anywhere in GuardianWatch: the holders are interchangeable.
KeySymmetry == Permutations(Keys)
=============================================================================
