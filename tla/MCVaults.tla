------------------------------ MODULE MCVaults ------------------------------
(* The instances of MCCapital, for Vaults.                                  *)
EXTENDS MCCapital, Vaults
=============================================================================
