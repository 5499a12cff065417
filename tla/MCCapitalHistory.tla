-------------------------- MODULE MCCapitalHistory --------------------------
(* The instances of MCCapital, for CapitalHistory.                          *)
EXTENDS MCCapital, CapitalHistory
=============================================================================
