---------------------------- MODULE GuardianWatch ----------------------------
(***************************************************************************)
(* Governance with a guardian who stays awake: while the guardian that was *)
(* installed first is in office, no change it could veto survives longer   *)
(* than Vigilance.  governance.rs (veto_change) claims that this is all a  *)
(* guardian has to do: "the full delay restarts every time, so the         *)
(* guardian only has to stay awake, never win a race".                     *)
(***************************************************************************)
EXTENDS Governance

CONSTANT Vigilance   \* how long the guardian may take to notice a change

ASSUME VigilanceAssumption ==
  Vigilance \in Nat /\ Vigilance < MinTimelockDelay

VARIABLE rotated     \* set_guardian has replaced the guardian at least once

watchVars == <<vars, rotated>>

WatchInit == Init /\ rotated = FALSE

\* Nothing the guardian could have vetoed is older than Vigilance.
Watched ==
  \A k \in Kinds : Resolvable(k) => now < pending[k].queuedAt + Vigilance

WatchNext ==
  /\ \/ Tick /\ (rotated \/ Watched)
     \/ Instruction
  /\ rotated' = (rotated \/ (governance # NoAccount
                              /\ governance'.guardian # governance.guardian))

WatchSpec == WatchInit /\ [][WatchNext]_watchVars

\* However the holder of the authority queues, re-queues after a veto, raises
\* the delay or mixes the slots, no lever of the registry moves under a guardian
\* who stays awake and has not been replaced (queue, execute_change,
\* veto_change).
LeversHeld ==
  [][ (config # NoAccount /\ ~rotated') =>
        /\ config'.authority = config.authority
        /\ config'.vaultAuthority = config.vaultAuthority
        /\ config'.tiers = config.tiers ]_watchVars
=============================================================================
