--------------------------- MODULE CapitalHistory ---------------------------
(***************************************************************************)
(* Capital with a memory: when each builder last took anything on, or last *)
(* took anything out.  README.md: "Unbonding blocks inflow, not outflow"   *)
(* and "A withdrawal consumes the unbond request".                         *)
(***************************************************************************)
EXTENDS Capital

VARIABLE lastMoved   \* per builder, the time of the last inflow or withdrawal

historyVars == <<vars, lastMoved>>

HistoryInit == Init /\ lastMoved = [b \in Builders |-> 0]

\* A stake, a new listing, or trader capital coming in.
Inflow(b) ==
  /\ Exists(b)
  /\ \/ builder'[b].bond > builder[b].bond
     \/ builder'[b].agentCount > builder[b].agentCount
     \/ builder'[b].totalAum > builder[b].totalAum

HistoryNext ==
  /\ Next
  /\ lastMoved' = [b \in Builders |->
       IF Inflow(b) \/ WithdrawStep(b) THEN now ELSE lastMoved[b]]

HistorySpec == HistoryInit /\ [][HistoryNext]_historyVars

\* A bond leaves escrow by the builder's hand only when a whole unbonding period
\* has gone by in which the builder staked nothing, listed nothing, took no
\* trader capital and withdrew nothing (request_unbond, cancel_unbond,
\* withdraw_bond against stake_bond, submit_listing, record_deposit).
NoticeServed ==
  [][ \A b \in Builders :
        WithdrawStep(b) => now - lastMoved[b] >= config.unbondPeriod ]_historyVars
=============================================================================
