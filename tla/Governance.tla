----------------------------- MODULE Governance -----------------------------
(***************************************************************************)
(* The privileged half of agent-registry: the Config and Governance        *)
(* accounts, the three pending-change slots, and the instructions that     *)
(* move them (instructions/config.rs, instructions/governance.rs).         *)
(*                                                                         *)
(* A Solana instruction is one atomic transaction that either commits all  *)
(* its writes or none, so each is one action.  Any instruction may be sent *)
(* at any time by the holder of any key.  The rent payer of a slot, the    *)
(* log lines and the bumps are left out: no guard a caller could not meet  *)
(* at will depends on them.                                                *)
(***************************************************************************)
EXTENDS Integers, Tiers

CONSTANTS
  Keys,               \* keys somebody can sign with
  NoKey,              \* Pubkey::default()
  NoAccount,          \* a PDA that has not been created, or was closed
  TierTables,         \* tier tables that callers may propose, good or bad
  UnbondPeriods,      \* unbonding periods that callers may pass
  Delays,             \* timelock delays that callers may pass
  MaxUnbondPeriod,    \* MAX_UNBOND_PERIOD
  MinTimelockDelay,   \* MIN_TIMELOCK_DELAY
  MaxTimelockDelay,   \* MAX_TIMELOCK_DELAY
  MaxTime             \* bound on the clock, for TLC

VARIABLES
  now,          \* unix_timestamp of the Clock sysvar
  config,       \* the Config PDA
  governance,   \* the Governance PDA
  pending       \* the PendingChange PDA of each slot

vars == <<now, config, governance, pending>>

AnyKey == Keys \cup {NoKey}

Kinds == {"TransferAuthority", "SetVaultAuthority", "UpdateTiers"}

ConfigAccount ==
  [authority : AnyKey, vaultAuthority : AnyKey, tiers : TierTable, unbondPeriod : Int]

GovernanceAccount == [guardian : Keys, timelockDelay : Int]

PendingChange ==
  [kind : Kinds, newKey : AnyKey, tiers : TierTable, eta : Int, queuedAt : Int]

ASSUME KeysAssumption == NoKey \notin Keys

ASSUME NoAccountAssumption ==
  /\ NoAccount \notin ConfigAccount
  /\ NoAccount \notin GovernanceAccount
  /\ NoAccount \notin PendingChange
  /\ NoAccount \notin [Kinds -> AnyKey \cup TierTable]
  /\ NoAccount \notin [lever : Kinds, value : AnyKey \cup TierTable, since : Int, wait : Int]
  /\ NoAccount \notin Int

ASSUME InputsAssumption ==
  /\ TierTables \subseteq TierTable
  /\ UnbondPeriods \subseteq Int
  /\ Delays \subseteq Int

ASSUME BoundsAssumption ==
  /\ MaxUnbondPeriod \in Int
  /\ MinTimelockDelay \in Int /\ MinTimelockDelay > 0
  /\ MaxTimelockDelay \in Int
  /\ MaxTime \in Nat

GovernanceTypeOK ==
  /\ now \in Nat
  /\ config \in ConfigAccount \cup {NoAccount}
  /\ governance \in GovernanceAccount \cup {NoAccount}
  /\ pending \in [Kinds -> PendingChange \cup {NoAccount}]

Init ==
  /\ now = 1
  /\ config = NoAccount
  /\ governance = NoAccount
  /\ pending = [k \in Kinds |-> NoAccount]

-----------------------------------------------------------------------------
\* Configuration

ValidTiers(table, period) == WellShaped(table) /\ period > 0

InitializeConfig(authority, table, period) ==
  /\ config = NoAccount
  /\ ValidTiers(table, period)
  /\ config' = [authority      |-> authority,
                vaultAuthority |-> NoKey,
                tiers          |-> table,
                unbondPeriod   |-> period]
  /\ UNCHANGED <<now, governance, pending>>

SignedByAuthority(signer) == config # NoAccount /\ config.authority = signer

\* Mutant: the lower bound is forgotten.
SettableUnbondPeriod_NoFloor(period) == period <= MaxUnbondPeriod

\* Mutant: the upper bound is forgotten, as in initialize_config.
SettableUnbondPeriod_NoCeiling(period) == period > 0

SettableUnbondPeriod(period) == period > 0 /\ period <= MaxUnbondPeriod

SetUnbondPeriod(signer, period) ==
  /\ SignedByAuthority(signer)
  /\ SettableUnbondPeriod(period)
  /\ config' = [config EXCEPT !.unbondPeriod = period]
  /\ UNCHANGED <<now, governance, pending>>

-----------------------------------------------------------------------------
\* The guardian and the delay

\* Mutant: the default key is not refused.
IndependentKey_DefaultAllowed(guardian) == guardian # config.authority

IndependentKey(guardian) == guardian # NoKey /\ guardian # config.authority

InitializeGovernance(signer, guardian, delay) ==
  /\ SignedByAuthority(signer)
  /\ governance = NoAccount
  /\ IndependentKey(guardian)
  /\ delay \in MinTimelockDelay..MaxTimelockDelay
  /\ governance' = [guardian |-> guardian, timelockDelay |-> delay]
  /\ UNCHANGED <<now, config, pending>>

SetGuardian(signer, guardian) ==
  /\ SignedByAuthority(signer)
  /\ governance # NoAccount
  /\ IndependentKey(guardian)
  /\ governance' = [governance EXCEPT !.guardian = guardian]
  /\ UNCHANGED <<now, config, pending>>

\* Mutant: any delay within the maximum is accepted, a shorter one too.
RaisesDelay_AnyChange(delay) ==
  delay \in MinTimelockDelay..MaxTimelockDelay /\ delay # governance.timelockDelay

\* Increase-only.
RaisesDelay(delay) == delay <= MaxTimelockDelay /\ delay > governance.timelockDelay

SetTimelockDelay(signer, delay) ==
  /\ SignedByAuthority(signer)
  /\ governance # NoAccount
  /\ RaisesDelay(delay)
  /\ governance' = [governance EXCEPT !.timelockDelay = delay]
  /\ UNCHANGED <<now, config, pending>>

-----------------------------------------------------------------------------
\* Queueing.  `slot` is the `kind` argument of the instruction, which seeds
\* the PDA; the kind that is stored is the one the instruction hard-codes.

SlotFree(slot) == pending[slot] = NoAccount

Announced(kind, newKey, tiers) ==
  [kind     |-> kind,
   newKey   |-> newKey,
   tiers    |-> tiers,
   eta      |-> now + governance.timelockDelay,
   queuedAt |-> now]

Queue(signer, slot, kind, newKey, tiers) ==
  /\ SignedByAuthority(signer)
  /\ governance # NoAccount
  /\ SlotFree(slot)
  /\ pending' = [pending EXCEPT ![slot] = Announced(kind, newKey, tiers)]
  /\ UNCHANGED <<now, config, governance>>

QueueTransferAuthority(signer, slot, newAuthority) ==
  /\ newAuthority # NoKey
  /\ Queue(signer, slot, "TransferAuthority", newAuthority, ZeroTable)

QueueSetVaultAuthority(signer, slot, vaultAuthority) ==
  Queue(signer, slot, "SetVaultAuthority", vaultAuthority, ZeroTable)

\* Mutant: only the ceilings are looked at when a table is queued.
ValidTierShape_BondsIgnored(table) == Increasing(table.ceilings)

ValidTierShape(table) == WellShaped(table)

QueueUpdateTiers(signer, slot, table) ==
  /\ ValidTierShape(table)
  /\ Queue(signer, slot, "UpdateTiers", NoKey, table)

-----------------------------------------------------------------------------
\* Executing and vetoing

Resolvable(slot) ==
  /\ governance # NoAccount
  /\ pending[slot] # NoAccount
  /\ pending[slot].kind = slot

\* Mutant: the floor is waited out, not the delay in force.
Due_FloorOnly(change) == now >= change.queuedAt + MinTimelockDelay

\* Mutant: the comparison is turned round.
Due_Reversed(change) == change.eta >= now

Due(change) == now >= change.eta

Applied(change) ==
  CASE change.kind = "TransferAuthority" -> [config EXCEPT !.authority = change.newKey]
    [] change.kind = "SetVaultAuthority" -> [config EXCEPT !.vaultAuthority = change.newKey]
    [] change.kind = "UpdateTiers"       -> [config EXCEPT !.tiers = change.tiers]

\* A tier update is validated again against the period of the moment.
Revalidates(change) ==
  change.kind = "UpdateTiers" => ValidTiers(change.tiers, config.unbondPeriod)

ExecuteChange(signer, slot) ==
  /\ Resolvable(slot)
  /\ SignedByAuthority(signer)
  /\ Due(pending[slot])
  /\ Revalidates(pending[slot])
  /\ config' = Applied(pending[slot])
  /\ pending' = [pending EXCEPT ![slot] = NoAccount]
  /\ UNCHANGED <<now, governance>>

GuardianOrAuthority(signer) ==
  signer = governance.guardian \/ signer = config.authority

VetoChange(signer, slot) ==
  /\ Resolvable(slot)
  /\ GuardianOrAuthority(signer)
  /\ pending' = [pending EXCEPT ![slot] = NoAccount]
  /\ UNCHANGED <<now, config, governance>>

-----------------------------------------------------------------------------
\* The clock.  Timestamps do not decrease from one slot to the next.
Tick ==
  /\ now < MaxTime
  /\ now' = now + 1
  /\ UNCHANGED <<config, governance, pending>>

Instruction ==
  \/ \E authority \in AnyKey, table \in TierTables, period \in UnbondPeriods :
       InitializeConfig(authority, table, period)
  \/ \E signer \in Keys :
       \/ \E period \in UnbondPeriods : SetUnbondPeriod(signer, period)
       \/ \E guardian \in AnyKey, delay \in Delays :
            InitializeGovernance(signer, guardian, delay)
       \/ \E guardian \in AnyKey : SetGuardian(signer, guardian)
       \/ \E delay \in Delays : SetTimelockDelay(signer, delay)
       \/ \E slot \in Kinds :
            \/ \E key \in AnyKey :
                 \/ QueueTransferAuthority(signer, slot, key)
                 \/ QueueSetVaultAuthority(signer, slot, key)
            \/ \E table \in TierTables : QueueUpdateTiers(signer, slot, table)
            \/ ExecuteChange(signer, slot)
            \/ VetoChange(signer, slot)

Next == Tick \/ Instruction

Spec == Init /\ [][Next]_vars

-----------------------------------------------------------------------------
\* Properties

\* A pending change was announced no later than now, waits at least the floor
\* on delays, and never longer than the delay now in force: the delay only
\* rises, so a notice can be shorter than today's delay but not longer
\* (queue, set_timelock_delay).
PendingHonoursDelay ==
  \A k \in Kinds : pending[k] # NoAccount =>
    /\ governance # NoAccount
    /\ pending[k].queuedAt <= now
    /\ pending[k].eta - pending[k].queuedAt
         \in MinTimelockDelay..governance.timelockDelay

\* Re-validation at execution never turns a queued change away, whatever the
\* authority did to the unbonding period while it waited: a change that was
\* accepted into the queue stays executable (execute_change, validate_tiers).
ExecutionNeverFailsValidation ==
  \A k \in Kinds : pending[k] # NoAccount => Revalidates(pending[k])

\* The registry always has a tier table in order and a positive unbonding
\* period, over every set_unbond_period and tier update (validate_tiers).
ConfigStaysValid ==
  config # NoAccount => ValidTiers(config.tiers, config.unbondPeriod)

\* "Can veto any pending change": whatever hangs in a slot, the guardian can
\* take it down (state.rs, Governance.guardian).
GuardianCanVetoAnyPending ==
  \A k \in Kinds : pending[k] # NoAccount =>
    Resolvable(k) /\ GuardianOrAuthority(governance.guardian)

\* "A guardian that is the authority is not a guardian": the two keys are never
\* the same key (initialize_governance, set_guardian).
GuardianIsNotAuthority ==
  governance # NoAccount => governance.guardian # config.authority

\* The registry as its timelock sees it.
SettingBar ==
  IF config = NoAccount THEN NoAccount
  ELSE [k \in Kinds |->
         CASE k = "TransferAuthority" -> config.authority
           [] k = "SetVaultAuthority" -> config.vaultAuthority
           [] k = "UpdateTiers"       -> config.tiers]

NoticeOf(change) ==
  [lever |-> change.kind,
   value |-> IF change.kind = "UpdateTiers" THEN change.tiers ELSE change.newKey,
   since |-> change.queuedAt,
   wait  |-> change.eta - change.queuedAt]

NoticeBar ==
  [k \in Kinds |-> IF pending[k] = NoAccount THEN NoAccount ELSE NoticeOf(pending[k])]

DelayBar == IF governance = NoAccount THEN NoAccount ELSE governance.timelockDelay

Timelock == INSTANCE Timelock WITH
  Levers   <- Kinds,
  Values   <- AnyKey \cup TierTables,
  Tickets  <- Kinds,
  None     <- NoAccount,
  MinDelay <- MinTimelockDelay,
  MaxDelay <- MaxTimelockDelay,
  setting  <- SettingBar,
  notice   <- NoticeBar,
  delay    <- DelayBar

\* Every lever of the registry (authority, vault authority, tier table) moves
\* only to a value that hung in a slot, untouched, for the whole delay in force
\* when it was queued, and the delay never shrinks.
TimelockSpec == Timelock!Spec
=============================================================================
