-------------------------- MODULE GovernanceProofs --------------------------
(***************************************************************************)
(* Theorems about Governance, for every value of its constants.            *)
(***************************************************************************)
EXTENDS Governance, TLAPS

-----------------------------------------------------------------------------
\* The strengthening that makes the properties inductive: a Governance account
\* is created after the Config account and keeps its delay inside the bounds,
\* and a queued tier table passed the shape check when it was queued.
GovernanceInBounds ==
  governance # NoAccount =>
    /\ config # NoAccount
    /\ governance.timelockDelay \in MinTimelockDelay..MaxTimelockDelay

QueuedTablesWellShaped ==
  \A k \in Kinds :
    (pending[k] # NoAccount /\ pending[k].kind = "UpdateTiers") =>
      pending[k].tiers \in TierTables /\ WellShaped(pending[k].tiers)

IInv ==
  /\ GovernanceTypeOK
  /\ GovernanceInBounds
  /\ PendingHonoursDelay
  /\ QueuedTablesWellShaped
  /\ ConfigStaysValid

-----------------------------------------------------------------------------
\* Operators

\* What a queue instruction stores is a PendingChange.
LEMMA AnnouncedType ==
  ASSUME GovernanceTypeOK, governance # NoAccount,
         NEW kind \in Kinds, NEW key \in AnyKey, NEW tiers \in TierTable
  PROVE  Announced(kind, key, tiers) \in PendingChange
  BY DEF GovernanceTypeOK, Announced, PendingChange, GovernanceAccount

\* The empty payload is a tier table, as far as types go.
LEMMA ZeroTableType == ZeroTable \in TierTable
  BY DEF ZeroTable, TierTable, TierVector, TierCount

\* Applying a pending change to the Config account yields a Config account.
LEMMA AppliedType ==
  ASSUME GovernanceTypeOK, config # NoAccount, NEW change \in PendingChange
  PROVE  Applied(change) \in ConfigAccount
  <1>1. config \in ConfigAccount
    BY DEF GovernanceTypeOK
  <1>2. CASE change.kind = "TransferAuthority"
    BY <1>1, <1>2 DEF Applied, PendingChange, ConfigAccount
  <1>3. CASE change.kind = "SetVaultAuthority"
    BY <1>1, <1>3 DEF Applied, PendingChange, ConfigAccount
  <1>4. CASE change.kind = "UpdateTiers"
    BY <1>1, <1>4 DEF Applied, PendingChange, ConfigAccount
  <1> QED
    BY <1>2, <1>3, <1>4 DEF PendingChange, Kinds

-----------------------------------------------------------------------------
\* Every step, and stuttering, keeps the accounts' types.
LEMMA TypeStep == GovernanceTypeOK /\ [Next]_vars => GovernanceTypeOK'
  <1> SUFFICES ASSUME GovernanceTypeOK, [Next]_vars PROVE GovernanceTypeOK'
    OBVIOUS
  <1> USE DEF GovernanceTypeOK
  <1>1. CASE Tick
    BY <1>1 DEF Tick
  <1>2. ASSUME NEW authority \in AnyKey, NEW table \in TierTables,
               NEW period \in UnbondPeriods, InitializeConfig(authority, table, period)
        PROVE  GovernanceTypeOK'
    BY <1>2, InputsAssumption DEF InitializeConfig, ConfigAccount, AnyKey
  <1>3. ASSUME NEW signer \in Keys, NEW period \in UnbondPeriods,
               SetUnbondPeriod(signer, period)
        PROVE  GovernanceTypeOK'
    BY <1>3, InputsAssumption DEF SetUnbondPeriod, SignedByAuthority, ConfigAccount
  <1>4. ASSUME NEW signer \in Keys, NEW guardian \in AnyKey, NEW delay \in Delays,
               InitializeGovernance(signer, guardian, delay)
        PROVE  GovernanceTypeOK'
    BY <1>4, InputsAssumption
       DEF InitializeGovernance, IndependentKey, AnyKey, GovernanceAccount
  <1>5. ASSUME NEW signer \in Keys, NEW guardian \in AnyKey,
               SetGuardian(signer, guardian)
        PROVE  GovernanceTypeOK'
    BY <1>5 DEF SetGuardian, IndependentKey, AnyKey, GovernanceAccount
  <1>6. ASSUME NEW signer \in Keys, NEW delay \in Delays,
               SetTimelockDelay(signer, delay)
        PROVE  GovernanceTypeOK'
    BY <1>6, InputsAssumption DEF SetTimelockDelay, GovernanceAccount
  <1>7. ASSUME NEW signer \in Keys, NEW slot \in Kinds, NEW kind \in Kinds,
               NEW key \in AnyKey, NEW tiers \in TierTable,
               Queue(signer, slot, kind, key, tiers)
        PROVE  GovernanceTypeOK'
    BY <1>7, AnnouncedType DEF Queue
  <1>8. ASSUME NEW signer \in Keys, NEW slot \in Kinds, ExecuteChange(signer, slot)
        PROVE  GovernanceTypeOK'
    <2>1. Applied(pending[slot]) \in ConfigAccount
      BY <1>8, AppliedType DEF ExecuteChange, Resolvable, SignedByAuthority
    <2> QED
      BY <1>8, <2>1 DEF ExecuteChange
  <1>9. ASSUME NEW signer \in Keys, NEW slot \in Kinds, VetoChange(signer, slot)
        PROVE  GovernanceTypeOK'
    BY <1>9 DEF VetoChange
  <1>10. CASE UNCHANGED vars
    BY <1>10 DEF vars
  <1> QED
    BY <1>1, <1>2, <1>3, <1>4, <1>5, <1>6, <1>7, <1>8, <1>9, <1>10,
       InputsAssumption, ZeroTableType
       DEF Next, Instruction, QueueTransferAuthority, QueueSetVaultAuthority,
           QueueUpdateTiers, Kinds, AnyKey

\* Type correctness: every reachable state of Governance has the types of the
\* accounts in state.rs, and a guardian somebody can sign as.
THEOREM TypeCorrect == Spec => []GovernanceTypeOK
  <1>1. Init => GovernanceTypeOK
    BY DEF Init, GovernanceTypeOK
  <1> QED
    BY <1>1, TypeStep, PTL DEF Spec

-----------------------------------------------------------------------------
\* A queued change, whoever queued it and in whichever slot, keeps IInv.
LEMMA QueueKeepsIInv ==
  ASSUME IInv, GovernanceTypeOK',
         NEW signer \in Keys, NEW slot \in Kinds, NEW kind \in Kinds,
         NEW key \in AnyKey, NEW tiers \in TierTable,
         kind = "UpdateTiers" => tiers \in TierTables /\ WellShaped(tiers),
         Queue(signer, slot, kind, key, tiers)
  PROVE  IInv'
  <1> DEFINE new == Announced(kind, key, tiers)
  <1>1. /\ governance # NoAccount
        /\ UNCHANGED <<now, config, governance>>
        /\ pending' = [pending EXCEPT ![slot] = new]
    BY DEF Queue
  <1>2. /\ new.kind = kind
        /\ new.tiers = tiers
        /\ new.queuedAt = now
        /\ new.eta = now + governance.timelockDelay
    BY DEF Announced
  <1>3. now \in Nat /\ governance.timelockDelay \in Int
    BY <1>1 DEF IInv, GovernanceTypeOK, GovernanceAccount
  <1>4. governance.timelockDelay \in MinTimelockDelay..MaxTimelockDelay
    BY <1>1 DEF IInv, GovernanceInBounds
  <1>5. pending'[slot] = new /\ \A k \in Kinds \ {slot} : pending'[k] = pending[k]
    BY <1>1 DEF IInv, GovernanceTypeOK
  <1>6. GovernanceInBounds' /\ ConfigStaysValid'
    BY <1>1 DEF IInv, GovernanceInBounds, ConfigStaysValid
  <1>7. QueuedTablesWellShaped'
    BY <1>2, <1>5 DEF IInv, QueuedTablesWellShaped
  <1>8. PendingHonoursDelay'
    <2> SUFFICES ASSUME NEW k \in Kinds, pending'[k] # NoAccount
                 PROVE  /\ pending'[k].queuedAt <= now
                        /\ pending'[k].eta - pending'[k].queuedAt
                             \in MinTimelockDelay..governance.timelockDelay
      BY <1>1 DEF PendingHonoursDelay
    <2>1. CASE k = slot
      BY <2>1, <1>2, <1>3, <1>4, <1>5, BoundsAssumption
    <2>2. CASE k # slot
      BY <2>2, <1>5 DEF IInv, PendingHonoursDelay
    <2> QED
      BY <2>1, <2>2
  <1> QED
    BY <1>6, <1>7, <1>8 DEF IInv

\* Closing a slot, by a veto or an execution, keeps what IInv says of the slots.
LEMMA CloseKeepsSlots ==
  ASSUME IInv, NEW slot \in Kinds,
         pending' = [pending EXCEPT ![slot] = NoAccount],
         UNCHANGED <<now, governance>>
  PROVE  PendingHonoursDelay' /\ QueuedTablesWellShaped'
  <1>1. pending'[slot] = NoAccount /\ \A k \in Kinds \ {slot} : pending'[k] = pending[k]
    BY DEF IInv, GovernanceTypeOK
  <1> QED
    BY <1>1 DEF IInv, PendingHonoursDelay, QueuedTablesWellShaped

\* IInv is inductive.
LEMMA IInvStep == IInv /\ [Next]_vars => IInv'
  <1> SUFFICES ASSUME IInv, [Next]_vars PROVE IInv'
    OBVIOUS
  <1>0. GovernanceTypeOK /\ GovernanceTypeOK'
    BY TypeStep DEF IInv
  <1>1. CASE Tick
    <2>1. now' = now + 1 /\ now \in Nat /\ UNCHANGED <<config, governance, pending>>
      BY <1>0, <1>1 DEF Tick, GovernanceTypeOK
    <2>2. PendingHonoursDelay'
      <3> SUFFICES ASSUME NEW k \in Kinds, pending[k] # NoAccount
                   PROVE  pending[k].queuedAt <= now'
        BY <2>1 DEF IInv, PendingHonoursDelay
      <3>1. pending[k].queuedAt \in Int
        BY <1>0 DEF GovernanceTypeOK, PendingChange
      <3>2. pending[k].queuedAt <= now
        BY DEF IInv, PendingHonoursDelay
      <3> QED
        BY <2>1, <3>1, <3>2
    <2> QED
      BY <1>0, <2>1, <2>2
         DEF IInv, GovernanceInBounds, QueuedTablesWellShaped, ConfigStaysValid
  <1>2. ASSUME NEW authority \in AnyKey, NEW table \in TierTables,
               NEW period \in UnbondPeriods, InitializeConfig(authority, table, period)
        PROVE  IInv'
    <2>1. config'.tiers = table /\ config'.unbondPeriod = period
      BY <1>2 DEF InitializeConfig
    <2>2. governance = NoAccount /\ UNCHANGED <<now, governance, pending>>
      BY <1>2 DEF InitializeConfig, IInv, GovernanceInBounds
    <2> QED
      BY <1>0, <1>2, <2>1, <2>2
         DEF InitializeConfig, IInv, GovernanceInBounds, PendingHonoursDelay,
             QueuedTablesWellShaped, ConfigStaysValid
  <1>3. ASSUME NEW signer \in Keys, NEW period \in UnbondPeriods,
               SetUnbondPeriod(signer, period)
        PROVE  IInv'
    <2>1. config # NoAccount /\ UNCHANGED <<now, governance, pending>>
      BY <1>3 DEF SetUnbondPeriod, SignedByAuthority
    <2>2. config' \in ConfigAccount
          /\ config'.tiers = config.tiers /\ config'.unbondPeriod = period
      BY <1>0, <1>3, <2>1, InputsAssumption DEF SetUnbondPeriod, GovernanceTypeOK, ConfigAccount
    <2>3. config' # NoAccount
      BY <2>2, NoAccountAssumption
    <2> QED
      BY <1>0, <1>3, <2>1, <2>2, <2>3
         DEF SetUnbondPeriod, SettableUnbondPeriod, ValidTiers, IInv,
             GovernanceInBounds, PendingHonoursDelay, QueuedTablesWellShaped,
             ConfigStaysValid
  <1>4. ASSUME NEW signer \in Keys, NEW guardian \in AnyKey, NEW delay \in Delays,
               InitializeGovernance(signer, guardian, delay)
        PROVE  IInv'
    <2>1. /\ config # NoAccount /\ governance = NoAccount
          /\ governance'.timelockDelay \in MinTimelockDelay..MaxTimelockDelay
          /\ UNCHANGED <<now, config, pending>>
      BY <1>4 DEF InitializeGovernance, SignedByAuthority
    <2>2. \A k \in Kinds : pending[k] = NoAccount
      BY <2>1 DEF IInv, PendingHonoursDelay
    <2> QED
      BY <1>0, <2>1, <2>2
         DEF IInv, GovernanceInBounds, PendingHonoursDelay, QueuedTablesWellShaped,
             ConfigStaysValid
  <1>5. ASSUME NEW signer \in Keys, NEW guardian \in AnyKey, SetGuardian(signer, guardian)
        PROVE  IInv'
    <2>1. /\ governance # NoAccount
          /\ governance' = [governance EXCEPT !.guardian = guardian]
          /\ UNCHANGED <<now, config, pending>>
      BY <1>5 DEF SetGuardian
    <2>2. governance'.timelockDelay = governance.timelockDelay
      BY <1>0, <2>1 DEF GovernanceTypeOK, GovernanceAccount
    <2>3. governance' # NoAccount
      <3>1. guardian \in Keys
        BY <1>5 DEF SetGuardian, IndependentKey, AnyKey
      <3> QED
        BY <1>0, <2>1, <3>1, NoAccountAssumption DEF GovernanceTypeOK, GovernanceAccount
    <2> QED
      BY <1>0, <2>1, <2>2, <2>3
         DEF IInv, GovernanceInBounds, PendingHonoursDelay, QueuedTablesWellShaped,
             ConfigStaysValid
  <1>6. ASSUME NEW signer \in Keys, NEW delay \in Delays, SetTimelockDelay(signer, delay)
        PROVE  IInv'
    <2>1. /\ governance # NoAccount
          /\ governance' = [governance EXCEPT !.timelockDelay = delay]
          /\ UNCHANGED <<now, config, pending>>
          /\ delay \in Int /\ delay <= MaxTimelockDelay
          /\ delay > governance.timelockDelay
      BY <1>6, InputsAssumption DEF SetTimelockDelay, RaisesDelay
    <2>2. governance'.timelockDelay = delay /\ governance.timelockDelay \in Int
      BY <1>0, <2>1 DEF GovernanceTypeOK, GovernanceAccount
    <2>3. governance' # NoAccount
      BY <1>0, <2>1, NoAccountAssumption DEF GovernanceTypeOK, GovernanceAccount
    <2>4. GovernanceInBounds'
      BY <2>1, <2>2, BoundsAssumption DEF IInv, GovernanceInBounds
    <2>5. PendingHonoursDelay'
      <3> SUFFICES ASSUME NEW k \in Kinds, pending[k] # NoAccount
                   PROVE  pending[k].eta - pending[k].queuedAt \in MinTimelockDelay..delay
        BY <2>1, <2>2, <2>3 DEF IInv, PendingHonoursDelay
      <3>1. pending[k].eta - pending[k].queuedAt
              \in MinTimelockDelay..governance.timelockDelay
        BY DEF IInv, PendingHonoursDelay
      <3> QED
        BY <2>1, <2>2, <3>1, BoundsAssumption
    <2> QED
      BY <1>0, <2>1, <2>4, <2>5 DEF IInv, QueuedTablesWellShaped, ConfigStaysValid
  <1>7. ASSUME NEW signer \in Keys, NEW slot \in Kinds, NEW key \in AnyKey,
               QueueTransferAuthority(signer, slot, key)
        PROVE  IInv'
    BY <1>0, <1>7, QueueKeepsIInv, ZeroTableType DEF QueueTransferAuthority, Kinds
  <1>8. ASSUME NEW signer \in Keys, NEW slot \in Kinds, NEW key \in AnyKey,
               QueueSetVaultAuthority(signer, slot, key)
        PROVE  IInv'
    BY <1>0, <1>8, QueueKeepsIInv, ZeroTableType DEF QueueSetVaultAuthority, Kinds
  <1>9. ASSUME NEW signer \in Keys, NEW slot \in Kinds, NEW table \in TierTables,
               QueueUpdateTiers(signer, slot, table)
        PROVE  IInv'
    BY <1>0, <1>9, QueueKeepsIInv, InputsAssumption
       DEF QueueUpdateTiers, ValidTierShape, Kinds, AnyKey
  <1>10. ASSUME NEW signer \in Keys, NEW slot \in Kinds, ExecuteChange(signer, slot)
         PROVE  IInv'
    <2> DEFINE change == pending[slot]
    <2>1. /\ config # NoAccount /\ change # NoAccount
          /\ Revalidates(change)
          /\ config' = Applied(change)
          /\ pending' = [pending EXCEPT ![slot] = NoAccount]
          /\ UNCHANGED <<now, governance>>
      BY <1>10 DEF ExecuteChange, SignedByAuthority, Resolvable
    <2>2. config \in ConfigAccount /\ change \in PendingChange
      BY <1>0, <2>1 DEF GovernanceTypeOK
    <2>3. config' # NoAccount
      BY <1>0, <2>1, <2>2, AppliedType, NoAccountAssumption
    <2>4. ValidTiers(config'.tiers, config'.unbondPeriod)
      <3>1. ValidTiers(config.tiers, config.unbondPeriod)
        BY <2>1 DEF IInv, ConfigStaysValid
      <3>2. CASE change.kind = "UpdateTiers"
        <4>1. config' = [config EXCEPT !.tiers = change.tiers]
          BY <2>1, <3>2 DEF Applied
        <4>2. config'.tiers = change.tiers /\ config'.unbondPeriod = config.unbondPeriod
          BY <2>2, <4>1 DEF ConfigAccount
        <4> QED
          BY <2>1, <3>2, <4>2 DEF Revalidates
      <3>3. CASE change.kind = "TransferAuthority"
        <4>1. config' = [config EXCEPT !.authority = change.newKey]
          BY <2>1, <3>3 DEF Applied
        <4>2. config'.tiers = config.tiers /\ config'.unbondPeriod = config.unbondPeriod
          BY <2>2, <4>1 DEF ConfigAccount
        <4> QED
          BY <3>1, <4>2
      <3>4. CASE change.kind = "SetVaultAuthority"
        <4>1. config' = [config EXCEPT !.vaultAuthority = change.newKey]
          BY <2>1, <3>4 DEF Applied
        <4>2. config'.tiers = config.tiers /\ config'.unbondPeriod = config.unbondPeriod
          BY <2>2, <4>1 DEF ConfigAccount
        <4> QED
          BY <3>1, <4>2
      <3> QED
        BY <2>2, <3>2, <3>3, <3>4 DEF PendingChange, Kinds
    <2>5. PendingHonoursDelay' /\ QueuedTablesWellShaped'
      BY <2>1, CloseKeepsSlots
    <2> QED
      BY <1>0, <2>1, <2>3, <2>4, <2>5 DEF IInv, GovernanceInBounds, ConfigStaysValid
  <1>11. ASSUME NEW signer \in Keys, NEW slot \in Kinds, VetoChange(signer, slot)
         PROVE  IInv'
    <2>1. /\ pending' = [pending EXCEPT ![slot] = NoAccount]
          /\ UNCHANGED <<now, config, governance>>
      BY <1>11 DEF VetoChange
    <2>2. PendingHonoursDelay' /\ QueuedTablesWellShaped'
      BY <2>1, CloseKeepsSlots
    <2> QED
      BY <1>0, <2>1, <2>2 DEF IInv, GovernanceInBounds, ConfigStaysValid
  <1>12. CASE UNCHANGED vars
    BY <1>0, <1>12
       DEF vars, IInv, GovernanceInBounds, PendingHonoursDelay, QueuedTablesWellShaped,
           ConfigStaysValid
  <1> QED
    BY <1>1, <1>2, <1>3, <1>4, <1>5, <1>6, <1>7, <1>8, <1>9, <1>10, <1>11, <1>12
       DEF Next, Instruction

\* Every reachable state of Governance satisfies the inductive invariant.
THEOREM Invariance == Spec => []IInv
  <1>1. Init => IInv
    BY DEF Init, IInv, GovernanceTypeOK, GovernanceInBounds, PendingHonoursDelay,
           QueuedTablesWellShaped, ConfigStaysValid
  <1> QED
    BY <1>1, IInvStep, PTL DEF Spec

\* A pending change waits at least the floor on delays and at most the delay in
\* force, whatever the authority did to that delay after the change was queued.
THEOREM DelaysHonoured == Spec => []PendingHonoursDelay
  <1>1. IInv => PendingHonoursDelay
    BY DEF IInv
  <1> QED
    BY <1>1, Invariance, PTL

\* The tier table stays in order and the unbonding period positive.
THEOREM ConfigValid == Spec => []ConfigStaysValid
  <1>1. IInv => ConfigStaysValid
    BY DEF IInv
  <1> QED
    BY <1>1, Invariance, PTL

\* A change that was accepted into the queue never fails the validation that
\* execute_change repeats.
THEOREM ExecutionValid == Spec => []ExecutionNeverFailsValidation
  <1>1. IInv => ExecutionNeverFailsValidation
    <2> SUFFICES ASSUME IInv, NEW k \in Kinds, pending[k] # NoAccount,
                        pending[k].kind = "UpdateTiers"
                 PROVE  ValidTiers(pending[k].tiers, config.unbondPeriod)
      BY DEF ExecutionNeverFailsValidation, Revalidates
    <2>1. config # NoAccount
      BY DEF IInv, PendingHonoursDelay, GovernanceInBounds
    <2> QED
      BY <2>1 DEF IInv, QueuedTablesWellShaped, ConfigStaysValid, ValidTiers
  <1> QED
    BY <1>1, Invariance, PTL

-----------------------------------------------------------------------------
\* A timelocked change leaves the unbonding period alone, whatever its kind.
LEMMA ChangesKeepThePeriod ==
  ASSUME GovernanceTypeOK, config # NoAccount, NEW change \in PendingChange
  PROVE  Applied(change).unbondPeriod = config.unbondPeriod
  <1>1. config \in ConfigAccount
    BY DEF GovernanceTypeOK
  <1>2. CASE change.kind = "TransferAuthority"
    BY <1>1, <1>2 DEF Applied, ConfigAccount
  <1>3. CASE change.kind = "SetVaultAuthority"
    BY <1>1, <1>3 DEF Applied, ConfigAccount
  <1>4. CASE change.kind = "UpdateTiers"
    BY <1>1, <1>4 DEF Applied, ConfigAccount
  <1> QED
    BY <1>2, <1>3, <1>4 DEF PendingChange, Kinds

\* Only set_unbond_period moves the period of a registry that has one, and never to
\* more than the maximum.
LEMMA PeriodMoves ==
  ASSUME GovernanceTypeOK, [Next]_vars, config # NoAccount
  PROVE  \/ config'.unbondPeriod = config.unbondPeriod
         \/ config'.unbondPeriod \in Int /\ config'.unbondPeriod <= MaxUnbondPeriod
  <1>1. CASE UNCHANGED config
    BY <1>1
  <1>2. ASSUME NEW signer \in Keys, NEW period \in UnbondPeriods,
               SetUnbondPeriod(signer, period)
        PROVE  config'.unbondPeriod \in Int /\ config'.unbondPeriod <= MaxUnbondPeriod
    <2>1. config \in ConfigAccount
      BY DEF GovernanceTypeOK
    <2>2. config'.unbondPeriod = period
      BY <1>2, <2>1 DEF SetUnbondPeriod, ConfigAccount
    <2> QED
      BY <1>2, <2>2, InputsAssumption DEF SetUnbondPeriod, SettableUnbondPeriod
  <1>3. ASSUME NEW signer \in Keys, NEW slot \in Kinds, ExecuteChange(signer, slot)
        PROVE  config'.unbondPeriod = config.unbondPeriod
    <2>1. pending[slot] \in PendingChange
      BY <1>3 DEF GovernanceTypeOK, ExecuteChange, Resolvable
    <2> QED
      BY <1>3, <2>1, ChangesKeepThePeriod DEF ExecuteChange
  <1>4. ASSUME NEW signer \in Keys, NEW slot \in Kinds, VetoChange(signer, slot)
        PROVE  UNCHANGED config
    BY <1>4 DEF VetoChange
  <1>5. ASSUME NEW signer \in Keys, NEW slot \in Kinds, NEW kind, NEW key, NEW table,
               Queue(signer, slot, kind, key, table)
        PROVE  UNCHANGED config
    BY <1>5 DEF Queue
  <1> QED
    BY <1>1, <1>2, <1>3, <1>4, <1>5
       DEF Next, Instruction, vars, Tick, InitializeConfig, InitializeGovernance,
           SetGuardian, SetTimelockDelay, QueueTransferAuthority,
           QueueSetVaultAuthority, QueueUpdateTiers

-----------------------------------------------------------------------------
\* Governance implements Timelock: every instruction is one step of the abstract
\* timelock, or none.

\* What a lever of the registry is set to.
LEMMA SettingOfConfig ==
  ASSUME config # NoAccount
  PROVE  /\ SettingBar["TransferAuthority"] = config.authority
         /\ SettingBar["SetVaultAuthority"] = config.vaultAuthority
         /\ SettingBar["UpdateTiers"] = config.tiers
         /\ SettingBar = [k \in Kinds |-> SettingBar[k]]
  BY DEF SettingBar, Kinds

\* The setting of a Config account is not the abstract "not set up".
LEMMA SettingExists ==
  ASSUME GovernanceTypeOK, config # NoAccount
  PROVE  SettingBar # NoAccount
  <1>1. config \in ConfigAccount
    BY DEF GovernanceTypeOK
  <1>2. \A k \in Kinds : SettingBar[k] \in AnyKey \cup TierTable
    BY <1>1, SettingOfConfig DEF Kinds, ConfigAccount
  <1>3. SettingBar \in [Kinds -> AnyKey \cup TierTable]
    BY <1>2, SettingOfConfig
  <1> QED
    BY <1>3, NoAccountAssumption

\* The delay of a Governance account is not the abstract "not installed".
LEMMA DelayExists ==
  ASSUME GovernanceTypeOK, governance # NoAccount
  PROVE  DelayBar = governance.timelockDelay /\ DelayBar \in Int /\ DelayBar # NoAccount
  BY NoAccountAssumption DEF GovernanceTypeOK, GovernanceAccount, DelayBar

\* A pending change is a notice.
LEMMA NoticeExists ==
  ASSUME NEW change \in PendingChange
  PROVE  NoticeOf(change) # NoAccount
  <1>1. change.eta - change.queuedAt \in Int /\ change.queuedAt \in Int
    BY DEF PendingChange
  <1>2. change.newKey \in AnyKey /\ change.tiers \in TierTable /\ change.kind \in Kinds
    BY DEF PendingChange
  <1>3. NoticeOf(change)
          \in [lever : Kinds, value : AnyKey \cup TierTable, since : Int, wait : Int]
    BY <1>1, <1>2 DEF NoticeOf
  <1> QED
    BY <1>3, NoAccountAssumption

\* The abstract view of the slots after one of them is written.
LEMMA NoticeAfterWrite ==
  ASSUME GovernanceTypeOK, NEW slot \in Kinds, NEW change,
         pending' = [pending EXCEPT ![slot] = change]
  PROVE  NoticeBar' = [NoticeBar EXCEPT ![slot] =
                         IF change = NoAccount THEN NoAccount ELSE NoticeOf(change)]
  <1>1. pending'[slot] = change /\ \A k \in Kinds \ {slot} : pending'[k] = pending[k]
    BY DEF GovernanceTypeOK
  <1>2. NoticeBar' = [k \in Kinds |-> IF pending'[k] = NoAccount THEN NoAccount
                                     ELSE NoticeOf(pending'[k])]
    BY DEF NoticeBar, NoticeOf
  <1>3. NoticeBar = [k \in Kinds |-> IF pending[k] = NoAccount THEN NoAccount
                                    ELSE NoticeOf(pending[k])]
    BY DEF NoticeBar
  <1> DEFINE new == IF change = NoAccount THEN NoAccount ELSE NoticeOf(change)
  <1>4. NoticeBar'[slot] = new /\ \A k \in Kinds \ {slot} : NoticeBar'[k] = NoticeBar[k]
    BY <1>1, <1>2, <1>3
  <1>5. NoticeBar' = [k \in Kinds |-> NoticeBar'[k]]
    BY <1>2
  <1>6. NoticeBar = [k \in Kinds |-> NoticeBar[k]]
    BY <1>3
  <1> HIDE DEF new
  <1>7. NoticeBar' = [NoticeBar EXCEPT ![slot] = new]
    BY <1>4, <1>5, <1>6
  <1> QED
    BY <1>7 DEF new

\* Queueing is Announce.
LEMMA QueueAnnounces ==
  ASSUME GovernanceTypeOK, GovernanceTypeOK', NEW signer \in Keys,
         NEW slot \in Kinds, NEW kind \in Kinds,
         NEW key \in AnyKey, NEW tiers \in TierTable,
         kind = "UpdateTiers" => tiers \in TierTables,
         Queue(signer, slot, kind, key, tiers)
  PROVE  Timelock!Announce(slot)
  <1> DEFINE new == Announced(kind, key, tiers)
             value == IF kind = "UpdateTiers" THEN tiers ELSE key
  <1>1. /\ governance # NoAccount
        /\ pending[slot] = NoAccount
        /\ pending' = [pending EXCEPT ![slot] = new]
        /\ UNCHANGED <<now, config, governance>>
    BY DEF Queue, SlotFree
  <1>2. new \in PendingChange
    BY <1>1, AnnouncedType
  <1>3. DelayBar = governance.timelockDelay /\ DelayBar \in Int /\ DelayBar # NoAccount
    BY <1>1, DelayExists
  <1>4. new # NoAccount
    BY <1>2, NoAccountAssumption
  <1>5. now \in Int
    BY DEF GovernanceTypeOK
  <1>6. new.eta - new.queuedAt = DelayBar
    BY <1>3, <1>5 DEF Announced
  <1>7. NoticeOf(new) = [lever |-> kind, value |-> value, since |-> now, wait |-> DelayBar]
    BY <1>6 DEF NoticeOf, Announced
  <1>8. NoticeBar' = [NoticeBar EXCEPT ![slot] = NoticeOf(new)]
    BY <1>1, <1>4, NoticeAfterWrite
  <1>9. NoticeBar[slot] = NoAccount
    BY <1>1 DEF NoticeBar
  <1>10. value \in AnyKey \cup TierTables
    OBVIOUS
  <1>11. UNCHANGED <<now, SettingBar, DelayBar>>
    BY <1>1 DEF SettingBar, DelayBar
  <1> HIDE DEF new, value
  <1>12. \E lever \in Kinds, v \in AnyKey \cup TierTables :
           NoticeBar' = [NoticeBar EXCEPT ![slot] =
             [lever |-> lever, value |-> v, since |-> now, wait |-> DelayBar]]
    BY <1>7, <1>8, <1>10
  <1> QED
    BY <1>3, <1>9, <1>11, <1>12 DEF Timelock!Announce

\* Executing is Enact.
LEMMA ExecuteEnacts ==
  ASSUME GovernanceTypeOK, GovernanceTypeOK', NEW signer \in Keys, NEW slot \in Kinds,
         ExecuteChange(signer, slot)
  PROVE  Timelock!Enact(slot)
  <1> DEFINE change == pending[slot]
             value == IF change.kind = "UpdateTiers" THEN change.tiers ELSE change.newKey
  <1>1. /\ config # NoAccount /\ change # NoAccount
        /\ now >= change.eta
        /\ config' = Applied(change)
        /\ pending' = [pending EXCEPT ![slot] = NoAccount]
        /\ UNCHANGED <<now, governance>>
    BY DEF ExecuteChange, SignedByAuthority, Resolvable, Due
  <1>2. config \in ConfigAccount /\ change \in PendingChange /\ now \in Int
    BY <1>1 DEF GovernanceTypeOK
  <1>3. config' \in ConfigAccount /\ config' # NoAccount
    BY <1>1, <1>2, AppliedType, NoAccountAssumption
  <1>4. NoticeBar[slot] = NoticeOf(change)
    BY <1>1 DEF NoticeBar
  <1>5. NoticeBar[slot] # NoAccount
    BY <1>2, <1>4, NoticeExists
  <1>6. now - NoticeOf(change).since >= NoticeOf(change).wait
    <2>1. change.eta \in Int /\ change.queuedAt \in Int
      BY <1>2 DEF PendingChange
    <2>2. NoticeOf(change).since = change.queuedAt
          /\ NoticeOf(change).wait = change.eta - change.queuedAt
      BY DEF NoticeOf
    <2> QED
      BY <1>1, <1>2, <2>1, <2>2
  <1>7. NoticeBar' = [NoticeBar EXCEPT ![slot] = NoAccount]
    BY <1>1, NoticeAfterWrite
  <1>8. NoticeOf(change).lever = change.kind /\ NoticeOf(change).value = value
    BY DEF NoticeOf
  <1>9. SettingBar' = [SettingBar EXCEPT ![change.kind] = value]
    <2>0. SettingBar' = [k \in Kinds |-> SettingBar'[k]]
          /\ SettingBar'["TransferAuthority"] = config'.authority
          /\ SettingBar'["SetVaultAuthority"] = config'.vaultAuthority
          /\ SettingBar'["UpdateTiers"] = config'.tiers
      BY <1>3 DEF SettingBar, Kinds
    <2>1. CASE change.kind = "TransferAuthority"
      <3>1. config' = [config EXCEPT !.authority = change.newKey]
        BY <1>1, <2>1 DEF Applied
      <3>2. /\ config'.authority = value
            /\ config'.vaultAuthority = config.vaultAuthority
            /\ config'.tiers = config.tiers
        BY <1>2, <2>1, <3>1 DEF ConfigAccount
      <3> QED
        BY <1>1, <2>0, <2>1, <3>2, SettingOfConfig DEF Kinds
    <2>2. CASE change.kind = "SetVaultAuthority"
      <3>1. config' = [config EXCEPT !.vaultAuthority = change.newKey]
        BY <1>1, <2>2 DEF Applied
      <3>2. /\ config'.authority = config.authority
            /\ config'.vaultAuthority = value
            /\ config'.tiers = config.tiers
        BY <1>2, <2>2, <3>1 DEF ConfigAccount
      <3> QED
        BY <1>1, <2>0, <2>2, <3>2, SettingOfConfig DEF Kinds
    <2>3. CASE change.kind = "UpdateTiers"
      <3>1. config' = [config EXCEPT !.tiers = change.tiers]
        BY <1>1, <2>3 DEF Applied
      <3>2. /\ config'.authority = config.authority
            /\ config'.vaultAuthority = config.vaultAuthority
            /\ config'.tiers = value
        BY <1>2, <2>3, <3>1 DEF ConfigAccount
      <3> QED
        BY <1>1, <2>0, <2>3, <3>2, SettingOfConfig DEF Kinds
    <2> QED
      BY <1>2, <2>1, <2>2, <2>3 DEF PendingChange, Kinds
  <1>10. UNCHANGED <<now, DelayBar>>
    BY <1>1 DEF DelayBar
  <1> HIDE DEF change, value
  <1> QED
    BY <1>4, <1>5, <1>6, <1>7, <1>8, <1>9, <1>10 DEF Timelock!Enact

\* A step of Governance is a step of the abstract timelock, or stutters.
LEMMA StepSimulation ==
  ASSUME IInv, IInv', [Next]_vars
  PROVE  [Timelock!Next]_(Timelock!vars)
  <1>0. GovernanceTypeOK /\ GovernanceTypeOK'
    BY DEF IInv
  <1>1. CASE Tick
    <2>1. now' \in Nat /\ now' > now
      BY <1>0, <1>1 DEF Tick, GovernanceTypeOK
    <2>2. UNCHANGED <<SettingBar, NoticeBar, DelayBar>>
      BY <1>1 DEF Tick, SettingBar, NoticeBar, NoticeOf, DelayBar
    <2> QED
      BY <2>1, <2>2 DEF Timelock!Next, Timelock!PassTime
  <1>2. ASSUME NEW authority \in AnyKey, NEW table \in TierTables,
               NEW period \in UnbondPeriods, InitializeConfig(authority, table, period)
        PROVE  Timelock!SetUp
    <2>1. SettingBar = NoAccount
      BY <1>2 DEF InitializeConfig, SettingBar
    <2>2. UNCHANGED <<now, NoticeBar, DelayBar>>
      BY <1>2 DEF InitializeConfig, NoticeBar, NoticeOf, DelayBar
    <2>3. config' # NoAccount
      BY <1>0, <1>2, NoAccountAssumption, InputsAssumption
         DEF InitializeConfig, ConfigAccount, AnyKey
    <2>4. /\ config'.authority = authority
          /\ config'.vaultAuthority = NoKey
          /\ config'.tiers = table
      BY <1>2 DEF InitializeConfig
    <2>5. /\ SettingBar' = [k \in Kinds |-> SettingBar'[k]]
          /\ SettingBar'["TransferAuthority"] = authority
          /\ SettingBar'["SetVaultAuthority"] = NoKey
          /\ SettingBar'["UpdateTiers"] = table
      BY <2>3, <2>4 DEF SettingBar, Kinds
    <2>6. \A k \in Kinds : SettingBar'[k] \in AnyKey \cup TierTables
      BY <2>5 DEF Kinds, AnyKey
    <2>7. SettingBar' \in [Kinds -> AnyKey \cup TierTables]
      BY <2>5, <2>6
    <2> QED
      BY <2>1, <2>2, <2>7 DEF Timelock!SetUp
  <1>3. ASSUME NEW signer \in Keys, NEW period \in UnbondPeriods,
               SetUnbondPeriod(signer, period)
        PROVE  UNCHANGED Timelock!vars
    <2>1. config # NoAccount /\ UNCHANGED <<now, governance, pending>>
          /\ config' = [config EXCEPT !.unbondPeriod = period]
      BY <1>3 DEF SetUnbondPeriod, SignedByAuthority
    <2>2. /\ config'.authority = config.authority
          /\ config'.vaultAuthority = config.vaultAuthority
          /\ config'.tiers = config.tiers
      BY <1>0, <2>1 DEF GovernanceTypeOK, ConfigAccount
    <2>3. config' # NoAccount
      BY <1>0, <1>3, <2>1, NoAccountAssumption, InputsAssumption
         DEF GovernanceTypeOK, ConfigAccount
    <2>4. SettingBar' = SettingBar
      <3>1. /\ SettingBar' = [k \in Kinds |-> SettingBar'[k]]
            /\ SettingBar'["TransferAuthority"] = config.authority
            /\ SettingBar'["SetVaultAuthority"] = config.vaultAuthority
            /\ SettingBar'["UpdateTiers"] = config.tiers
        BY <2>2, <2>3 DEF SettingBar, Kinds
      <3> QED
        BY <2>1, <3>1, SettingOfConfig DEF Kinds
    <2> QED
      BY <2>1, <2>4 DEF Timelock!vars, NoticeBar, NoticeOf, DelayBar
  <1>4. ASSUME NEW signer \in Keys, NEW guardian \in AnyKey, NEW delay \in Delays,
               InitializeGovernance(signer, guardian, delay)
        PROVE  Timelock!Install
    <2>1. /\ config # NoAccount /\ governance = NoAccount
          /\ delay \in MinTimelockDelay..MaxTimelockDelay
          /\ governance' = [guardian |-> guardian, timelockDelay |-> delay]
          /\ UNCHANGED <<now, config, pending>>
      BY <1>4 DEF InitializeGovernance, SignedByAuthority
    <2>2. SettingBar # NoAccount
      BY <1>0, <2>1, SettingExists
    <2>3. governance' # NoAccount
      <3>1. guardian \in Keys
        BY <1>4 DEF InitializeGovernance, IndependentKey, AnyKey
      <3> QED
        BY <2>1, <3>1, NoAccountAssumption, InputsAssumption DEF GovernanceAccount
    <2>4. DelayBar = NoAccount /\ DelayBar' = delay
      BY <2>1, <2>3 DEF DelayBar
    <2>5. UNCHANGED <<now, SettingBar, NoticeBar>>
      BY <2>1 DEF SettingBar, NoticeBar, NoticeOf
    <2> QED
      BY <2>1, <2>2, <2>4, <2>5 DEF Timelock!Install
  <1>5. ASSUME NEW signer \in Keys, NEW guardian \in AnyKey, SetGuardian(signer, guardian)
        PROVE  UNCHANGED Timelock!vars
    <2>1. /\ governance # NoAccount
          /\ governance' = [governance EXCEPT !.guardian = guardian]
          /\ UNCHANGED <<now, config, pending>>
      BY <1>5 DEF SetGuardian
    <2>2. governance'.timelockDelay = governance.timelockDelay
      BY <1>0, <2>1 DEF GovernanceTypeOK, GovernanceAccount
    <2>3. governance' # NoAccount
      <3>1. guardian \in Keys
        BY <1>5 DEF SetGuardian, IndependentKey, AnyKey
      <3> QED
        BY <1>0, <2>1, <3>1, NoAccountAssumption DEF GovernanceTypeOK, GovernanceAccount
    <2>4. DelayBar' = DelayBar
      BY <2>1, <2>2, <2>3 DEF DelayBar
    <2> QED
      BY <2>1, <2>4 DEF Timelock!vars, SettingBar, NoticeBar, NoticeOf
  <1>6. ASSUME NEW signer \in Keys, NEW delay \in Delays, SetTimelockDelay(signer, delay)
        PROVE  Timelock!Lengthen
    <2>1. /\ governance # NoAccount
          /\ governance' = [governance EXCEPT !.timelockDelay = delay]
          /\ UNCHANGED <<now, config, pending>>
          /\ delay \in Int /\ delay <= MaxTimelockDelay
          /\ delay > governance.timelockDelay
      BY <1>6, InputsAssumption DEF SetTimelockDelay, RaisesDelay
    <2>2. DelayBar = governance.timelockDelay /\ DelayBar \in Int /\ DelayBar # NoAccount
      BY <1>0, <2>1, DelayExists
    <2>3. governance'.timelockDelay = delay
      BY <1>0, <2>1 DEF GovernanceTypeOK, GovernanceAccount
    <2>4. governance' # NoAccount
      BY <1>0, <2>1, NoAccountAssumption DEF GovernanceTypeOK, GovernanceAccount
    <2>5. DelayBar' = delay
      BY <2>3, <2>4 DEF DelayBar
    <2>6. DelayBar' \in (DelayBar + 1)..MaxTimelockDelay
      BY <2>1, <2>2, <2>5, BoundsAssumption
    <2> QED
      BY <2>1, <2>2, <2>6 DEF Timelock!Lengthen, SettingBar, NoticeBar, NoticeOf
  <1>7. ASSUME NEW signer \in Keys, NEW slot \in Kinds, NEW key \in AnyKey,
               QueueTransferAuthority(signer, slot, key)
        PROVE  Timelock!Announce(slot)
    BY <1>0, <1>7, QueueAnnounces, ZeroTableType DEF QueueTransferAuthority, Kinds
  <1>8. ASSUME NEW signer \in Keys, NEW slot \in Kinds, NEW key \in AnyKey,
               QueueSetVaultAuthority(signer, slot, key)
        PROVE  Timelock!Announce(slot)
    BY <1>0, <1>8, QueueAnnounces, ZeroTableType DEF QueueSetVaultAuthority, Kinds
  <1>9. ASSUME NEW signer \in Keys, NEW slot \in Kinds, NEW table \in TierTables,
               QueueUpdateTiers(signer, slot, table)
        PROVE  Timelock!Announce(slot)
    BY <1>0, <1>9, QueueAnnounces, InputsAssumption DEF QueueUpdateTiers, Kinds, AnyKey
  <1>10. ASSUME NEW signer \in Keys, NEW slot \in Kinds, ExecuteChange(signer, slot)
         PROVE  Timelock!Enact(slot)
    BY <1>0, <1>10, ExecuteEnacts
  <1>11. ASSUME NEW signer \in Keys, NEW slot \in Kinds, VetoChange(signer, slot)
         PROVE  Timelock!Retract(slot)
    <2>1. /\ pending[slot] # NoAccount
          /\ pending' = [pending EXCEPT ![slot] = NoAccount]
          /\ UNCHANGED <<now, config, governance>>
      BY <1>11 DEF VetoChange, Resolvable
    <2>2. NoticeBar' = [NoticeBar EXCEPT ![slot] = NoAccount]
      BY <1>0, <2>1, NoticeAfterWrite
    <2>3. NoticeBar[slot] # NoAccount
      <3>1. pending[slot] \in PendingChange
        BY <1>0, <2>1 DEF GovernanceTypeOK
      <3>2. NoticeBar[slot] = NoticeOf(pending[slot])
        BY <2>1 DEF NoticeBar
      <3> QED
        BY <3>1, <3>2, NoticeExists
    <2> QED
      BY <2>1, <2>2, <2>3 DEF Timelock!Retract, SettingBar, DelayBar
  <1>12. CASE UNCHANGED vars
    BY <1>12 DEF vars, Timelock!vars, SettingBar, NoticeBar, NoticeOf, DelayBar
  <1> QED
    BY <1>1, <1>2, <1>3, <1>4, <1>5, <1>6, <1>7, <1>8, <1>9, <1>10, <1>11, <1>12
       DEF Next, Instruction, Timelock!Next

\* Governance implements the timelock: authority, vault authority and tier table
\* move only to a value that hung in a slot for the whole delay in force when it
\* was queued, and the delay only grows.
THEOREM ImplementsTimelock == Spec => TimelockSpec
  <1>1. Init => Timelock!Init
    BY DEF Init, Timelock!Init, SettingBar, NoticeBar, DelayBar
  <1>2. IInv /\ IInv' /\ [Next]_vars => [Timelock!Next]_(Timelock!vars)
    BY StepSimulation
  <1> QED
    BY <1>1, <1>2, Invariance, PTL DEF Spec, TimelockSpec, Timelock!Spec
=============================================================================
