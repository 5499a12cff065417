------------------------ MODULE GuardianWatchProofs ------------------------
(***************************************************************************)
(* A guardian who stays awake holds every lever of the registry, for every *)
(* value of the constants of GuardianWatch.                                *)
(***************************************************************************)
EXTENDS GuardianWatch, GovernanceProofs

\* The guardian has let nothing it could have vetoed grow older than Vigilance.
NothingOverlooked ==
  ~rotated => \A k \in Kinds : Resolvable(k) => now <= pending[k].queuedAt + Vigilance

WatchInv == IInv /\ NothingOverlooked

\* An instruction of a watched registry either leaves a slot that could be
\* resolved as it was, or empties it, or fills it now.
LEMMA SlotsByInstruction ==
  ASSUME IInv, Instruction, NEW k \in Kinds, Resolvable(k)'
  PROVE  /\ now' = now
         /\ \/ Resolvable(k) /\ pending'[k] = pending[k]
            \/ pending'[k].queuedAt = now
  <1>0. GovernanceTypeOK
    BY DEF IInv
  <1>1. ASSUME NEW authority \in AnyKey, NEW table \in TierTables,
               NEW period \in UnbondPeriods, InitializeConfig(authority, table, period)
        PROVE  now' = now /\ Resolvable(k) /\ pending'[k] = pending[k]
    BY <1>1 DEF InitializeConfig, Resolvable
  <1>2. ASSUME NEW signer \in Keys, NEW period \in UnbondPeriods,
               SetUnbondPeriod(signer, period)
        PROVE  now' = now /\ Resolvable(k) /\ pending'[k] = pending[k]
    BY <1>2 DEF SetUnbondPeriod, Resolvable
  <1>3. ASSUME NEW signer \in Keys, NEW guardian \in AnyKey, NEW delay \in Delays,
               InitializeGovernance(signer, guardian, delay)
        PROVE  FALSE
    <2>1. pending[k] = NoAccount /\ pending' = pending
      BY <1>3 DEF InitializeGovernance, IInv, PendingHonoursDelay
    <2> QED
      BY <2>1 DEF Resolvable
  <1>4. ASSUME NEW signer \in Keys, NEW guardian \in AnyKey, SetGuardian(signer, guardian)
        PROVE  now' = now /\ Resolvable(k) /\ pending'[k] = pending[k]
    BY <1>4 DEF SetGuardian, Resolvable
  <1>5. ASSUME NEW signer \in Keys, NEW delay \in Delays, SetTimelockDelay(signer, delay)
        PROVE  now' = now /\ Resolvable(k) /\ pending'[k] = pending[k]
    BY <1>5 DEF SetTimelockDelay, Resolvable
  <1>6. ASSUME NEW signer \in Keys, NEW slot \in Kinds, NEW kind, NEW key, NEW tiers,
               Queue(signer, slot, kind, key, tiers)
        PROVE  /\ now' = now
               /\ \/ Resolvable(k) /\ pending'[k] = pending[k]
                  \/ pending'[k].queuedAt = now
    <2>1. /\ now' = now /\ governance' = governance
          /\ pending' = [pending EXCEPT ![slot] = Announced(kind, key, tiers)]
      BY <1>6 DEF Queue
    <2>2. CASE k = slot
      BY <1>0, <2>1, <2>2 DEF GovernanceTypeOK, Announced
    <2>3. CASE k # slot
      BY <1>0, <2>1, <2>3 DEF GovernanceTypeOK, Resolvable
    <2> QED
      BY <2>1, <2>2, <2>3
  <1>7. ASSUME NEW slot \in Kinds, pending' = [pending EXCEPT ![slot] = NoAccount],
               UNCHANGED <<now, governance>>
        PROVE  now' = now /\ Resolvable(k) /\ pending'[k] = pending[k]
    BY <1>0, <1>7 DEF GovernanceTypeOK, Resolvable
  <1> QED
    BY <1>1, <1>2, <1>3, <1>4, <1>5, <1>6, <1>7
       DEF Instruction, QueueTransferAuthority, QueueSetVaultAuthority, QueueUpdateTiers,
           ExecuteChange, VetoChange

LEMMA WatchStep == WatchInv /\ [WatchNext]_watchVars => WatchInv'
  <1> SUFFICES ASSUME WatchInv, [WatchNext]_watchVars PROVE WatchInv'
    OBVIOUS
  <1>1. IInv'
    <2>1. [Next]_vars
      BY DEF WatchNext, watchVars, Next
    <2> QED
      BY <2>1, IInvStep DEF WatchInv
  <1>0. GovernanceTypeOK /\ GovernanceTypeOK' /\ Vigilance \in Nat
    BY <1>1, VigilanceAssumption DEF WatchInv, IInv
  <1>2. NothingOverlooked'
    <2> SUFFICES ASSUME ~rotated', NEW k \in Kinds, Resolvable(k)'
                 PROVE  now' <= pending'[k].queuedAt + Vigilance
      BY DEF NothingOverlooked
    <2>0. pending'[k] \in PendingChange
      BY <1>0 DEF GovernanceTypeOK, Resolvable
    <2>1. pending'[k].queuedAt \in Int /\ now \in Nat
      BY <1>0, <2>0 DEF GovernanceTypeOK, PendingChange
    <2>2. ~rotated
      BY DEF WatchNext, watchVars
    <2>3. Resolvable(k) => now <= pending[k].queuedAt + Vigilance
      BY <2>2 DEF WatchInv, NothingOverlooked
    <2>4. CASE Tick /\ Watched
      <3>1. now' = now + 1 /\ pending' = pending /\ Resolvable(k)
        BY <2>4 DEF Tick, Resolvable
      <3>2. now < pending[k].queuedAt + Vigilance
        BY <2>4, <3>1 DEF Watched
      <3> QED
        BY <1>0, <2>1, <3>1, <3>2
    <2>5. CASE Instruction
      <3>1. /\ now' = now
            /\ \/ Resolvable(k) /\ pending'[k] = pending[k]
               \/ pending'[k].queuedAt = now
        BY <2>5, SlotsByInstruction DEF WatchInv
      <3> QED
        BY <1>0, <2>1, <2>3, <3>1
    <2>6. CASE UNCHANGED watchVars
      BY <2>3, <2>6 DEF watchVars, vars, Resolvable
    <2> QED
      BY <2>2, <2>4, <2>5, <2>6 DEF WatchNext
  <1> QED
    BY <1>1, <1>2 DEF WatchInv

\* No change can be executed while nothing is overlooked.
LEMMA NotExecutable ==
  ASSUME WatchInv, ~rotated, NEW signer \in Keys, NEW slot \in Kinds,
         ExecuteChange(signer, slot)
  PROVE  FALSE
  <1> DEFINE change == pending[slot]
  <1>1. Resolvable(slot) /\ change # NoAccount /\ now >= change.eta
    BY DEF ExecuteChange, Resolvable, Due
  <1>2. now <= change.queuedAt + Vigilance
    BY <1>1 DEF WatchInv, NothingOverlooked
  <1>3. governance # NoAccount
        /\ change.eta - change.queuedAt \in MinTimelockDelay..governance.timelockDelay
    BY <1>1 DEF WatchInv, IInv, PendingHonoursDelay
  <1>4. change \in PendingChange /\ now \in Nat /\ governance \in GovernanceAccount
    BY <1>1, <1>3 DEF WatchInv, IInv, GovernanceTypeOK
  <1>5. change.eta \in Int /\ change.queuedAt \in Int /\ governance.timelockDelay \in Int
    BY <1>4 DEF PendingChange, GovernanceAccount
  <1> HIDE DEF change
  <1> QED
    BY <1>1, <1>2, <1>3, <1>4, <1>5, VigilanceAssumption, BoundsAssumption

LEMMA LeversHeldByStep ==
  ASSUME WatchInv, [WatchNext]_watchVars, config # NoAccount, ~rotated'
  PROVE  /\ config'.authority = config.authority
         /\ config'.vaultAuthority = config.vaultAuthority
         /\ config'.tiers = config.tiers
  <1>0. config \in ConfigAccount
    BY DEF WatchInv, IInv, GovernanceTypeOK
  <1>1. ~rotated
    BY DEF WatchNext, watchVars
  <1>2. ASSUME NEW signer \in Keys, NEW period \in UnbondPeriods,
               SetUnbondPeriod(signer, period)
        PROVE  /\ config'.authority = config.authority
               /\ config'.vaultAuthority = config.vaultAuthority
               /\ config'.tiers = config.tiers
    BY <1>0, <1>2 DEF SetUnbondPeriod, ConfigAccount
  <1>3. \A signer \in Keys, slot \in Kinds : ~ExecuteChange(signer, slot)
    BY <1>1, NotExecutable
  <1> QED
    BY <1>2, <1>3
       DEF WatchNext, watchVars, vars, Tick, Instruction, InitializeConfig,
           InitializeGovernance, SetGuardian, SetTimelockDelay, QueueTransferAuthority,
           QueueSetVaultAuthority, QueueUpdateTiers, Queue, VetoChange

\* While the first guardian is in office and lets no change it could veto grow
\* older than Vigilance, neither the authority, nor the vault authority, nor the
\* tier table ever changes.
THEOREM AwakeGuardianHolds == WatchSpec => LeversHeld
  <1>1. WatchInit => WatchInv
    BY DEF WatchInit, WatchInv, NothingOverlooked, Resolvable, Init, IInv, GovernanceTypeOK,
           GovernanceInBounds, PendingHonoursDelay, QueuedTablesWellShaped, ConfigStaysValid
  <1>2. WatchInv /\ [WatchNext]_watchVars =>
          [(config # NoAccount /\ ~rotated') =>
             /\ config'.authority = config.authority
             /\ config'.vaultAuthority = config.vaultAuthority
             /\ config'.tiers = config.tiers]_watchVars
    BY LeversHeldByStep
  <1> QED
    BY <1>1, <1>2, WatchStep, PTL DEF WatchSpec, LeversHeld
=============================================================================
