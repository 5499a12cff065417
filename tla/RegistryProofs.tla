--------------------------- MODULE RegistryProofs ---------------------------
(***************************************************************************)
(* The whole program implements both of its halves, for every value of the *)
(* constants: what is proved of Governance and of Capital alone is true of *)
(* the instructions together.                                              *)
(***************************************************************************)
EXTENDS Registry, GovernanceProofs

-----------------------------------------------------------------------------
\* What an instruction of the economic half leaves alone.

LEMMA BondKeeps == BondInstruction => UNCHANGED <<now, config, governance, pending>>
  BY DEF BondInstruction, Cap!BondStep, Cap!RegisterBuilder, Cap!RequestUnbond,
         Cap!CancelUnbond, Cap!StakeBond, Cap!WithdrawBond, Cap!SlashBond

LEMMA ListingKeeps == ListingInstruction => UNCHANGED <<now, config, governance, pending>>
  <1> SUFFICES ASSUME ListingInstruction
               PROVE  UNCHANGED <<now, config, governance, pending>>
    OBVIOUS
  <1>1. ASSUME NEW b, NEW bot, Cap!SubmitListing(b, bot)
        PROVE  UNCHANGED <<now, config, governance>>
    BY <1>1 DEF Cap!SubmitListing
  <1>2. ASSUME NEW b, NEW i, NEW bot, Cap!RotateAgentAuthority(b, i, bot)
        PROVE  UNCHANGED <<now, config, governance>>
    BY <1>2 DEF Cap!RotateAgentAuthority
  <1>3. ASSUME NEW b, NEW i, NEW signer, NEW fees, Cap!ApproveListing(signer, b, i, fees)
        PROVE  UNCHANGED <<now, config, governance>>
    BY <1>3 DEF Cap!ApproveListing
  <1>4. ASSUME NEW b, NEW i, NEW status, Cap!MoveTo(b, i, status)
        PROVE  UNCHANGED <<now, config, governance>>
    BY <1>4 DEF Cap!MoveTo
  <1> QED
    BY <1>1, <1>2, <1>3, <1>4
       DEF ListingInstruction, Cap!ListingStep, Cap!PauseListing,
           Cap!GuardianPauseListing, Cap!ResumeListing, Cap!Delist

LEMMA AumKeeps == AumInstruction => UNCHANGED <<now, config, governance, pending>>
  BY DEF AumInstruction, Cap!AumStep, Cap!RecordDeposit, Cap!RecordWithdrawal

LEMMA TransferKeeps == AnybodyTransfers => UNCHANGED <<now, config, governance, pending>>
  BY DEF AnybodyTransfers, Cap!TokenTransfer

\* Every step of the program is a step of Governance or leaves it alone.
LEMMA GovernanceStep == [RegistryNext]_registryVars => [Next]_vars
  BY BondKeeps, ListingKeeps, AumKeeps, TransferKeeps
     DEF RegistryNext, registryVars, vars, PrivilegedInstruction, RegistryTick, Next

\* The program implements Governance: no instruction of the economic half touches
\* the configuration, the guardian or what hangs in the slots, or stops the clock.
THEOREM GovernanceImplemented == RegistrySpec => ImplementsGovernance
  <1>1. RegistryInit => Init
    BY DEF RegistryInit
  <1> QED
    BY <1>1, GovernanceStep, PTL DEF RegistrySpec, ImplementsGovernance, Spec

LEMMA GovernanceInvariant == RegistrySpec => []IInv
  BY GovernanceImplemented, Invariance, PTL DEF ImplementsGovernance

-----------------------------------------------------------------------------
\* An instruction needs a configuration, or creates it.
LEMMA InstructionConfigures ==
  ASSUME IInv, Instruction
  PROVE  config' # NoAccount \/ UNCHANGED <<config, governance>>
  <1>1. ASSUME NEW authority \in AnyKey, NEW table \in TierTables,
               NEW period \in UnbondPeriods, InitializeConfig(authority, table, period)
        PROVE  config' # NoAccount
    <2>1. config' \in ConfigAccount
      BY <1>1, InputsAssumption DEF InitializeConfig, ConfigAccount, AnyKey
    <2> QED
      BY <2>1, NoAccountAssumption
  <1>2. ASSUME NEW signer \in Keys, NEW period \in UnbondPeriods,
               SetUnbondPeriod(signer, period)
        PROVE  config' # NoAccount
    <2>1. config \in ConfigAccount
      BY <1>2 DEF SetUnbondPeriod, SignedByAuthority, IInv, GovernanceTypeOK
    <2>2. config' \in ConfigAccount
      BY <1>2, <2>1, InputsAssumption DEF SetUnbondPeriod, ConfigAccount
    <2> QED
      BY <2>2, NoAccountAssumption
  <1>3. ASSUME NEW signer \in Keys, NEW slot \in Kinds, ExecuteChange(signer, slot)
        PROVE  config' # NoAccount
    <2>1. config' \in ConfigAccount
      BY <1>3, AppliedType DEF ExecuteChange, Resolvable, SignedByAuthority, IInv, GovernanceTypeOK
    <2> QED
      BY <2>1, NoAccountAssumption
  <1>4. ASSUME NEW signer \in Keys, SignedByAuthority(signer), UNCHANGED config
        PROVE  config' # NoAccount
    BY <1>4 DEF SignedByAuthority
  <1>5. ASSUME NEW signer \in Keys, NEW slot \in Kinds, VetoChange(signer, slot)
        PROVE  UNCHANGED <<config, governance>>
    BY <1>5 DEF VetoChange
  <1> QED
    BY <1>1, <1>2, <1>3, <1>4, <1>5
       DEF Instruction, InitializeGovernance, SetGuardian, SetTimelockDelay,
           QueueTransferAuthority, QueueSetVaultAuthority, QueueUpdateTiers, Queue

\* The Governance account is created and rewritten, never taken away.
LEMMA GovernanceStays ==
  ASSUME IInv, Instruction
  PROVE  governance' \in GovernanceAccount \cup {governance}
  <1>1. ASSUME NEW signer \in Keys, NEW guardian \in AnyKey, NEW delay \in Delays,
               InitializeGovernance(signer, guardian, delay)
        PROVE  governance' \in GovernanceAccount
    BY <1>1, InputsAssumption DEF InitializeGovernance, IndependentKey, AnyKey,
                                 GovernanceAccount
  <1>2. ASSUME NEW signer \in Keys, NEW guardian \in AnyKey, SetGuardian(signer, guardian)
        PROVE  governance' \in GovernanceAccount
    BY <1>2 DEF SetGuardian, IndependentKey, AnyKey, GovernanceAccount, IInv, GovernanceTypeOK
  <1>3. ASSUME NEW signer \in Keys, NEW delay \in Delays, SetTimelockDelay(signer, delay)
        PROVE  governance' \in GovernanceAccount
    BY <1>3, InputsAssumption DEF SetTimelockDelay, GovernanceAccount, IInv, GovernanceTypeOK
  <1> QED
    BY <1>1, <1>2, <1>3
       DEF Instruction, InitializeConfig, SetUnbondPeriod, QueueTransferAuthority,
           QueueSetVaultAuthority, QueueUpdateTiers, Queue, ExecuteChange, VetoChange

\* What a privileged instruction does is within what Capital allows its
\* environment to do.
LEMMA PrivilegedStep ==
  ASSUME IInv, IInv', PrivilegedInstruction
  PROVE  [Cap!Next]_(Cap!vars)
  <1>1. Instruction /\ UNCHANGED <<now, builder, listing, token>>
    BY DEF PrivilegedInstruction, Instruction, InitializeConfig, SetUnbondPeriod,
           InitializeGovernance, SetGuardian, SetTimelockDelay, Queue, ExecuteChange,
           QueueTransferAuthority, QueueSetVaultAuthority, QueueUpdateTiers, VetoChange
  <1>2. CASE UNCHANGED <<config, governance>>
    BY <1>1, <1>2 DEF Cap!vars
  <1>3. CASE config' # NoAccount
    <2>1. config' \in ValidConfigs
      BY <1>3 DEF IInv, GovernanceTypeOK, ConfigStaysValid, ValidConfigs
    <2>2. governance' \in GovernanceAccount \cup {governance}
      BY <1>1, GovernanceStays
    <2>3. Cap!Reconfigure
      BY <1>1, <2>1, <2>2 DEF Cap!Reconfigure
    <2> QED
      BY <2>3 DEF Cap!Next, Cap!Environment
  <1> QED
    BY <1>1, <1>2, <1>3, InstructionConfigures

LEMMA CapitalStep ==
  ASSUME IInv, IInv', [RegistryNext]_registryVars
  PROVE  [Cap!Next]_(Cap!vars)
  <1>1. CASE PrivilegedInstruction
    BY <1>1, PrivilegedStep
  <1>2. CASE BondInstruction \/ ListingInstruction \/ AumInstruction
    BY <1>2 DEF BondInstruction, ListingInstruction, AumInstruction, Cap!Next
  <1>3. CASE AnybodyTransfers
    BY <1>3 DEF AnybodyTransfers, Cap!Next, Cap!Environment
  <1>4. CASE RegistryTick
    BY <1>4 DEF RegistryTick, Tick, Cap!Tick, Cap!Next, Cap!Environment
  <1>5. CASE UNCHANGED registryVars
    BY <1>5 DEF registryVars, Cap!vars
  <1> QED
    BY <1>1, <1>2, <1>3, <1>4, <1>5 DEF RegistryNext

\* The program implements Capital: governance only ever moves the configuration
\* to a valid one and never takes the guardian account away, so everything that
\* holds of builders, listings and AUM against Capital's arbitrary environment
\* holds against the real instructions.
THEOREM CapitalImplemented == RegistrySpec => ImplementsCapital
  <1>1. RegistryInit => Cap!Init
    BY DEF RegistryInit
  <1> QED
    BY <1>1, CapitalStep, GovernanceInvariant, PTL
       DEF RegistrySpec, ImplementsCapital, Cap!Spec

-----------------------------------------------------------------------------
\* What is proved of Capital, with the constants that the program gives it.  Cap and
\* CapP are instances of the same definitions; the lemmas of this section say so.

CapP == INSTANCE LifecycleProofs WITH
  Configs     <- ValidConfigs,
  Governances <- GovernanceAccount

LEMMA SameInit == Cap!Init => CapP!Init
  BY DEF Cap!Indices, CapP!Indices, Cap!BondVault, CapP!BondVault, Cap!BondVaults,
         CapP!BondVaults, Cap!TokenAccounts, CapP!TokenAccounts, Cap!Init, CapP!Init

LEMMA SameBondStep == Cap!BondStep => CapP!BondStep
  <1> USE DEF Cap!BondVault, CapP!BondVault, Cap!BondVaults, CapP!BondVaults,
              Cap!TokenAccounts, CapP!TokenAccounts, Cap!Exists, CapP!Exists,
              Cap!IsUnbonding, CapP!IsUnbonding, Cap!SignedByAuthority,
              CapP!SignedByAuthority, Cap!CanPay, CapP!CanPay, Cap!Transfer, CapP!Transfer,
              Cap!CanReceive, CapP!CanReceive, Cap!TierCount, CapP!TierCount,
              Cap!TierForBond, CapP!TierForBond, Cap!CeilingForTier, CapP!CeilingForTier,
              Cap!SlashTraderBps, CapP!SlashTraderBps, Cap!BpsDenominator,
              CapP!BpsDenominator, Cap!Rebonded, CapP!Rebonded, Cap!PeriodElapsed,
              CapP!PeriodElapsed, Cap!RemainderCovers, CapP!RemainderCovers, Cap!Withdrawn,
              CapP!Withdrawn, Cap!TraderCut, CapP!TraderCut, Cap!BuybackCut,
              CapP!BuybackCut, Cap!Slashed, CapP!Slashed
  <1>1. ASSUME NEW b, Cap!RegisterBuilder(b)
        PROVE  CapP!RegisterBuilder(b)
    BY <1>1 DEF Cap!RegisterBuilder, CapP!RegisterBuilder
  <1>2. ASSUME NEW b, Cap!RequestUnbond(b)
        PROVE  CapP!RequestUnbond(b)
    BY <1>2 DEF Cap!RequestUnbond, CapP!RequestUnbond
  <1>3. ASSUME NEW b, Cap!CancelUnbond(b)
        PROVE  CapP!CancelUnbond(b)
    BY <1>3 DEF Cap!CancelUnbond, CapP!CancelUnbond
  <1>4. ASSUME NEW b, NEW source, NEW amount, Cap!StakeBond(b, source, amount)
        PROVE  CapP!StakeBond(b, source, amount)
    BY <1>4 DEF Cap!StakeBond, CapP!StakeBond
  <1>5. ASSUME NEW b, NEW destination, NEW amount, Cap!WithdrawBond(b, destination, amount)
        PROVE  CapP!WithdrawBond(b, destination, amount)
    BY <1>5 DEF Cap!WithdrawBond, CapP!WithdrawBond
  <1>6. ASSUME NEW signer, NEW b, NEW traders, NEW buyback, NEW amount,
               Cap!SlashBond(signer, b, traders, buyback, amount)
        PROVE  CapP!SlashBond(signer, b, traders, buyback, amount)
    BY <1>6 DEF Cap!SlashBond, CapP!SlashBond
  <1> QED
    BY <1>1, <1>2, <1>3, <1>4, <1>5, <1>6 DEF Cap!BondStep, CapP!BondStep

LEMMA SameListingStep == Cap!ListingStep => CapP!ListingStep
  <1> USE DEF Cap!Indices, CapP!Indices, Cap!Exists, CapP!Exists, Cap!IsUnbonding,
              CapP!IsUnbonding, Cap!SignedByAuthority, CapP!SignedByAuthority,
              Cap!MaxListingFeeBps, CapP!MaxListingFeeBps, Cap!MaxPerformanceFeeBps,
              CapP!MaxPerformanceFeeBps, Cap!MinBuilderSplitBps, CapP!MinBuilderSplitBps,
              Cap!MaxBps, CapP!MaxBps, Cap!ZeroFees, CapP!ZeroFees, Cap!Validate,
              CapP!Validate, Cap!HasListing, CapP!HasListing, Cap!Counted, CapP!Counted,
              Cap!Approved, CapP!Approved, Cap!BuilderOrAuthority, CapP!BuilderOrAuthority,
              Cap!MoveTo, CapP!MoveTo, Cap!Resumable, CapP!Resumable, Cap!Drained,
              CapP!Drained
  <1>1. ASSUME NEW b, NEW bot, Cap!SubmitListing(b, bot)
        PROVE  CapP!SubmitListing(b, bot)
    BY <1>1 DEF Cap!SubmitListing, CapP!SubmitListing
  <1>2. ASSUME NEW b, NEW i, NEW bot, Cap!RotateAgentAuthority(b, i, bot)
        PROVE  CapP!RotateAgentAuthority(b, i, bot)
    BY <1>2 DEF Cap!RotateAgentAuthority, CapP!RotateAgentAuthority
  <1>3. ASSUME NEW signer, NEW b, NEW i, NEW fees, Cap!ApproveListing(signer, b, i, fees)
        PROVE  CapP!ApproveListing(signer, b, i, fees)
    BY <1>3 DEF Cap!ApproveListing, CapP!ApproveListing
  <1>4. ASSUME NEW signer, NEW b, NEW i, Cap!PauseListing(signer, b, i)
        PROVE  CapP!PauseListing(signer, b, i)
    BY <1>4 DEF Cap!PauseListing, CapP!PauseListing
  <1>5. ASSUME NEW signer, NEW b, NEW i, Cap!GuardianPauseListing(signer, b, i)
        PROVE  CapP!GuardianPauseListing(signer, b, i)
    BY <1>5 DEF Cap!GuardianPauseListing, CapP!GuardianPauseListing
  <1>6. ASSUME NEW signer, NEW b, NEW i, Cap!ResumeListing(signer, b, i)
        PROVE  CapP!ResumeListing(signer, b, i)
    BY <1>6 DEF Cap!ResumeListing, CapP!ResumeListing
  <1>7. ASSUME NEW signer, NEW b, NEW i, Cap!Delist(signer, b, i)
        PROVE  CapP!Delist(signer, b, i)
    BY <1>7 DEF Cap!Delist, CapP!Delist
  <1> QED
    BY <1>1, <1>2, <1>3, <1>4, <1>5, <1>6, <1>7 DEF Cap!ListingStep, CapP!ListingStep

LEMMA SameAumStep == Cap!AumStep => CapP!AumStep
  BY DEF Cap!Indices, CapP!Indices, Cap!IsUnbonding, CapP!IsUnbonding, Cap!TierCount,
         CapP!TierCount, Cap!CeilingForTier, CapP!CeilingForTier, Cap!Deployed,
         CapP!Deployed, Cap!SignedByVault, CapP!SignedByVault, Cap!UnderCeiling,
         CapP!UnderCeiling, Cap!TakesCapital, CapP!TakesCapital, Cap!Entered, CapP!Entered,
         Cap!RecordDeposit, CapP!RecordDeposit, Cap!SaturatingSub, CapP!SaturatingSub,
         Cap!Relieved, CapP!Relieved, Cap!Left, CapP!Left, Cap!RecordWithdrawal,
         CapP!RecordWithdrawal, Cap!AumStep, CapP!AumStep

LEMMA SameEnvironment == Cap!Environment => CapP!Environment
  BY DEF Cap!BondVault, CapP!BondVault, Cap!BondVaults, CapP!BondVaults, Cap!TokenAccounts,
         CapP!TokenAccounts, Cap!Exists, CapP!Exists, Cap!CanPay, CapP!CanPay, Cap!Transfer,
         CapP!Transfer, Cap!CanReceive, CapP!CanReceive, Cap!Reconfigure, CapP!Reconfigure,
         Cap!TokenTransfer, CapP!TokenTransfer, Cap!Tick, CapP!Tick, Cap!Environment,
         CapP!Environment

LEMMA SameCapital == ImplementsCapital => CapP!Spec
  <1>1. [Cap!Next]_(Cap!vars) => [CapP!Next]_(CapP!vars)
    BY SameBondStep, SameListingStep, SameAumStep, SameEnvironment
       DEF Cap!Next, CapP!Next, Cap!vars, CapP!vars
  <1> QED
    BY <1>1, SameInit, PTL DEF ImplementsCapital, Cap!Spec, CapP!Spec

\* What Capital assumes of its constants holds of those that the program gives it.
LEMMA CapitalAssumptions ==
  /\ Builders \subseteq Keys /\ NoKey \notin Keys
  /\ WalletOwner \in [Wallets -> Keys] /\ Wallets \cap CapP!BondVaults = {}
  /\ NoAccount \notin CapP!ConfigAccount
  /\ NoAccount \notin CapP!GovernanceAccount
  /\ NoAccount \notin CapP!BuilderAccount
  /\ NoAccount \notin CapP!ListingAccount
  /\ Amounts \subseteq Nat /\ U16Max \in Nat /\ U32Max \in Nat /\ U64Max \in Nat
  /\ \A c \in ValidConfigs :
       c \in CapP!ConfigAccount /\ CapP!WellShaped(c.tiers) /\ c.unbondPeriod > 0
  /\ GovernanceAccount \subseteq CapP!GovernanceAccount
  /\ FeeConfigs \subseteq CapP!FeeConfig
  /\ WalletBalance \in [Wallets -> Nat]
  /\ MaxTime \in Nat
  <1> USE DEF AnyKey, CapP!AnyKey, TierCount, CapP!TierCount, Cap!TierCount, TierVector,
              CapP!TierVector, TierTable, CapP!TierTable, FeeConfig, CapP!FeeConfig,
              Cap!FeeConfig
  <1>1. Builders \subseteq Keys /\ NoKey \notin Keys
    BY BuildersAssumption, KeysAssumption
  <1>2. WalletOwner \in [Wallets -> Keys] /\ Wallets \cap CapP!BondVaults = {}
    BY WalletsAssumption
       DEF CapP!BondVaults, Cap!BondVaults, Cap!BondVault, CapP!BondVault
  <1>3. /\ NoAccount \notin CapP!ConfigAccount
        /\ NoAccount \notin CapP!GovernanceAccount
        /\ NoAccount \notin CapP!BuilderAccount
        /\ NoAccount \notin CapP!ListingAccount
    BY NoAccountAssumption, EconomyAssumption
       DEF ConfigAccount, CapP!ConfigAccount, GovernanceAccount, CapP!GovernanceAccount,
           Cap!BuilderAccount, CapP!BuilderAccount, Cap!Statuses, CapP!Statuses,
           Cap!ListingAccount, CapP!ListingAccount
  <1>4. /\ \A c \in ValidConfigs :
             c \in CapP!ConfigAccount /\ CapP!WellShaped(c.tiers) /\ c.unbondPeriod > 0
        /\ GovernanceAccount \subseteq CapP!GovernanceAccount
    BY DEF ValidConfigs, ValidTiers, WellShaped, CapP!WellShaped, Increasing,
           CapP!Increasing, ConfigAccount, CapP!ConfigAccount, GovernanceAccount,
           CapP!GovernanceAccount
  <1> QED
    BY <1>1, <1>2, <1>3, <1>4, WalletsAssumption, EconomyAssumption, BoundsAssumption

\* The program meets Capital's guarantees about cover.
LEMMA CoverInherited == RegistrySpec => CapP!CoverLostTwoWays
  <1>1. CapP!Spec => CapP!CoverLostTwoWays
    BY CapitalAssumptions, CapP!CoverHasTwoExits
  <1> QED
    BY <1>1, CapitalImplemented, SameCapital, PTL

LEMMA FreshnessInherited == RegistrySpec => CapP!TierStaleOnlyByUpdate
  <1>1. CapP!Spec => CapP!TierStaleOnlyByUpdate
    BY CapitalAssumptions, CapP!TiersStayFresh
  <1> QED
    BY <1>1, CapitalImplemented, SameCapital, PTL

LEMMA TypesInherited == RegistrySpec => []CapP!TypeOK
  <1>1. CapP!Spec => []CapP!TypeOK
    BY CapitalAssumptions, CapP!CapitalTypes
  <1> QED
    BY <1>1, CapitalImplemented, SameCapital, PTL

LEMMA ConfigurationInherited == RegistrySpec => []CapP!BuildersConfigured
  <1>1. CapP!Spec => []CapP!BuildersConfigured
    BY CapitalAssumptions, CapP!ConfigurationFirst
  <1> QED
    BY <1>1, CapitalImplemented, SameCapital, PTL

-----------------------------------------------------------------------------
\* Cover under the real governance

\* A tier table that replaces another hung in its slot for the least notice.
LEMMA TablesAnnounced ==
  ASSUME IInv, [RegistryNext]_registryVars, config # NoAccount, config'.tiers # config.tiers
  PROVE  AnnouncedTable(config'.tiers)
  <1>1. Instruction
    BY BondKeeps, ListingKeeps, AumKeeps, TransferKeeps
       DEF RegistryNext, registryVars, PrivilegedInstruction, RegistryTick, Tick
  <1>2. config \in ConfigAccount
    BY DEF IInv, GovernanceTypeOK
  <1>3. PICK signer \in Keys, slot \in Kinds : ExecuteChange(signer, slot)
    <2>1. \A signer \in Keys, period \in UnbondPeriods : ~SetUnbondPeriod(signer, period)
      BY <1>2 DEF SetUnbondPeriod, ConfigAccount
    <2> QED
      BY <1>1, <2>1
         DEF Instruction, InitializeConfig, InitializeGovernance, SetGuardian,
             SetTimelockDelay, QueueTransferAuthority, QueueSetVaultAuthority,
             QueueUpdateTiers, Queue, VetoChange
  <1> DEFINE change == pending[slot]
  <1>4. /\ governance # NoAccount /\ change # NoAccount /\ change.kind = slot
        /\ Due(change) /\ config' = Applied(change)
    BY <1>3 DEF ExecuteChange, Resolvable
  <1>5. change \in PendingChange /\ now \in Nat
    BY <1>4 DEF IInv, GovernanceTypeOK
  <1>6. slot = "UpdateTiers" /\ config'.tiers = change.tiers
    BY <1>2, <1>4, <1>5 DEF Applied, Kinds, ConfigAccount, PendingChange
  <1>7. now - change.queuedAt >= MinTimelockDelay
    <2>1. governance.timelockDelay \in Int
      BY <1>4 DEF IInv, GovernanceTypeOK, GovernanceAccount
    <2>2. change.eta \in Int /\ change.queuedAt \in Int
      BY <1>5 DEF PendingChange
    <2>3. change.eta - change.queuedAt >= MinTimelockDelay
      BY <1>4, <2>1, <2>2, BoundsAssumption DEF IInv, PendingHonoursDelay
    <2>4. now >= change.eta
      BY <1>4 DEF Due
    <2> QED
      BY <1>5, <2>2, <2>3, <2>4, BoundsAssumption
  <1> QED
    BY <1>4, <1>6, <1>7 DEF AnnouncedTable

\* The period of a registry that has one is moved by set_unbond_period alone.
LEMMA PeriodSetBy ==
  ASSUME IInv, [RegistryNext]_registryVars, config # NoAccount,
         config'.unbondPeriod # config.unbondPeriod
  PROVE  \E signer \in Keys, period \in UnbondPeriods : SetUnbondPeriod(signer, period)
  <1>1. Instruction
    BY BondKeeps, ListingKeeps, AumKeeps, TransferKeeps
       DEF RegistryNext, registryVars, PrivilegedInstruction, RegistryTick, Tick
  <1>2. ASSUME NEW signer \in Keys, NEW slot \in Kinds, ExecuteChange(signer, slot)
        PROVE  FALSE
    <2>1. pending[slot] \in PendingChange
      BY <1>2 DEF IInv, GovernanceTypeOK, ExecuteChange, Resolvable
    <2> QED
      BY <1>2, <2>1, ChangesKeepThePeriod DEF IInv, ExecuteChange
  <1> QED
    BY <1>1, <1>2
       DEF Instruction, InitializeConfig, InitializeGovernance, SetGuardian,
           SetTimelockDelay, QueueTransferAuthority, QueueSetVaultAuthority,
           QueueUpdateTiers, Queue, VetoChange

LEMMA SameCover ==
  ASSUME NEW b \in Builders
  PROVE  /\ Cap!Exists(b) <=> CapP!Exists(b)
         /\ Cap!TierFresh(b) <=> CapP!TierFresh(b)
         /\ Cap!Covered(b) <=> CapP!Covered(b)
         /\ Cap!Covered(b)' <=> CapP!Covered(b)'
         /\ Cap!TierFresh(b)' <=> CapP!TierFresh(b)'
         /\ CapP!SlashStep(b) => Cap!SlashStep(b)
         /\ CapP!StaleDeposit(b) => Cap!StaleDeposit(b)
  <1> USE DEF Cap!TierCount, CapP!TierCount, Cap!TierForBond, CapP!TierForBond
  <1>1. /\ Cap!Exists(b) <=> CapP!Exists(b)
        /\ Cap!TierFresh(b) <=> CapP!TierFresh(b)
        /\ Cap!TierFresh(b)' <=> CapP!TierFresh(b)'
    BY DEF Cap!Exists, CapP!Exists, Cap!TierFresh, CapP!TierFresh
  <1>2. /\ Cap!Covered(b) <=> CapP!Covered(b)
        /\ Cap!Covered(b)' <=> CapP!Covered(b)'
    BY DEF Cap!CeilingForTier, CapP!CeilingForTier, Cap!Covered, CapP!Covered
  <1>3. ASSUME NEW signer, NEW traders, NEW buyback, NEW amount,
               CapP!SlashBond(signer, b, traders, buyback, amount)
        PROVE  Cap!SlashBond(signer, b, traders, buyback, amount)
    BY <1>3 DEF Cap!BondVault, CapP!BondVault, Cap!BondVaults, CapP!BondVaults,
           Cap!TokenAccounts, CapP!TokenAccounts, Cap!Exists, CapP!Exists,
           Cap!SignedByAuthority, CapP!SignedByAuthority, Cap!CanPay, CapP!CanPay,
           Cap!Transfer, CapP!Transfer, Cap!CanReceive, CapP!CanReceive,
           Cap!SlashTraderBps, CapP!SlashTraderBps, Cap!BpsDenominator,
           CapP!BpsDenominator, Cap!Rebonded, CapP!Rebonded, Cap!TraderCut,
           CapP!TraderCut, Cap!BuybackCut, CapP!BuybackCut, Cap!Slashed, CapP!Slashed,
           Cap!SlashBond, CapP!SlashBond
  <1>4. CapP!SlashStep(b) => Cap!SlashStep(b)
    BY <1>3 DEF Cap!BondVault, CapP!BondVault, Cap!BondVaults, CapP!BondVaults,
                Cap!TokenAccounts, CapP!TokenAccounts, Cap!SlashStep, CapP!SlashStep
  <1>5. ASSUME NEW signer, NEW i, NEW amount, NEW flag,
               CapP!RecordDeposit(signer, b, i, amount, flag)
        PROVE  Cap!RecordDeposit(signer, b, i, amount, flag)
    BY <1>5 DEF Cap!RecordDeposit, CapP!RecordDeposit, Cap!SignedByVault,
           CapP!SignedByVault, Cap!Deployed, CapP!Deployed, Cap!TakesCapital,
           CapP!TakesCapital, Cap!IsUnbonding, CapP!IsUnbonding, Cap!UnderCeiling,
           CapP!UnderCeiling, Cap!CeilingForTier, CapP!CeilingForTier, Cap!Entered,
           CapP!Entered
  <1>6. CapP!StaleDeposit(b) => Cap!StaleDeposit(b)
    BY <1>1, <1>5 DEF Cap!StaleDeposit, CapP!StaleDeposit, Cap!DepositStep,
                      CapP!DepositStep, Cap!Indices, CapP!Indices
  <1> QED
    BY <1>1, <1>2, <1>4, <1>6

\* A step of the program, as Capital sees it.
CoverKept ==
  \A b \in Builders :
    CapP!Exists(b) /\ CapP!Covered(b) /\ config'.tiers = config.tiers
      => CapP!Covered(b)' \/ CapP!SlashStep(b) \/ CapP!StaleDeposit(b)

FreshnessKept ==
  \A b \in Builders :
    /\ CapP!Exists(b)
    /\ config'.tiers = config.tiers
    /\ CapP!TierFresh(b) \/ builder'[b].bond # builder[b].bond
    => CapP!TierFresh(b)'

LEMMA NoticeStep ==
  ASSUME IInv, CapP!BuildersConfigured, [RegistryNext]_registryVars,
         [CoverKept]_(CapP!vars), [FreshnessKept]_(CapP!vars),
         NEW b \in Builders, Cap!Exists(b)
  PROVE  /\ Cap!Covered(b) =>
              \/ Cap!Covered(b)' \/ Cap!SlashStep(b) \/ Cap!StaleDeposit(b)
              \/ AnnouncedTable(config'.tiers)
         /\ Cap!TierFresh(b) => Cap!TierFresh(b)' \/ AnnouncedTable(config'.tiers)
  <1>1. config # NoAccount
    BY SameCover DEF CapP!BuildersConfigured
  <1>2. CASE config'.tiers # config.tiers
    BY <1>1, <1>2, TablesAnnounced
  <1>3. CASE config'.tiers = config.tiers /\ CoverKept /\ FreshnessKept
    BY <1>3, SameCover DEF CoverKept, FreshnessKept
  <1>4. CASE UNCHANGED CapP!vars
    BY <1>4 DEF CapP!vars, Cap!Covered, Cap!TierForBond, Cap!TierFresh
  <1> QED
    BY <1>2, <1>3, <1>4

\* Traders have notice: with every instruction of the program in play, a bond stops
\* covering the capital under it by a slash, by a tier table that hung in its slot for
\* the least delay, or by a deposit on a tier cached under an earlier table; and it
\* is by a table that hung as long that a cached tier goes stale (execute_change,
\* against record_deposit and withdraw_bond, which rely on the table of the moment).
THEOREM CoverLostWithNotice == RegistrySpec => CoverLostOnlyWithNotice
  <1>1. CapP!CoverLostTwoWays => [][CoverKept]_(CapP!vars)
    BY PTL DEF CapP!CoverLostTwoWays, CoverKept
  <1>2. CapP!TierStaleOnlyByUpdate => [][FreshnessKept]_(CapP!vars)
    BY PTL DEF CapP!TierStaleOnlyByUpdate, FreshnessKept
  <1>3. IInv /\ CapP!BuildersConfigured /\ [RegistryNext]_registryVars
          /\ [CoverKept]_(CapP!vars) /\ [FreshnessKept]_(CapP!vars) =>
          [\A b \in Builders : Cap!Exists(b) =>
             /\ Cap!Covered(b) =>
                  \/ Cap!Covered(b)'
                  \/ Cap!SlashStep(b)
                  \/ Cap!StaleDeposit(b)
                  \/ AnnouncedTable(config'.tiers)
             /\ Cap!TierFresh(b) =>
                  Cap!TierFresh(b)' \/ AnnouncedTable(config'.tiers)]_registryVars
    BY NoticeStep
  <1> QED
    BY <1>1, <1>2, <1>3, GovernanceInvariant, CoverInherited, FreshnessInherited,
       ConfigurationInherited, PTL
       DEF RegistrySpec, CoverLostOnlyWithNotice

-----------------------------------------------------------------------------
\* Notice, under the real governance

\* The period is the only thing a step can hold against a request that stays.
LEMMA RequestStep ==
  ASSUME IInv, CapP!TypeOK, CapP!BuildersConfigured, [RegistryNext]_registryVars,
         [CapP!Next]_(CapP!vars), NEW b \in Builders, Cap!Exists(b), NoticeOver(b)
  PROVE  \/ Cap!PeriodElapsed(b)'
         \/ builder'[b].unbondRequestedAt = 0
         \/ /\ now - builder[b].unbondRequestedAt < MaxUnbondPeriod
            /\ \E signer \in Keys, period \in UnbondPeriods : SetUnbondPeriod(signer, period)
  <1>1. /\ config # NoAccount /\ config \in ConfigAccount /\ now \in Nat
        /\ builder[b] \in CapP!BuilderAccount
    BY DEF CapP!BuildersConfigured, CapP!TypeOK, CapP!Exists, Cap!Exists, IInv,
           GovernanceTypeOK
  <1>2. /\ builder[b].unbondRequestedAt \in Nat /\ config.unbondPeriod \in Int
        /\ now - builder[b].unbondRequestedAt >= config.unbondPeriod
    BY <1>1 DEF CapP!BuilderAccount, ConfigAccount, NoticeOver, Cap!PeriodElapsed
  <1>3. \/ builder'[b].unbondRequestedAt = builder[b].unbondRequestedAt
        \/ builder'[b].unbondRequestedAt = 0
    <2>1. CapP!OneBuilder(b)
      BY CapitalAssumptions, CapP!BuilderShape
    <2> QED
      BY <2>1
         DEF CapP!OneBuilder, CapP!Born, CapP!Written, CapP!Staked, CapP!Asked,
             CapP!Cancelled, CapP!Withdrew, CapP!LostToSlash, CapP!Listed, CapP!Entrusted,
             CapP!RelievedOf, CapP!Keeps, CapP!IsUnbonding, NoticeOver, Cap!IsUnbonding
  <1>4. now' \in Nat /\ now' >= now
    BY <1>1, BondKeeps, ListingKeeps, AumKeeps, TransferKeeps
       DEF RegistryNext, registryVars, RegistryTick, Tick, PrivilegedInstruction,
           Instruction, InitializeConfig, SetUnbondPeriod, InitializeGovernance,
           SetGuardian, SetTimelockDelay, QueueTransferAuthority, QueueSetVaultAuthority,
           QueueUpdateTiers, Queue, ExecuteChange, VetoChange
  <1>5. CASE config'.unbondPeriod = config.unbondPeriod
    BY <1>1, <1>2, <1>3, <1>4, <1>5 DEF Cap!PeriodElapsed
  <1>6. CASE config'.unbondPeriod # config.unbondPeriod
    <2>1. PICK signer \in Keys, period \in UnbondPeriods : SetUnbondPeriod(signer, period)
      BY <1>1, <1>6, PeriodSetBy
    <2>2. config'.unbondPeriod \in Int /\ config'.unbondPeriod <= MaxUnbondPeriod
      BY <1>1, <1>6, GovernanceStep, PeriodMoves DEF IInv
    <2>3. CASE now - builder[b].unbondRequestedAt < MaxUnbondPeriod
      BY <2>1, <2>3
    <2>4. CASE now - builder[b].unbondRequestedAt >= MaxUnbondPeriod
      BY <1>1, <1>2, <1>3, <1>4, <2>2, <2>4, BoundsAssumption DEF Cap!PeriodElapsed
    <2> QED
      BY <1>1, <1>2, <2>3, <2>4, BoundsAssumption
  <1> QED
    BY <1>5, <1>6

\* A request whose notice is over stays served, whatever anybody does, but for one
\* longer period after another, and for none of them once it is MAX_UNBOND_PERIOD old
\* (set_unbond_period, request_unbond, withdraw_bond).
THEOREM NoticeStands == RegistrySpec => ServedNoticeStands
  <1>1. IInv /\ CapP!TypeOK /\ CapP!BuildersConfigured /\ [RegistryNext]_registryVars
          /\ [CapP!Next]_(CapP!vars) =>
          [\A b \in Builders : Cap!Exists(b) /\ NoticeOver(b) =>
             \/ Cap!PeriodElapsed(b)'
             \/ builder'[b].unbondRequestedAt = 0
             \/ /\ now - builder[b].unbondRequestedAt < MaxUnbondPeriod
                /\ \E signer \in Keys, period \in UnbondPeriods :
                     SetUnbondPeriod(signer, period)]_registryVars
    BY RequestStep
  <1> QED
    BY <1>1, GovernanceInvariant, TypesInherited, ConfigurationInherited,
       CapitalImplemented, SameCapital, PTL
       DEF RegistrySpec, ServedNoticeStands, CapP!Spec

-----------------------------------------------------------------------------
\* Capital's promises, kept by the program

LEMMA SameSums ==
  ASSUME NEW b
  PROVE  Cap!SumOfAum(b) = CapP!SumOfAum(b)
  <1> DEFINE aums == [i \in Cap!Indices |-> Cap!AumOf(listing[b][i])]
  <1>1. /\ Cap!Indices = CapP!Indices
        /\ aums = [i \in CapP!Indices |-> CapP!AumOf(listing[b][i])]
    BY DEF Cap!Indices, CapP!Indices, Cap!AumOf, CapP!AumOf
  <1>2. ASSUME NEW fun, NEW S
        PROVE  Cap!SumFunctionOnSet(fun, S) = CapP!SumFunctionOnSet(fun, S)
    BY DEF Cap!SumFunctionOnSet, CapP!SumFunctionOnSet, Cap!FoldFunctionOnSet,
           CapP!FoldFunctionOnSet, Cap!MapThenFoldSet, CapP!MapThenFoldSet
  <1>3. CapP!SumOfAum(b) = CapP!SumFunctionOnSet(aums, Cap!Indices)
    BY <1>1 DEF CapP!SumOfAum
  <1>4. Cap!SumOfAum(b) = Cap!SumFunctionOnSet(aums, Cap!Indices)
    BY DEF Cap!SumOfAum
  <1> HIDE DEF aums
  <1> QED
    BY <1>2, <1>3, <1>4

\* What the instructions of builders, listings and AUM promise, they promise with
\* the privileged instructions around them: bonds are backed by their escrows,
\* capital sits under fees within the guardrails, listing indices have no gaps, and
\* the total that ceilings are compared with never exceeds the listings' AUM.
THEOREM CapitalStaysSound ==
  RegistrySpec => [](/\ Cap!BondsBacked /\ Cap!CapitalUnderGuardrails
                     /\ Cap!IndicesContiguous /\ Cap!TotalAumWithinSum)
  <1>1. CapP!Spec => [](/\ CapP!BondsBacked /\ CapP!CapitalUnderGuardrails
                        /\ CapP!IndicesContiguous /\ CapP!TotalAumWithinSum)
    <2>1. CapP!Spec => []CapP!BondsBacked
      BY CapitalAssumptions, CapP!Solvency
    <2>2. CapP!Spec => []CapP!CapitalUnderGuardrails
      BY CapitalAssumptions, CapP!GuardrailsHold
    <2>3. CapP!Spec => []CapP!IndicesContiguous
      BY CapitalAssumptions, CapP!IndicesHaveNoGaps
    <2>4. CapP!Spec => []CapP!TotalAumWithinSum
      BY CapitalAssumptions, CapP!TotalNeverAboveSum
    <2> QED
      BY <2>1, <2>2, <2>3, <2>4, PTL
  <1>2. CapP!BondsBacked => Cap!BondsBacked
    BY DEF CapP!BondsBacked, Cap!BondsBacked, CapP!Exists, Cap!Exists, CapP!BondVault,
           Cap!BondVault
  <1>3. CapP!CapitalUnderGuardrails => Cap!CapitalUnderGuardrails
    <2>1. ASSUME NEW fees, CapP!Validate(fees)
          PROVE  Cap!Validate(fees)
      BY <2>1 DEF CapP!Validate, Cap!Validate, Cap!MaxListingFeeBps, CapP!MaxListingFeeBps,
                  Cap!MaxPerformanceFeeBps, CapP!MaxPerformanceFeeBps, Cap!MinBuilderSplitBps,
                  CapP!MinBuilderSplitBps, Cap!MaxBps, CapP!MaxBps
    <2> QED
      BY <2>1 DEF CapP!CapitalUnderGuardrails, Cap!CapitalUnderGuardrails, CapP!HasListing,
                  Cap!HasListing, CapP!Indices, Cap!Indices
  <1>4. CapP!IndicesContiguous => Cap!IndicesContiguous
    BY DEF CapP!IndicesContiguous, Cap!IndicesContiguous, CapP!HasListing,
           Cap!HasListing, CapP!Indices, Cap!Indices, CapP!Exists, Cap!Exists
  <1>5. CapP!TotalAumWithinSum => Cap!TotalAumWithinSum
    BY SameSums DEF CapP!TotalAumWithinSum, Cap!TotalAumWithinSum, CapP!Exists, Cap!Exists
  <1> QED
    BY <1>1, <1>2, <1>3, <1>4, <1>5, CapitalImplemented, SameCapital, PTL

\* Nor can a privileged instruction do what no other may: only a new tier table makes
\* a builder's cached tier stale (execute_change re-tiers nobody), until the bond
\* moves, and nothing brings
\* a delisted listing back or puts capital under it (resume_listing, record_deposit).
THEOREM CapitalStepsStaySound ==
  RegistrySpec => Cap!TierStaleOnlyByUpdate /\ Cap!DelistedIsFinal
  <1>1. CapP!Spec => CapP!TierStaleOnlyByUpdate
    BY CapitalAssumptions, CapP!TiersStayFresh
  <1>2. CapP!Spec => CapP!DelistedIsFinal
    BY CapitalAssumptions, CapP!DelistingIsFinal
  <1>3. CapP!TierStaleOnlyByUpdate => Cap!TierStaleOnlyByUpdate
    <2>1. [ \A b \in Builders :
              /\ CapP!Exists(b)
              /\ config'.tiers = config.tiers
              /\ CapP!TierFresh(b) \/ builder'[b].bond # builder[b].bond
              => CapP!TierFresh(b)' ]_(CapP!vars)
          => [ \A b \in Builders :
                 /\ Cap!Exists(b)
                 /\ config'.tiers = config.tiers
                 /\ Cap!TierFresh(b) \/ builder'[b].bond # builder[b].bond
                 => Cap!TierFresh(b)' ]_(Cap!vars)
      BY DEF CapP!vars, Cap!vars, CapP!Exists, Cap!Exists, CapP!TierFresh, Cap!TierFresh,
             CapP!TierForBond, Cap!TierForBond, CapP!TierCount, Cap!TierCount
    <2> QED
      BY <2>1, PTL DEF CapP!TierStaleOnlyByUpdate, Cap!TierStaleOnlyByUpdate
  <1>4. CapP!DelistedIsFinal => Cap!DelistedIsFinal
    <2>1. [ \A b \in Builders, i \in CapP!Indices :
              CapP!HasListing(b, i) /\ listing[b][i].status = "Delisted" =>
                /\ listing[b][i].aum = 0
                /\ listing'[b][i] =
                     [listing[b][i] EXCEPT !.vaultCount = listing'[b][i].vaultCount] ]_(CapP!vars)
          => [ \A b \in Builders, i \in Cap!Indices :
                 Cap!HasListing(b, i) /\ listing[b][i].status = "Delisted" =>
                   /\ listing[b][i].aum = 0
                   /\ listing'[b][i] =
                        [listing[b][i] EXCEPT !.vaultCount = listing'[b][i].vaultCount] ]_(Cap!vars)
      BY DEF CapP!vars, Cap!vars, CapP!HasListing, Cap!HasListing, CapP!Indices, Cap!Indices
    <2> QED
      BY <2>1, PTL DEF CapP!DelistedIsFinal, Cap!DelistedIsFinal
  <1> QED
    BY <1>1, <1>2, <1>3, <1>4, CapitalImplemented, SameCapital, PTL
=============================================================================
