--------------------------- MODULE LifecycleProofs ---------------------------
(***************************************************************************)
(* Theorems about the lives of builders and of their listings, for every   *)
(* value of Capital's constants: what a bond covers stays covered,         *)
(* approval is not bypassed, indices have no gaps, delisting is final, and *)
(* the total of a builder never exceeds the sum of its listings' AUM.      *)
(***************************************************************************)
EXTENDS CapitalProofs, FiniteSetTheorems

-----------------------------------------------------------------------------
\* Operators

\* A larger bond deserves no lower tier.
LEMMA TierMonotone ==
  ASSUME NEW table \in TierTable, NEW n \in Nat, NEW m \in Nat, n <= m
  PROVE  TierForBond(table, n) <= TierForBond(table, m)
  <1> DEFINE s == TierForBond(table, n)
             t == TierForBond(table, m)
  <1>1. /\ s \in 0..TierCount /\ t \in 0..TierCount
        /\ s > 0 => n >= table.bonds[s]
        /\ \A i \in (t + 1)..TierCount : m < table.bonds[i]
    BY TierForBondSpec
  <1> HIDE DEF s, t
  <1>2. \A i \in 1..TierCount : table.bonds[i] \in Nat
    BY DEF TierTable, TierVector
  <1>3. ASSUME s > t PROVE FALSE
    <2>1. s \in (t + 1)..TierCount /\ s \in 1..TierCount
      BY <1>1, <1>3 DEF TierCount
    <2> QED
      BY <1>1, <1>2, <2>1
  <1>4. s <= t
    BY <1>1, <1>3 DEF TierCount
  <1> QED
    BY <1>4 DEF s, t

\* A higher tier has no lower ceiling.
LEMMA CeilingMonotone ==
  ASSUME NEW table \in TierTable, Increasing(table.ceilings),
         NEW s \in 0..TierCount, NEW t \in 0..TierCount, s <= t
  PROVE  /\ CeilingForTier(table, s) \in Nat
         /\ CeilingForTier(table, t) \in Nat
         /\ CeilingForTier(table, s) <= CeilingForTier(table, t)
  <1>1. /\ table.ceilings[1] \in Nat /\ table.ceilings[2] \in Nat /\ table.ceilings[3] \in Nat
        /\ table.ceilings[1] < table.ceilings[2] /\ table.ceilings[2] < table.ceilings[3]
    BY DEF TierTable, TierVector, Increasing, TierCount
  <1>2. s \in {0, 1, 2, 3} /\ t \in {0, 1, 2, 3}
    BY DEF TierCount
  <1> QED
    BY <1>1, <1>2 DEF CeilingForTier, TierCount

-----------------------------------------------------------------------------
\* What one step does to one builder

\* Nothing but what is named changes.
Keeps(c, fields) ==
  /\ "bond" \in fields => builder'[c].bond = builder[c].bond /\ builder'[c].tier = builder[c].tier
  /\ "total" \in fields => builder'[c].totalAum = builder[c].totalAum
  /\ "request" \in fields => builder'[c].unbondRequestedAt = builder[c].unbondRequestedAt
  /\ "count" \in fields => builder'[c].agentCount = builder[c].agentCount

Retiered(c) ==
  config # NoAccount /\ builder'[c].tier = TierForBond(config.tiers, builder'[c].bond)

Staked(c) ==
  /\ ~IsUnbonding(c)
  /\ builder'[c].bond >= builder[c].bond
  /\ Retiered(c)
  /\ Keeps(c, {"total", "request", "count"})

Asked(c) ==
  /\ ~IsUnbonding(c)
  /\ builder'[c].unbondRequestedAt = now
  /\ Keeps(c, {"bond", "total", "count"})

Cancelled(c) == builder'[c].unbondRequestedAt = 0 /\ Keeps(c, {"bond", "total", "count"})

Withdrew(c) ==
  /\ builder'[c].bond <= builder[c].bond
  /\ RemainderCovers(c, builder'[c].bond)
  /\ Retiered(c)
  /\ builder'[c].unbondRequestedAt = 0
  /\ Keeps(c, {"total", "count"})

LostToSlash(c) ==
  /\ SlashStep(c)
  /\ builder'[c].bond <= builder[c].bond
  /\ Retiered(c)
  /\ Keeps(c, {"total", "request", "count"})

Listed(c) ==
  /\ ~IsUnbonding(c)
  /\ builder'[c].agentCount = builder[c].agentCount + 1
  /\ \A j \in Indices : j = builder[c].agentCount => listing'[c][j] # NoAccount
  /\ Keeps(c, {"bond", "total", "request"})

Entrusted(c) ==
  /\ DepositStep(c)
  /\ ~IsUnbonding(c)
  /\ UnderCeiling(c, builder'[c].totalAum)
  /\ Keeps(c, {"bond", "request", "count"})

RelievedOf(c) ==
  /\ config # NoAccount
  /\ builder'[c].totalAum <= builder[c].totalAum
  /\ Keeps(c, {"bond", "request", "count"})

Born(c) ==
  /\ ~Exists(c)
  /\ config' # NoAccount
  /\ builder'[c].unbondRequestedAt = 0
  /\ builder'[c].agentCount = 0

\* A step that writes a builder leaves the configuration alone.
Written(c) ==
  /\ Exists(c)
  /\ builder'[c] # NoAccount
  /\ config' = config
  /\ \/ Staked(c) \/ Asked(c) \/ Cancelled(c) \/ Withdrew(c) \/ LostToSlash(c)
     \/ Listed(c) \/ Entrusted(c) \/ RelievedOf(c)

OneBuilder(c) == builder'[c] = builder[c] \/ Born(c) \/ Written(c)

LEMMA RegisterShape ==
  ASSUME TypeOK, NEW b \in Builders, RegisterBuilder(b), NEW c \in Builders
  PROVE  OneBuilder(c)
  <1>1. CASE c = b
    BY <1>1 DEF RegisterBuilder, TypeOK, OneBuilder, Born
  <1>2. CASE c # b
    BY <1>2 DEF RegisterBuilder, TypeOK, OneBuilder
  <1> QED
    BY <1>1, <1>2

\* A write of one builder is all that happens to the builders.
LEMMA WriteShape ==
  ASSUME TypeOK, NEW b \in Builders, NEW new, builder' = [builder EXCEPT ![b] = new],
         builder'[b] = new => Written(b), NEW c \in Builders
  PROVE  OneBuilder(c)
  <1>1. builder'[b] = new /\ (c # b => builder'[c] = builder[c])
    BY DEF TypeOK
  <1> QED
    BY <1>1 DEF OneBuilder

LEMMA StakeShape ==
  ASSUME TypeOK, NEW b \in Builders, NEW source \in Wallets, NEW amount \in Amounts,
         StakeBond(b, source, amount), NEW c \in Builders
  PROVE  OneBuilder(c)
  <1> DEFINE new == Rebonded(b, builder[b].bond + amount)
  <1>1. /\ config # NoAccount /\ Exists(b) /\ ~IsUnbonding(b) /\ config' = config
        /\ builder' = [builder EXCEPT ![b] = new]
    BY DEF StakeBond
  <1>2. builder[b] \in BuilderAccount /\ amount \in Nat
    BY <1>1, NumbersAssumption DEF TypeOK, Exists
  <1>3. builder[b].bond \in Nat /\ builder[b].bond + amount \in Nat
    BY <1>2 DEF BuilderAccount
  <1>4. new \in BuilderAccount /\ new.bond = builder[b].bond + amount
    BY <1>1, <1>3, RebondedType
  <1>5. /\ new.tier = TierForBond(config.tiers, new.bond)
        /\ new.totalAum = builder[b].totalAum /\ new.agentCount = builder[b].agentCount
        /\ new.unbondRequestedAt = builder[b].unbondRequestedAt
    BY <1>2, <1>4 DEF Rebonded, BuilderAccount
  <1> HIDE DEF new
  <1>6. builder'[b] = new => Written(b)
    BY <1>1, <1>2, <1>3, <1>4, <1>5, NoAccountAssumption
       DEF Written, Staked, Retiered, Keeps
  <1> QED
    BY <1>1, <1>6, WriteShape

LEMMA UnbondShape ==
  ASSUME TypeOK, NEW b \in Builders, RequestUnbond(b) \/ CancelUnbond(b), NEW c \in Builders
  PROVE  OneBuilder(c)
  <1>1. ASSUME NEW t \in Nat, Exists(b), config' = config,
               (t = now /\ ~IsUnbonding(b)) \/ t = 0,
               builder' = [builder EXCEPT ![b] = [builder[b] EXCEPT !.unbondRequestedAt = t]]
        PROVE  OneBuilder(c)
    <2> DEFINE new == [builder[b] EXCEPT !.unbondRequestedAt = t]
    <2>1. builder[b] \in BuilderAccount
      BY <1>1 DEF TypeOK, Exists
    <2>2. /\ new \in BuilderAccount /\ new.unbondRequestedAt = t
          /\ new.bond = builder[b].bond /\ new.tier = builder[b].tier
          /\ new.totalAum = builder[b].totalAum /\ new.agentCount = builder[b].agentCount
      BY <2>1 DEF BuilderAccount
    <2>3. builder' = [builder EXCEPT ![b] = new]
      BY <1>1
    <2> HIDE DEF new
    <2>4. builder'[b] = new => Written(b)
      BY <1>1, <2>2, NoAccountAssumption DEF Written, Asked, Cancelled, Keeps
    <2> QED
      BY <2>3, <2>4, WriteShape
  <1>2. now \in Nat
    BY DEF TypeOK
  <1> QED
    BY <1>1, <1>2 DEF RequestUnbond, CancelUnbond

LEMMA WithdrawShape ==
  ASSUME TypeOK, NEW b \in Builders, NEW destination \in TokenAccounts,
         NEW amount \in Amounts, WithdrawBond(b, destination, amount), NEW c \in Builders
  PROVE  OneBuilder(c)
  <1> DEFINE new == Withdrawn(b, builder[b].bond - amount)
  <1>1. /\ config # NoAccount /\ Exists(b) /\ config' = config
        /\ amount <= builder[b].bond /\ RemainderCovers(b, builder[b].bond - amount)
        /\ builder' = [builder EXCEPT ![b] = new]
    BY DEF WithdrawBond
  <1>2. builder[b] \in BuilderAccount /\ amount \in Nat
    BY <1>1, NumbersAssumption DEF TypeOK, Exists
  <1>3. builder[b].bond \in Nat /\ builder[b].bond - amount \in Nat
    BY <1>1, <1>2 DEF BuilderAccount
  <1>4. new \in BuilderAccount /\ new.bond = builder[b].bond - amount
    BY <1>1, <1>3, RebondedType
  <1>5. /\ new.tier = TierForBond(config.tiers, new.bond)
        /\ new.totalAum = builder[b].totalAum /\ new.agentCount = builder[b].agentCount
        /\ new.unbondRequestedAt = 0
    BY <1>2, <1>4 DEF Withdrawn, Rebonded, BuilderAccount
  <1> HIDE DEF new
  <1>6. builder'[b] = new => Written(b)
    BY <1>1, <1>2, <1>3, <1>4, <1>5, NoAccountAssumption
       DEF Written, Withdrew, Retiered, Keeps
  <1> QED
    BY <1>1, <1>6, WriteShape

LEMMA SlashShape ==
  ASSUME TypeOK, NEW signer \in Keys, NEW b \in Builders,
         NEW traders \in TokenAccounts, NEW buyback \in TokenAccounts,
         NEW amount \in Amounts, SlashBond(signer, b, traders, buyback, amount),
         NEW c \in Builders
  PROVE  OneBuilder(c)
  <1> DEFINE new == Slashed(b, amount)
  <1>1. /\ config # NoAccount /\ Exists(b) /\ config' = config
        /\ amount <= builder[b].bond
        /\ builder' = [builder EXCEPT ![b] = new]
    BY DEF SlashBond, SignedByAuthority
  <1>2. builder[b] \in BuilderAccount /\ amount \in Nat
    BY <1>1, NumbersAssumption DEF TypeOK, Exists
  <1>3. builder[b].bond \in Nat /\ builder[b].bond - amount \in Nat
    BY <1>1, <1>2 DEF BuilderAccount
  <1>4. new \in BuilderAccount /\ new.bond = builder[b].bond - amount
    BY <1>1, <1>2, SlashedType
  <1>5. /\ new.tier = TierForBond(config.tiers, new.bond)
        /\ new.totalAum = builder[b].totalAum /\ new.agentCount = builder[b].agentCount
        /\ new.unbondRequestedAt = builder[b].unbondRequestedAt
    BY <1>2, <1>4 DEF Slashed, Rebonded, BuilderAccount
  <1>6. SlashStep(b)
    BY DEF SlashStep
  <1> HIDE DEF new
  <1>7. builder'[b] = new => Written(b)
    BY <1>1, <1>2, <1>3, <1>4, <1>5, <1>6, NoAccountAssumption
       DEF Written, LostToSlash, Retiered, Keeps
  <1> QED
    BY <1>1, <1>7, WriteShape

LEMMA SubmitShape ==
  ASSUME TypeOK, NEW b \in Builders, NEW bot \in BotKeys, SubmitListing(b, bot),
         NEW c \in Builders
  PROVE  OneBuilder(c)
  <1>0. PICK index : index = builder[b].agentCount
    OBVIOUS
  <1> DEFINE first == [agentAuthority |-> bot, status |-> "Vetting", fees |-> ZeroFees,
                       aum |-> 0, vaultCount |-> 0]
             new == Counted(b, index)
  <1>1. /\ Exists(b) /\ ~IsUnbonding(b) /\ config' = config
        /\ listing' = [listing EXCEPT ![b][index] = first]
        /\ builder' = [builder EXCEPT ![b] = new]
    BY <1>0 DEF SubmitListing
  <1>2. builder[b] \in BuilderAccount
    BY <1>1 DEF TypeOK, Exists
  <1>3. first \in ListingAccount
    BY NumbersAssumption DEF ListingAccount, Statuses, ZeroFees, FeeConfig
  <1>4. \A j \in Indices : j = index => listing'[b][j] # NoAccount
    <2> HIDE DEF first
    <2> QED
      BY <1>1, <1>3, NoAccountAssumption DEF TypeOK
  <1>5. index \in Nat /\ index < U16Max
    BY <1>0, <1>2 DEF SubmitListing, BuilderAccount
  <1>6. /\ new \in BuilderAccount /\ new.agentCount = index + 1
        /\ new.bond = builder[b].bond /\ new.tier = builder[b].tier
        /\ new.totalAum = builder[b].totalAum
        /\ new.unbondRequestedAt = builder[b].unbondRequestedAt
    BY <1>2, <1>5, NumbersAssumption DEF Counted, BuilderAccount
  <1> HIDE DEF new, first
  <1>7. builder'[b] = new => Written(b)
    BY <1>0, <1>1, <1>4, <1>6, NoAccountAssumption DEF Written, Listed, Keeps
  <1> QED
    BY <1>1, <1>7, WriteShape

LEMMA AumShape ==
  ASSUME TypeOK, AumStep, NEW c \in Builders
  PROVE  OneBuilder(c)
  <1>1. ASSUME NEW b \in Builders, Exists(b), NEW total \in Nat, config' = config,
               builder' = [builder EXCEPT ![b] = [builder[b] EXCEPT !.totalAum = total]],
               \/ DepositStep(b) /\ ~IsUnbonding(b) /\ UnderCeiling(b, total)
               \/ config # NoAccount /\ total <= builder[b].totalAum
        PROVE  OneBuilder(c)
    <2> DEFINE new == [builder[b] EXCEPT !.totalAum = total]
    <2>1. builder[b] \in BuilderAccount
      BY <1>1 DEF TypeOK, Exists
    <2>2. /\ new \in BuilderAccount /\ new.totalAum = total
          /\ new.bond = builder[b].bond /\ new.tier = builder[b].tier
          /\ new.agentCount = builder[b].agentCount
          /\ new.unbondRequestedAt = builder[b].unbondRequestedAt
      BY <2>1 DEF BuilderAccount
    <2>3. builder' = [builder EXCEPT ![b] = new]
      BY <1>1
    <2> HIDE DEF new
    <2>4. builder'[b] = new => Written(b)
      BY <1>1, <2>2, NoAccountAssumption DEF Written, Entrusted, RelievedOf, Keeps
    <2> QED
      BY <2>3, <2>4, WriteShape
  <1>2. ASSUME NEW signer \in Keys, NEW b \in Builders, NEW i \in Indices,
               NEW amount \in Amounts, NEW flag \in BOOLEAN,
               RecordDeposit(signer, b, i, amount, flag)
        PROVE  OneBuilder(c)
    <2> DEFINE total == builder[b].totalAum + amount
    <2>1. /\ Exists(b) /\ config' = config /\ ~IsUnbonding(b) /\ UnderCeiling(b, total)
          /\ builder' = [builder EXCEPT ![b] = [builder[b] EXCEPT !.totalAum = total]]
      BY <1>2 DEF RecordDeposit, Deployed, Exists, TakesCapital
    <2>2. builder[b] \in BuilderAccount /\ amount \in Nat
      BY <2>1, NumbersAssumption DEF TypeOK, Exists
    <2>3. total \in Nat
      BY <2>2 DEF BuilderAccount
    <2>4. DepositStep(b)
      BY <1>2 DEF DepositStep
    <2> HIDE DEF total
    <2> QED
      BY <1>1, <2>1, <2>3, <2>4
  <1>3. ASSUME NEW signer \in Keys, NEW b \in Builders, NEW i \in Indices,
               NEW amount \in Amounts, NEW flag \in BOOLEAN,
               RecordWithdrawal(signer, b, i, amount, flag)
        PROVE  OneBuilder(c)
    <2> DEFINE total == Relieved(b, amount)
    <2>1. /\ Exists(b) /\ config # NoAccount /\ config' = config
          /\ builder' = [builder EXCEPT ![b] = [builder[b] EXCEPT !.totalAum = total]]
      BY <1>3 DEF RecordWithdrawal, SignedByVault, Deployed, Exists
    <2>2. builder[b] \in BuilderAccount /\ amount \in Nat
      BY <2>1, NumbersAssumption DEF TypeOK, Exists
    <2>3. total \in Nat /\ total <= builder[b].totalAum
      BY <2>2 DEF Relieved, SaturatingSub, BuilderAccount
    <2> HIDE DEF total
    <2> QED
      BY <1>1, <2>1, <2>3
  <1> QED
    BY <1>2, <1>3 DEF AumStep

\* Whatever happens, each builder goes through one of the above.
LEMMA BuilderShape ==
  ASSUME TypeOK, [Next]_vars, NEW c \in Builders
  PROVE  OneBuilder(c)
  <1>1. CASE BondStep
    BY <1>1, RegisterShape, StakeShape, UnbondShape, WithdrawShape, SlashShape DEF BondStep
  <1>2. CASE ListingStep
    <2>1. CASE \E b \in Builders, bot \in BotKeys : SubmitListing(b, bot)
      BY <2>1, SubmitShape
    <2>2. CASE builder' = builder
      BY <2>2 DEF OneBuilder
    <2> QED
      BY <1>2, <2>1, <2>2
         DEF ListingStep, ApproveListing, PauseListing, GuardianPauseListing, ResumeListing,
             Delist, MoveTo, RotateAgentAuthority
  <1>3. CASE AumStep
    BY <1>3, AumShape
  <1>4. CASE Environment
    BY <1>4 DEF Environment, Reconfigure, TokenTransfer, Tick, OneBuilder
  <1>5. CASE UNCHANGED vars
    BY <1>5 DEF vars, OneBuilder
  <1> QED
    BY <1>1, <1>2, <1>3, <1>4, <1>5 DEF Next

-----------------------------------------------------------------------------
\* Tiers and cover

\* No instruction of a builder, a listing or a vault moves the clock or Config.
LEMMA ClockAndConfigKept ==
  ASSUME BondStep \/ ListingStep \/ AumStep
  PROVE  now' = now /\ config' = config
  <1>1. CASE BondStep
    BY <1>1 DEF BondStep, RegisterBuilder, StakeBond, RequestUnbond, CancelUnbond,
                WithdrawBond, SlashBond
  <1>2. CASE ListingStep
    <2>1. ASSUME NEW b \in Builders, NEW bot \in BotKeys, SubmitListing(b, bot)
          PROVE  now' = now /\ config' = config
      BY <2>1 DEF SubmitListing
    <2>2. ASSUME NEW b \in Builders, NEW i \in Indices, NEW bot \in BotKeys,
                 RotateAgentAuthority(b, i, bot)
          PROVE  now' = now /\ config' = config
      BY <2>2 DEF RotateAgentAuthority
    <2>3. ASSUME NEW signer \in Keys, NEW b \in Builders, NEW i \in Indices,
                 \/ \E fees \in FeeConfigs : ApproveListing(signer, b, i, fees)
                 \/ PauseListing(signer, b, i) \/ GuardianPauseListing(signer, b, i)
                 \/ ResumeListing(signer, b, i) \/ Delist(signer, b, i)
          PROVE  now' = now /\ config' = config
      BY <2>3 DEF ApproveListing, PauseListing, GuardianPauseListing, ResumeListing, Delist, MoveTo
    <2> QED
      BY <1>2, <2>1, <2>2, <2>3 DEF ListingStep
  <1>3. CASE AumStep
    BY <1>3 DEF AumStep, RecordDeposit, RecordWithdrawal
  <1> QED
    BY <1>1, <1>2, <1>3

\* There is no builder before there is a configuration.
BuildersConfigured == \A b \in Builders : Exists(b) => config # NoAccount

LEMMA ConfigurationFirst == Spec => []BuildersConfigured
  <1>1. Init => BuildersConfigured
    BY DEF Init, BuildersConfigured, Exists
  <1>2. ASSUME TypeOK, BuildersConfigured, [Next]_vars, NEW c \in Builders, builder'[c] # NoAccount
        PROVE  config' # NoAccount
    <2>1. OneBuilder(c)
      BY <1>2, BuilderShape
    <2>2. CASE builder'[c] = builder[c]
      <3>1. config # NoAccount
        BY <1>2, <2>2 DEF BuildersConfigured, Exists
      <3>2. CASE BondStep \/ ListingStep \/ AumStep
        BY <3>1, <3>2, ClockAndConfigKept
      <3>3. CASE Environment
        BY <3>1, <3>3, EnvironmentAssumption, NoAccountAssumption
           DEF Environment, Reconfigure, TokenTransfer, Tick
      <3>4. CASE UNCHANGED vars
        BY <3>1, <3>4 DEF vars
      <3> QED
        BY <1>2, <3>2, <3>3, <3>4 DEF Next
    <2>3. CASE Born(c)
      BY <2>3 DEF Born
    <2>4. CASE Written(c)
      BY <1>2, <2>4 DEF Written, BuildersConfigured
    <2> QED
      BY <2>1, <2>2, <2>3, <2>4 DEF OneBuilder
  <1>3. TypeOK /\ BuildersConfigured /\ [Next]_vars => BuildersConfigured'
    BY <1>2 DEF BuildersConfigured, Exists
  <1> QED
    BY <1>1, <1>3, CapitalTypes, PTL DEF Spec

CoverInv == TypeOK /\ (config # NoAccount => config \in Configs)

LEMMA CoverInvStep == CoverInv /\ TypeOK' /\ [Next]_vars => CoverInv'
  <1> SUFFICES ASSUME CoverInv, TypeOK', [Next]_vars
               PROVE  config' # NoAccount => config' \in Configs
    BY DEF CoverInv
  <1>1. CASE config' = config
    BY <1>1 DEF CoverInv
  <1>2. CASE BondStep \/ ListingStep \/ AumStep
    BY <1>1, <1>2, ClockAndConfigKept
  <1>3. CASE Environment
    BY <1>1, <1>3 DEF Environment, Reconfigure, TokenTransfer, Tick
  <1>4. CASE UNCHANGED vars
    BY <1>1, <1>4 DEF vars
  <1> QED
    BY <1>2, <1>3, <1>4 DEF Next

\* The tier of a builder stays the one that the bond deserves, or becomes it with
\* the next move of the bond.
LEMMA FreshStep ==
  ASSUME TypeOK, [Next]_vars, NEW b \in Builders, Exists(b),
         TierFresh(b) \/ builder'[b].bond # builder[b].bond, config'.tiers = config.tiers
  PROVE  builder'[b].tier = TierForBond(config'.tiers, builder'[b].bond)
  <1>1. OneBuilder(b)
    BY BuilderShape
  <1> QED
    BY <1>1 DEF OneBuilder, Born, Written, Staked, Asked, Cancelled, Withdrew, LostToSlash,
                Listed, Entrusted, RelievedOf, Retiered, Keeps, TierFresh

\* No instruction but execute_change makes a stored tier stale, and whatever moves the
\* bond makes it right again, for any table and any number of builders (stake_bond,
\* withdraw_bond, slash_bond).
THEOREM TiersStayFresh == Spec => TierStaleOnlyByUpdate
  <1>1. TypeOK /\ [Next]_vars =>
          [\A b \in Builders :
             /\ Exists(b)
             /\ config'.tiers = config.tiers
             /\ TierFresh(b) \/ builder'[b].bond # builder[b].bond
             => TierFresh(b)']_vars
    BY FreshStep DEF TierFresh
  <1> QED
    BY <1>1, CapitalTypes, PTL DEF Spec, TierStaleOnlyByUpdate

LEMMA CoveredStep ==
  ASSUME CoverInv, TypeOK', [Next]_vars, NEW b \in Builders, Exists(b), Covered(b),
         config'.tiers = config.tiers, ~SlashStep(b), ~StaleDeposit(b)
  PROVE  builder'[b].totalAum <=
           CeilingForTier(config'.tiers, TierForBond(config'.tiers, builder'[b].bond))
  <1>1. OneBuilder(b) /\ TypeOK
    BY BuilderShape DEF CoverInv
  <1>2. builder[b] \in BuilderAccount
    BY <1>1 DEF TypeOK, Exists
  <1>3. CASE \/ builder'[b] = builder[b] \/ Asked(b) \/ Cancelled(b) \/ Listed(b)
    BY <1>3 DEF Asked, Cancelled, Listed, Keeps, Covered
  <1>4. ASSUME Staked(b), builder'[b] # NoAccount PROVE builder'[b].totalAum <=
           CeilingForTier(config.tiers, TierForBond(config.tiers, builder'[b].bond))
    <2>1. config \in ConfigAccount /\ Increasing(config.tiers.ceilings)
      BY <1>4, EnvironmentAssumption DEF CoverInv, Staked, Retiered, WellShaped
    <2>2. config.tiers \in TierTable
      BY <2>1 DEF ConfigAccount
    <2>3. builder'[b] \in BuilderAccount
      BY <1>4 DEF TypeOK
    <2>4. builder[b].bond \in Nat /\ builder'[b].bond \in Nat /\ builder[b].totalAum \in Nat
      BY <1>2, <2>3 DEF BuilderAccount
    <2>5. /\ TierForBond(config.tiers, builder[b].bond) \in 0..TierCount
          /\ TierForBond(config.tiers, builder'[b].bond) \in 0..TierCount
          /\ TierForBond(config.tiers, builder[b].bond)
               <= TierForBond(config.tiers, builder'[b].bond)
      BY <1>4, <2>2, <2>4, TierForBondSpec, TierMonotone DEF Staked
    <2>6. /\ CeilingForTier(config.tiers, TierForBond(config.tiers, builder[b].bond)) \in Nat
          /\ CeilingForTier(config.tiers, TierForBond(config.tiers, builder'[b].bond)) \in Nat
          /\ CeilingForTier(config.tiers, TierForBond(config.tiers, builder[b].bond))
               <= CeilingForTier(config.tiers, TierForBond(config.tiers, builder'[b].bond))
      BY <2>1, <2>2, <2>5, CeilingMonotone
    <2> QED
      BY <1>4, <2>4, <2>6 DEF Covered, Staked, Keeps
  <1>5. CASE Withdrew(b)
    <2>1. builder'[b].totalAum = builder[b].totalAum
      BY <1>5 DEF Withdrew, Keeps
    <2>2. CeilingForTier(config.tiers, TierForBond(config.tiers, builder'[b].bond))
            >= builder[b].totalAum
      BY <1>5 DEF Withdrew, RemainderCovers
    <2> QED
      BY <2>1, <2>2
  <1>6. CASE Entrusted(b)
    BY <1>6 DEF Entrusted, UnderCeiling, Keeps, StaleDeposit, TierFresh
  <1>7. ASSUME RelievedOf(b), builder'[b] # NoAccount
        PROVE  builder'[b].totalAum <=
                 CeilingForTier(config.tiers, TierForBond(config.tiers, builder'[b].bond))
    <2> DEFINE ceiling == CeilingForTier(config.tiers, TierForBond(config.tiers, builder[b].bond))
    <2>1. builder[b].totalAum <= ceiling /\ builder'[b].totalAum <= builder[b].totalAum
      BY <1>7 DEF Covered, RelievedOf
    <2>2. builder'[b].bond = builder[b].bond
      BY <1>7 DEF RelievedOf, Keeps
    <2>3. builder[b].totalAum \in Nat /\ builder'[b].totalAum \in Nat
      BY <1>2, <1>7 DEF TypeOK, BuilderAccount
    <2>4. ceiling \in Int
      <3>1. config.tiers \in TierTable /\ builder[b].bond \in Nat
        BY <1>1, <1>2, <1>7 DEF RelievedOf, TypeOK, ConfigAccount, BuilderAccount
      <3>2. TierForBond(config.tiers, builder[b].bond) \in 0..TierCount
        BY <3>1, TierForBondSpec
      <3> QED
        BY <3>1, <3>2 DEF CeilingForTier, TierTable, TierVector, TierCount
    <2> HIDE DEF ceiling
    <2> QED
      BY <2>1, <2>2, <2>3, <2>4 DEF ceiling
  <1> QED
    BY <1>1, <1>3, <1>4, <1>5, <1>6, <1>7 DEF OneBuilder, Born, Written, LostToSlash

\* While the table stands, cover is lost to a slash or to a deposit that the cached
\* tier let in though the bond had stopped deserving it, and to nothing else: not to a
\* deposit under a right tier, not to a withdrawal of the bond (record_deposit,
\* withdraw_bond), for any amounts and any well-shaped tables.
THEOREM CoverHasTwoExits == Spec => CoverLostTwoWays
  <1>1. Init => CoverInv
    BY IInvInit DEF CoverInv, IInv, Init
  <1>2. Spec => []TypeOK
    BY CapitalTypes
  <1>3. CoverInv /\ TypeOK' /\ [Next]_vars =>
          [\A b \in Builders :
             Exists(b) /\ Covered(b) /\ config'.tiers = config.tiers
               => Covered(b)' \/ SlashStep(b) \/ StaleDeposit(b)]_vars
    BY CoveredStep DEF Covered
  <1> QED
    BY <1>1, <1>2, <1>3, CoverInvStep, PTL DEF Spec, CoverLostTwoWays

-----------------------------------------------------------------------------
\* What a single write to a listing may do

\* Every listing of every builder, one at a time, goes through one of these.
Created(b, i) ==
  /\ ~HasListing(b, i)
  /\ listing'[b][i] # NoAccount
  /\ Exists(b)
  /\ i = builder[b].agentCount
  /\ builder'[b] # NoAccount
  /\ builder'[b].agentCount = i + 1
  /\ listing'[b][i].status = "Vetting"
  /\ listing'[b][i].aum = 0

Vetted(b, i) ==
  /\ HasListing(b, i)
  /\ listing[b][i].status = "Vetting"
  /\ listing'[b][i].status = "Live"
  /\ Validate(listing'[b][i].fees)

Rekeyed(b, i) ==
  /\ HasListing(b, i)
  /\ listing[b][i].status # "Delisted"
  /\ listing'[b][i].status = listing[b][i].status
  /\ listing'[b][i].fees = listing[b][i].fees
  /\ listing'[b][i].aum = listing[b][i].aum

Moved(b, i) ==
  /\ HasListing(b, i)
  /\ \/ listing[b][i].status = "Live" /\ listing'[b][i].status = "Paused"
     \/ listing[b][i].status = "Paused" /\ listing'[b][i].status = "Live"
     \/ /\ listing[b][i].status # "Delisted"
        /\ listing'[b][i].status = "Delisted"
        /\ listing[b][i].aum = 0
  /\ listing'[b][i].fees = listing[b][i].fees
  /\ listing'[b][i].aum = listing[b][i].aum

Filled(b, i) ==
  /\ HasListing(b, i)
  /\ listing[b][i].status = "Live"
  /\ listing'[b][i].status = "Live"
  /\ listing'[b][i].fees = listing[b][i].fees

Emptied(b, i) ==
  /\ HasListing(b, i)
  /\ listing'[b][i].aum \in 0..listing[b][i].aum
  /\ listing'[b][i] = [listing[b][i] EXCEPT !.aum = listing'[b][i].aum,
                                            !.vaultCount = listing'[b][i].vaultCount]

OneListing(b, i) ==
  /\ listing'[b][i] # NoAccount
  /\ \/ Created(b, i)
     \/ Vetted(b, i)
     \/ Rekeyed(b, i)
     \/ Moved(b, i)
     \/ Filled(b, i)
     \/ Emptied(b, i)

LEMMA ListingStepShape ==
  ASSUME TypeOK, ListingStep, NEW c \in Builders, NEW j \in Indices
  PROVE  listing'[c][j] = listing[c][j] \/ OneListing(c, j)
  <1>1. ASSUME NEW b \in Builders, NEW bot \in BotKeys, SubmitListing(b, bot)
        PROVE  listing'[c][j] = listing[c][j] \/ OneListing(c, j)
    <2>0. PICK index : index = builder[b].agentCount
      OBVIOUS
    <2> DEFINE new == [agentAuthority |-> bot, status |-> "Vetting", fees |-> ZeroFees,
                       aum |-> 0, vaultCount |-> 0]
    <2>1. /\ Exists(b) /\ index < U16Max /\ ~HasListing(b, index)
          /\ listing' = [listing EXCEPT ![b][index] = new]
      BY <1>1, <2>0 DEF SubmitListing
    <2>2. builder[b] \in BuilderAccount
      BY <2>1 DEF TypeOK, Exists
    <2>3. index \in Indices
      BY <2>0, <2>1, <2>2, NumbersAssumption DEF BuilderAccount, Indices
    <2>4. ZeroFees \in FeeConfig
      BY DEF ZeroFees, FeeConfig
    <2>5. new \in ListingAccount
      BY <2>4, NumbersAssumption DEF ListingAccount, Statuses
    <2>6. new.status = "Vetting" /\ new.aum = 0
      OBVIOUS
    <2> HIDE DEF new
    <2>7. /\ listing'[b][index] = new /\ listing'[b][index] # NoAccount
          /\ listing'[c][j] = listing[c][j] \/ (c = b /\ j = index)
      BY <2>1, <2>3, <2>5, NoAccountAssumption DEF TypeOK
    <2>8. Counted(b, index) \in BuilderAccount /\ Counted(b, index).agentCount = index + 1
      BY <2>0, <2>1, <2>2, NumbersAssumption DEF Counted, BuilderAccount
    <2>9. builder'[b] # NoAccount /\ builder'[b].agentCount = index + 1
      BY <1>1, <2>0, <2>8, NoAccountAssumption DEF SubmitListing, TypeOK
    <2> QED
      BY <2>0, <2>1, <2>6, <2>7, <2>9 DEF OneListing, Created
  <1>2. ASSUME NEW b \in Builders, NEW i \in Indices, NEW bot \in BotKeys,
               RotateAgentAuthority(b, i, bot)
        PROVE  listing'[c][j] = listing[c][j] \/ OneListing(c, j)
    <2> DEFINE new == [listing[b][i] EXCEPT !.agentAuthority = bot]
    <2>1. /\ HasListing(b, i) /\ listing[b][i].status # "Delisted"
          /\ listing' = [listing EXCEPT ![b][i] = new]
      BY <1>2 DEF RotateAgentAuthority
    <2>2. listing[b][i] \in ListingAccount
      BY <2>1 DEF HasListing, TypeOK
    <2>3. /\ new \in ListingAccount
          /\ new.status = listing[b][i].status /\ new.fees = listing[b][i].fees
          /\ new.aum = listing[b][i].aum
      BY <2>2 DEF ListingAccount
    <2> HIDE DEF new
    <2>4. /\ listing'[b][i] = new /\ listing'[b][i] # NoAccount
          /\ listing'[c][j] = listing[c][j] \/ (c = b /\ j = i)
      BY <2>1, <2>3, NoAccountAssumption DEF TypeOK
    <2> QED
      BY <2>1, <2>3, <2>4 DEF OneListing, Rekeyed
  <1>3. ASSUME NEW signer \in Keys, NEW b \in Builders, NEW i \in Indices,
               NEW fees \in FeeConfigs, ApproveListing(signer, b, i, fees)
        PROVE  listing'[c][j] = listing[c][j] \/ OneListing(c, j)
    <2> DEFINE new == [listing[b][i] EXCEPT !.fees = fees, !.status = "Live"]
    <2>1. /\ HasListing(b, i) /\ listing[b][i].status = "Vetting" /\ Validate(fees)
          /\ listing' = [listing EXCEPT ![b][i] = new]
      BY <1>3 DEF ApproveListing, Approved
    <2>2. listing[b][i] \in ListingAccount /\ fees \in FeeConfig
      BY <2>1, EnvironmentAssumption DEF HasListing, TypeOK
    <2>3. new \in ListingAccount /\ new.status = "Live" /\ new.fees = fees
      BY <2>2 DEF ListingAccount, Statuses
    <2> HIDE DEF new
    <2>4. /\ listing'[b][i] = new /\ listing'[b][i] # NoAccount
          /\ listing'[c][j] = listing[c][j] \/ (c = b /\ j = i)
      BY <2>1, <2>3, NoAccountAssumption DEF TypeOK
    <2> QED
      BY <2>1, <2>3, <2>4 DEF OneListing, Vetted
  <1>4. ASSUME NEW b \in Builders, NEW i \in Indices, NEW status \in Statuses,
               HasListing(b, i), MoveTo(b, i, status),
               \/ listing[b][i].status = "Live" /\ status = "Paused"
               \/ listing[b][i].status = "Paused" /\ status = "Live"
               \/ listing[b][i].status # "Delisted" /\ status = "Delisted"
                  /\ listing[b][i].aum = 0
        PROVE  listing'[c][j] = listing[c][j] \/ OneListing(c, j)
    <2> DEFINE new == [listing[b][i] EXCEPT !.status = status]
    <2>1. listing' = [listing EXCEPT ![b][i] = new]
      BY <1>4 DEF MoveTo
    <2>2. listing[b][i] \in ListingAccount
      BY <1>4 DEF HasListing, TypeOK
    <2>3. /\ new \in ListingAccount /\ new.status = status
          /\ new.fees = listing[b][i].fees /\ new.aum = listing[b][i].aum
      BY <2>2 DEF ListingAccount
    <2> HIDE DEF new
    <2>4. /\ listing'[b][i] = new /\ listing'[b][i] # NoAccount
          /\ listing'[c][j] = listing[c][j] \/ (c = b /\ j = i)
      BY <2>1, <2>3, NoAccountAssumption DEF TypeOK
    <2>5. Moved(b, i)
      BY <1>4, <2>3, <2>4 DEF Moved
    <2> QED
      BY <2>4, <2>5 DEF OneListing
  <1> QED
    BY <1>1, <1>2, <1>3, <1>4
       DEF ListingStep, PauseListing, GuardianPauseListing, ResumeListing, Resumable,
           Delist, Drained, Statuses

LEMMA AumStepShape ==
  ASSUME TypeOK, AumStep, NEW c \in Builders, NEW j \in Indices
  PROVE  listing'[c][j] = listing[c][j] \/ OneListing(c, j)
  <1>1. ASSUME NEW signer \in Keys, NEW b \in Builders, NEW i \in Indices,
               NEW amount \in Amounts, NEW flag \in BOOLEAN,
               RecordDeposit(signer, b, i, amount, flag)
        PROVE  listing'[c][j] = listing[c][j] \/ OneListing(c, j)
    <2> DEFINE aum == listing[b][i].aum + amount
               vaults == listing[b][i].vaultCount + IF flag THEN 1 ELSE 0
               new == [listing[b][i] EXCEPT !.aum = aum, !.vaultCount = vaults]
    <2>1. /\ HasListing(b, i) /\ listing[b][i].status = "Live"
          /\ listing' = [listing EXCEPT ![b][i] = new]
      BY <1>1 DEF RecordDeposit, Deployed, TakesCapital, HasListing, Entered
    <2>2. listing[b][i] \in ListingAccount /\ amount \in Nat
      BY <2>1, NumbersAssumption DEF HasListing, TypeOK
    <2>3. aum \in 0..U64Max
      BY <1>1, <2>2, NumbersAssumption DEF RecordDeposit, ListingAccount
    <2>4. vaults \in 0..U32Max
      <3>1. listing[b][i].vaultCount \in 0..U32Max
        BY <2>2 DEF ListingAccount
      <3>2. flag => listing[b][i].vaultCount < U32Max
        BY <1>1 DEF RecordDeposit
      <3> QED
        BY <3>1, <3>2, NumbersAssumption
    <2> HIDE DEF aum, vaults
    <2>5. /\ new \in ListingAccount
          /\ new.status = listing[b][i].status /\ new.fees = listing[b][i].fees
      BY <2>2, <2>3, <2>4 DEF ListingAccount
    <2> HIDE DEF new
    <2>6. /\ listing'[b][i] = new /\ listing'[b][i] # NoAccount
          /\ listing'[c][j] = listing[c][j] \/ (c = b /\ j = i)
      BY <2>1, <2>5, NoAccountAssumption DEF TypeOK
    <2> QED
      BY <2>1, <2>5, <2>6 DEF OneListing, Filled
  <1>2. ASSUME NEW signer \in Keys, NEW b \in Builders, NEW i \in Indices,
               NEW amount \in Amounts, NEW flag \in BOOLEAN,
               RecordWithdrawal(signer, b, i, amount, flag)
        PROVE  listing'[c][j] = listing[c][j] \/ OneListing(c, j)
    <2> DEFINE aum == SaturatingSub(listing[b][i].aum, amount)
               vaults == SaturatingSub(listing[b][i].vaultCount, IF flag THEN 1 ELSE 0)
               new == [listing[b][i] EXCEPT !.aum = aum, !.vaultCount = vaults]
    <2>1. HasListing(b, i) /\ listing' = [listing EXCEPT ![b][i] = new]
      BY <1>2 DEF RecordWithdrawal, Deployed, HasListing, Left
    <2>2. listing[b][i] \in ListingAccount /\ amount \in Nat
      BY <2>1, NumbersAssumption DEF HasListing, TypeOK
    <2>3. aum \in 0..U64Max /\ aum \in 0..listing[b][i].aum
      BY <2>2, NumbersAssumption DEF SaturatingSub, ListingAccount
    <2>4. vaults \in 0..U32Max
      BY <2>2, NumbersAssumption DEF SaturatingSub, ListingAccount
    <2> HIDE DEF aum, vaults
    <2>5. new \in ListingAccount /\ new.aum = aum /\ new.vaultCount = vaults
      BY <2>2, <2>3, <2>4 DEF ListingAccount
    <2>6. /\ listing'[b][i] = new /\ listing'[b][i] # NoAccount
          /\ listing'[c][j] = listing[c][j] \/ (c = b /\ j = i)
      <3> HIDE DEF new
      <3> QED
        BY <2>1, <2>5, NoAccountAssumption DEF TypeOK
    <2>7. Emptied(b, i)
      BY <2>1, <2>3, <2>5, <2>6 DEF Emptied
    <2> QED
      BY <2>6, <2>7 DEF OneListing
  <1> QED
    BY <1>1, <1>2 DEF AumStep

\* Whatever happens, each listing stays as it is or goes through one of the above.
LEMMA NextShape ==
  ASSUME TypeOK, [Next]_vars, NEW c \in Builders, NEW j \in Indices
  PROVE  listing'[c][j] = listing[c][j] \/ OneListing(c, j)
  <1>1. CASE BondStep
    <2>1. listing' = listing
      BY <1>1 DEF BondStep, RegisterBuilder, RequestUnbond, CancelUnbond, StakeBond,
                  WithdrawBond, SlashBond
    <2> QED
      BY <2>1
  <1>2. CASE ListingStep
    BY <1>2, ListingStepShape
  <1>3. CASE AumStep
    BY <1>3, AumStepShape
  <1>4. CASE Environment
    BY <1>4 DEF Environment, Reconfigure, TokenTransfer, Tick
  <1>5. CASE UNCHANGED vars
    BY <1>5 DEF vars
  <1> QED
    BY <1>1, <1>2, <1>3, <1>4, <1>5 DEF Next

-----------------------------------------------------------------------------
\* Guardrails

GuardrailInv ==
  /\ TypeOK
  /\ CapitalUnderGuardrails
  /\ \A b \in Builders, i \in Indices :
       HasListing(b, i) /\ listing[b][i].status = "Delisted" => listing[b][i].aum = 0

LEMMA GuardrailStep == GuardrailInv /\ TypeOK' /\ [Next]_vars => GuardrailInv'
  <1> SUFFICES ASSUME GuardrailInv, TypeOK', [Next]_vars,
                      NEW b \in Builders, NEW i \in Indices, HasListing(b, i)'
               PROVE  /\ listing'[b][i].aum > 0 \/ listing'[b][i].status \in {"Live", "Paused"}
                           => Validate(listing'[b][i].fees)
                      /\ listing'[b][i].status = "Delisted" => listing'[b][i].aum = 0
    BY DEF GuardrailInv, CapitalUnderGuardrails
  <1>1. TypeOK
    BY DEF GuardrailInv
  <1>2. HasListing(b, i) =>
          /\ listing[b][i].aum > 0 \/ listing[b][i].status \in {"Live", "Paused"}
               => Validate(listing[b][i].fees)
          /\ listing[b][i].status = "Delisted" => listing[b][i].aum = 0
          /\ listing[b][i].aum \in Nat
    BY <1>1 DEF GuardrailInv, CapitalUnderGuardrails, TypeOK, HasListing, ListingAccount
  <1>3. listing'[b][i].aum \in Nat /\ listing'[b][i].status \in Statuses
    BY DEF TypeOK, HasListing, ListingAccount
  <1>4. CASE listing'[b][i] = listing[b][i]
    BY <1>2, <1>4 DEF HasListing
  <1>5. CASE Created(b, i)
    BY <1>5 DEF Created
  <1>6. CASE Vetted(b, i) \/ Rekeyed(b, i) \/ Moved(b, i) \/ Filled(b, i)
    BY <1>2, <1>6 DEF Vetted, Rekeyed, Moved, Filled
  <1>7. CASE Emptied(b, i)
    <2>1. listing[b][i] \in ListingAccount
      BY <1>1, <1>7 DEF Emptied, HasListing, TypeOK
    <2>2. /\ listing'[b][i].status = listing[b][i].status
          /\ listing'[b][i].fees = listing[b][i].fees
      BY <1>7, <2>1 DEF Emptied, ListingAccount
    <2>3. listing'[b][i].aum <= listing[b][i].aum
      BY <1>2, <1>7 DEF Emptied
    <2> QED
      BY <1>2, <1>3, <1>7, <2>2, <2>3 DEF Emptied
  <1> QED
    BY <1>1, <1>4, <1>5, <1>6, <1>7, NextShape DEF OneListing

\* Trader capital is only ever under fees that passed the guardrails, for any
\* number of listings and any fees that callers propose (approve_listing,
\* record_deposit, resume_listing by builder or authority, pause by three signers).
THEOREM GuardrailsHold == Spec => []CapitalUnderGuardrails
  <1>1. Init => GuardrailInv
    BY IInvInit DEF GuardrailInv, IInv, Init, CapitalUnderGuardrails, HasListing
  <1>2. Spec => []TypeOK
    BY CapitalTypes
  <1>3. GuardrailInv => CapitalUnderGuardrails
    BY DEF GuardrailInv
  <1> QED
    BY <1>1, <1>2, <1>3, GuardrailStep, PTL DEF Spec

-----------------------------------------------------------------------------
\* Delisting

LEMMA DelistedStep ==
  ASSUME GuardrailInv, TypeOK', [Next]_vars,
         NEW b \in Builders, NEW i \in Indices,
         HasListing(b, i), listing[b][i].status = "Delisted"
  PROVE  /\ listing[b][i].aum = 0
         /\ listing'[b][i] = [listing[b][i] EXCEPT !.vaultCount = listing'[b][i].vaultCount]
  <1>1. TypeOK /\ listing[b][i].aum = 0
    BY DEF GuardrailInv
  <1>2. listing[b][i] \in ListingAccount
    BY <1>1 DEF TypeOK, HasListing
  <1>3. CASE listing'[b][i] = listing[b][i]
    BY <1>1, <1>2, <1>3 DEF ListingAccount
  <1>4. CASE Emptied(b, i)
    <2>1. listing'[b][i].aum = 0
      BY <1>1, <1>4 DEF Emptied
    <2>2. listing'[b][i] = [listing[b][i] EXCEPT !.aum = 0,
                                                 !.vaultCount = listing'[b][i].vaultCount]
      BY <1>4, <2>1 DEF Emptied
    <2>3. [listing[b][i] EXCEPT !.aum = 0, !.vaultCount = listing'[b][i].vaultCount]
            = [listing[b][i] EXCEPT !.vaultCount = listing'[b][i].vaultCount]
      BY <1>1, <1>2 DEF ListingAccount
    <2> QED
      BY <1>1, <2>2, <2>3
  <1>5. ~(Created(b, i) \/ Vetted(b, i) \/ Rekeyed(b, i) \/ Moved(b, i) \/ Filled(b, i))
    BY DEF Created, Vetted, Rekeyed, Moved, Filled
  <1> QED
    BY <1>1, <1>3, <1>4, <1>5, NextShape DEF OneListing

\* Delisting is final: fees, bot key, status and the absence of capital stay,
\* only vault_count may still count down (delist, record_withdrawal).
THEOREM DelistingIsFinal == Spec => DelistedIsFinal
  <1>1. Init => GuardrailInv
    BY IInvInit DEF GuardrailInv, IInv, Init, CapitalUnderGuardrails, HasListing
  <1>2. Spec => []TypeOK
    BY CapitalTypes
  <1>3. GuardrailInv /\ TypeOK' /\ [Next]_vars =>
          [\A b \in Builders, i \in Indices :
             HasListing(b, i) /\ listing[b][i].status = "Delisted" =>
               /\ listing[b][i].aum = 0
               /\ listing'[b][i] =
                    [listing[b][i] EXCEPT !.vaultCount = listing'[b][i].vaultCount]]_vars
    BY DelistedStep
  <1> QED
    BY <1>1, <1>2, <1>3, GuardrailStep, PTL DEF Spec, DelistedIsFinal
-----------------------------------------------------------------------------
\* Indices

LEMMA IndexStep ==
  ASSUME TypeOK, IndicesContiguous, TypeOK', [Next]_vars,
         NEW b \in Builders, NEW i \in Indices
  PROVE  listing'[b][i] # NoAccount <=>
           builder'[b] # NoAccount /\ i < builder'[b].agentCount
  <1>1. HasListing(b, i) <=> Exists(b) /\ i < builder[b].agentCount
    BY DEF IndicesContiguous
  <1>2. OneBuilder(b) /\ (listing'[b][i] = listing[b][i] \/ OneListing(b, i))
    BY BuilderShape, NextShape
  <1>3. /\ i \in Nat
        /\ Exists(b) => builder[b].agentCount \in Nat
        /\ builder'[b] # NoAccount => builder'[b].agentCount \in Nat
    BY NumbersAssumption DEF Indices, TypeOK, Exists, BuilderAccount
  <1>4. HasListing(b, i) => listing'[b][i] # NoAccount
    BY <1>2 DEF HasListing, OneListing
  <1>5. CASE Created(b, i)
    <2>1. /\ builder'[b] # NoAccount /\ i < builder'[b].agentCount
          /\ listing[b][i] = NoAccount
      BY <1>3, <1>5 DEF Created, HasListing
    <2>2. listing'[b][i] # NoAccount
      BY <1>5 DEF Created
    <2> QED
      BY <2>1, <2>2
  <1>6. ASSUME ~Created(b, i)
        PROVE  listing'[b][i] # NoAccount => HasListing(b, i)
    BY <1>2, <1>6 DEF OneListing, Vetted, Rekeyed, Moved, Filled, Emptied, HasListing
  <1>7. CASE ~Created(b, i) /\ builder'[b] = builder[b]
    BY <1>1, <1>4, <1>6, <1>7 DEF Exists
  <1>8. CASE ~Created(b, i) /\ Born(b)
    <2>1. ~HasListing(b, i)
      BY <1>1, <1>8 DEF Born
    <2>2. ~(listing'[b][i] # NoAccount)
      BY <1>6, <1>8, <2>1
    <2> QED
      BY <1>3, <1>8, <2>2 DEF Born
  <1>9. CASE ~Created(b, i) /\ Written(b) /\ Listed(b)
    <2>1. /\ Exists(b) /\ builder'[b] # NoAccount
          /\ builder'[b].agentCount = builder[b].agentCount + 1
          /\ i = builder[b].agentCount => listing'[b][i] # NoAccount
      BY <1>9 DEF Written, Listed
    <2> QED
      BY <1>1, <1>3, <1>4, <1>6, <1>9, <2>1
  <1>10. CASE ~Created(b, i) /\ Written(b) /\ ~Listed(b)
    <2>1. /\ Exists(b) /\ builder'[b] # NoAccount
          /\ builder'[b].agentCount = builder[b].agentCount
      BY <1>10 DEF Written, Staked, Asked, Cancelled, Withdrew, LostToSlash, Entrusted,
                   RelievedOf, Keeps
    <2> QED
      BY <1>1, <1>4, <1>6, <1>10, <2>1
  <1> QED
    BY <1>2, <1>5, <1>7, <1>8, <1>9, <1>10 DEF OneBuilder

\* Listings occupy exactly the indices below agent_count, so the PDA of the next
\* submit_listing is always free, for any number of builders and any width of the
\* counter (submit_listing).
THEOREM IndicesHaveNoGaps == Spec => []IndicesContiguous
  <1>1. Init => IndicesContiguous
    BY DEF Init, IndicesContiguous, HasListing, Exists
  <1>2. Spec => []TypeOK
    BY CapitalTypes
  <1>3. TypeOK /\ IndicesContiguous /\ TypeOK' /\ [Next]_vars => IndicesContiguous'
    BY IndexStep DEF IndicesContiguous, HasListing, Exists
  <1> QED
    BY <1>1, <1>2, <1>3, PTL DEF Spec

-----------------------------------------------------------------------------
\* Sums.  A finite set has a least part among those that have a property, so what
\* holds of a part when it holds of every smaller one holds of the whole.

\* h sums fun over each part of S, in the order of the library's fold.
SumsParts(h, fun, S) ==
  h = [s \in SUBSET S |->
         IF s = {} THEN 0 ELSE fun[CHOOSE x \in s : TRUE] + h[s \ {CHOOSE x \in s : TRUE}]]

LEMMA SumIsChosen ==
  ASSUME NEW fun, NEW S
  PROVE  SumFunctionOnSet(fun, S) = (CHOOSE h : SumsParts(h, fun, S))[S]
  BY DEF SumFunctionOnSet, FoldFunctionOnSet, MapThenFoldSet, SumsParts

\* Among the parts of a finite set that have a property, one has it and no
\* smaller one does.
LEMMA LeastPart ==
  ASSUME NEW S, IsFiniteSet(S), NEW Bad, Bad \subseteq SUBSET S, Bad # {}
  PROVE  \E T \in Bad : \A U \in Bad : U \subseteq T => U = T
  <1>1. IsWellFoundedOn(StrictSubsetOrdering(S), SUBSET S)
    BY FS_StrictSubsetOrderingWellFounded, FS_FiniteSubsetsOfFinite
  <1>2. PICK T \in Bad : \A U \in Bad : ~(<<U, T>> \in StrictSubsetOrdering(S))
    BY <1>1, WFMin
  <1>3. ASSUME NEW U \in Bad, U \subseteq T, U # T
        PROVE  FALSE
    BY <1>2, <1>3 DEF StrictSubsetOrdering
  <1> QED
    BY <1>2, <1>3

\* What is summed up is settled part by part: two functions that sum fun agree
\* wherever both are defined.
LEMMA SumsAgree ==
  ASSUME NEW fun, NEW S, IsFiniteSet(S), NEW T \in SUBSET S,
         NEW g, SumsParts(g, fun, S), NEW h, SumsParts(h, fun, T)
  PROVE  \A U \in SUBSET T : g[U] = h[U]
  <1> DEFINE Bad == {U \in SUBSET T : g[U] # h[U]}
  <1> SUFFICES ASSUME Bad # {} PROVE FALSE
    OBVIOUS
  <1>1. IsFiniteSet(T)
    BY FS_Subset
  <1>2. PICK U \in Bad : \A V \in Bad : V \subseteq U => V = U
    <2>1. Bad \subseteq SUBSET T
      OBVIOUS
    <2> HIDE DEF Bad
    <2> QED
      BY <2>1, <1>1, LeastPart
  <1> DEFINE x == CHOOSE y \in U : TRUE
  <1>3. CASE U = {}
    BY <1>3 DEF SumsParts
  <1>4. CASE U # {}
    <2>1. x \in U /\ U \ {x} \in SUBSET T /\ U \ {x} \in SUBSET S
      BY <1>4
    <2>2. g[U \ {x}] = h[U \ {x}]
      BY <1>2, <2>1
    <2>3. g[U] = fun[x] + g[U \ {x}] /\ h[U] = fun[x] + h[U \ {x}]
      BY <1>4, <2>1 DEF SumsParts
    <2> QED
      BY <1>2, <2>2, <2>3
  <1> QED
    BY <1>3, <1>4

\* Every function on a finite set has its sums.
LEMMA SumsExist ==
  ASSUME NEW fun, NEW S, IsFiniteSet(S)
  PROVE  \E h : SumsParts(h, fun, S)
  <1> DEFINE Bad == {T \in SUBSET S : ~ \E h : SumsParts(h, fun, T)}
  <1> SUFFICES ASSUME Bad # {} PROVE FALSE
    OBVIOUS
  <1>1. PICK T \in Bad : \A U \in Bad : U \subseteq T => U = T
    <2>1. Bad \subseteq SUBSET S
      OBVIOUS
    <2> HIDE DEF Bad
    <2> QED
      BY <2>1, LeastPart
  <1> DEFINE Sums(U) == CHOOSE h : SumsParts(h, fun, U)
             First(U) == CHOOSE x \in U : TRUE
             Rest(U) == U \ {First(U)}
             g == [U \in SUBSET T |-> IF U = {} THEN 0 ELSE fun[First(U)] + Sums(Rest(U))[Rest(U)]]
  <1>2. ASSUME NEW U \in SUBSET T, U # T
        PROVE  SumsParts(Sums(U), fun, U)
    <2>1. \E h : SumsParts(h, fun, U)
      BY <1>1, <1>2
    <2> QED
      BY <2>1
  <1>3. ASSUME NEW U \in SUBSET T, U # {}
        PROVE  Rest(U) \in SUBSET T /\ Rest(U) # T /\ Rest(U) \in SUBSET U
    BY <1>3
  <1>4. ASSUME NEW U \in SUBSET T, U # T
        PROVE  g[U] = Sums(U)[U]
    <2>1. SumsParts(Sums(U), fun, U)
      BY <1>2, <1>4
    <2>2. CASE U = {}
      BY <2>1, <2>2 DEF SumsParts
    <2>3. CASE U # {}
      <3>1. SumsParts(Sums(Rest(U)), fun, Rest(U))
        BY <1>2, <1>3, <2>3
      <3>2. IsFiniteSet(U)
        BY FS_Subset
      <3>3. Sums(U)[Rest(U)] = Sums(Rest(U))[Rest(U)]
        BY <1>3, <2>1, <2>3, <3>1, <3>2, SumsAgree
      <3>4. Sums(U)[U] = fun[First(U)] + Sums(U)[Rest(U)]
        BY <2>1, <2>3 DEF SumsParts
      <3> QED
        BY <2>3, <3>3, <3>4
    <2> QED
      BY <2>2, <2>3
  <1>5. ASSUME NEW U \in SUBSET T, U # {}
        PROVE  Sums(Rest(U))[Rest(U)] = g[Rest(U)]
    <2> HIDE DEF g, Sums, Rest
    <2> QED
      BY <1>3, <1>4, <1>5
  <1>6. SumsParts(g, fun, T)
    <2>1. g = [U \in SUBSET T |-> IF U = {} THEN 0 ELSE fun[First(U)] + g[Rest(U)]]
      <3> DEFINE G(U) == IF U = {} THEN 0 ELSE fun[First(U)] + Sums(Rest(U))[Rest(U)]
                 R(U) == IF U = {} THEN 0 ELSE fun[First(U)] + g[Rest(U)]
      <3>1. \A U \in SUBSET T : G(U) = R(U)
        <4> HIDE DEF g, Sums, First, Rest
        <4> QED
          BY <1>5
      <3>2. g = [U \in SUBSET T |-> G(U)]
        OBVIOUS
      <3> HIDE DEF g, G, R
      <3>3. g = [U \in SUBSET T |-> R(U)]
        BY <3>1, <3>2
      <3> QED
        BY <3>3 DEF R
    <2> QED
      BY <2>1 DEF SumsParts
  <1> QED
    BY <1>1, <1>6

\* So the library's sum is the value at the whole set.
LEMMA SumOfParts ==
  ASSUME NEW fun, NEW S, IsFiniteSet(S)
  PROVE  \E h : SumsParts(h, fun, S) /\ SumFunctionOnSet(fun, S) = h[S]
  BY SumsExist, SumIsChosen

\* The sum of natural numbers is one.
LEMMA SumNat ==
  ASSUME NEW S, IsFiniteSet(S), NEW fun \in [S -> Nat]
  PROVE  SumFunctionOnSet(fun, S) \in Nat
  <1>1. PICK h : SumsParts(h, fun, S) /\ SumFunctionOnSet(fun, S) = h[S]
    BY SumOfParts
  <1> DEFINE Bad == {T \in SUBSET S : h[T] \notin Nat}
  <1> SUFFICES ASSUME Bad # {} PROVE FALSE
    BY <1>1
  <1>2. PICK T \in Bad : \A U \in Bad : U \subseteq T => U = T
    <2>1. Bad \subseteq SUBSET S
      OBVIOUS
    <2> HIDE DEF Bad
    <2> QED
      BY <2>1, LeastPart
  <1> DEFINE x == CHOOSE y \in T : TRUE
  <1>3. T # {}
    BY <1>1, <1>2 DEF SumsParts
  <1>4. x \in T /\ T \ {x} \in SUBSET S /\ h[T \ {x}] \in Nat
    BY <1>2, <1>3
  <1>5. h[T] = fun[x] + h[T \ {x}]
    BY <1>1, <1>3, <1>4 DEF SumsParts
  <1> QED
    BY <1>2, <1>4, <1>5

\* Changing one summand changes the sum by as much.
LEMMA SumChange ==
  ASSUME NEW S, IsFiniteSet(S), NEW i \in S,
         NEW f \in [S -> Nat], NEW g \in [S -> Nat],
         \A j \in S : j # i => g[j] = f[j]
  PROVE  SumFunctionOnSet(g, S) = SumFunctionOnSet(f, S) + g[i] - f[i]
  <1>1. PICK hf : SumsParts(hf, f, S) /\ SumFunctionOnSet(f, S) = hf[S]
    BY SumOfParts
  <1>2. PICK hg : SumsParts(hg, g, S) /\ SumFunctionOnSet(g, S) = hg[S]
    BY SumOfParts
  <1> DEFINE Change(T) == IF i \in T THEN g[i] - f[i] ELSE 0
             Bad == {T \in SUBSET S : ~(hf[T] \in Int /\ hg[T] = hf[T] + Change(T))}
  <1> SUFFICES ASSUME Bad # {} PROVE FALSE
    BY <1>1, <1>2
  <1>3. PICK T \in Bad : \A U \in Bad : U \subseteq T => U = T
    <2>1. Bad \subseteq SUBSET S
      OBVIOUS
    <2> HIDE DEF Bad
    <2> QED
      BY <2>1, LeastPart
  <1> DEFINE x == CHOOSE y \in T : TRUE
  <1>4. T # {}
    <2>1. hf[{}] = 0 /\ hg[{}] = 0
      BY <1>1, <1>2 DEF SumsParts
    <2>2. CASE T = {}
      BY <1>3, <2>1, <2>2
    <2> QED
      BY <2>2
  <1>5. x \in T /\ T \in SUBSET S /\ T \ {x} \in SUBSET S
    BY <1>3, <1>4
  <1>6. hf[T \ {x}] \in Int /\ hg[T \ {x}] = hf[T \ {x}] + Change(T \ {x})
    BY <1>3, <1>5
  <1>7. hf[T] = f[x] + hf[T \ {x}]
    BY <1>1, <1>4, <1>5 DEF SumsParts
  <1>8. hg[T] = g[x] + hg[T \ {x}]
    BY <1>2, <1>4, <1>5 DEF SumsParts
  <1>9. f[x] \in Nat /\ g[x] \in Nat /\ f[i] \in Nat /\ g[i] \in Nat
    BY <1>5
  <1> HIDE DEF x
  <1>10. CASE x = i
    <2>1. Change(T) = g[i] - f[i] /\ Change(T \ {x}) = 0
      BY <1>5, <1>10
    <2>2. hf[T] \in Int /\ hg[T] = hf[T] + Change(T)
      BY <1>6, <1>7, <1>8, <1>9, <1>10, <2>1
    <2> QED
      BY <1>3, <2>2
  <1>11. CASE x # i
    BY <1>3, <1>5, <1>6, <1>7, <1>8, <1>9, <1>11
  <1> QED
    BY <1>10, <1>11

\* The sum of nothing but zeros is zero.
LEMMA SumZero ==
  ASSUME NEW S, IsFiniteSet(S), NEW fun, \A i \in S : fun[i] = 0
  PROVE  SumFunctionOnSet(fun, S) = 0
  <1>1. PICK h : SumsParts(h, fun, S) /\ SumFunctionOnSet(fun, S) = h[S]
    BY SumOfParts
  <1> DEFINE Bad == {T \in SUBSET S : h[T] # 0}
  <1> SUFFICES ASSUME Bad # {} PROVE FALSE
    BY <1>1
  <1>2. PICK T \in Bad : \A U \in Bad : U \subseteq T => U = T
    <2>1. Bad \subseteq SUBSET S
      OBVIOUS
    <2> HIDE DEF Bad
    <2> QED
      BY <2>1, LeastPart
  <1> DEFINE x == CHOOSE y \in T : TRUE
  <1>3. T # {}
    BY <1>1, <1>2 DEF SumsParts
  <1>4. x \in T /\ T \ {x} \in SUBSET S /\ h[T \ {x}] = 0
    BY <1>2, <1>3
  <1>5. h[T] = fun[x] + h[T \ {x}]
    BY <1>1, <1>3, <1>4 DEF SumsParts
  <1>6. fun[x] = 0
    BY <1>4
  <1> QED
    BY <1>2, <1>4, <1>5, <1>6

LEMMA IndicesFinite == IsFiniteSet(Indices)
  BY FS_Interval, NumbersAssumption DEF Indices

-----------------------------------------------------------------------------
\* What the instructions do to the capital under one listing

VaultsOf(account) == IF account = NoAccount THEN 0 ELSE account.vaultCount

IsDelisted(account) == account # NoAccount /\ account.status = "Delisted"

\* The same capital is there, and a listing is not taken off the registry over it.
SameCapital(before, after) ==
  /\ AumOf(after) = AumOf(before)
  /\ VaultsOf(after) = VaultsOf(before)
  /\ IsDelisted(after) => IsDelisted(before) \/ AumOf(before) = 0

LEMMA WriteKeepsCapital ==
  ASSUME TypeOK, NEW b \in Builders, NEW i \in Indices, NEW new \in ListingAccount,
         listing' = [listing EXCEPT ![b][i] = new],
         SameCapital(listing[b][i], new), NEW c \in Builders, NEW j \in Indices
  PROVE  /\ SameCapital(listing[c][j], listing'[c][j])
         /\ listing'[c][j] # NoAccount => HasListing(c, j) \/ c = b
  <1>1. listing'[c][j] = IF c = b /\ j = i THEN new ELSE listing[c][j]
    BY DEF TypeOK
  <1> QED
    BY <1>1 DEF SameCapital, HasListing

\* Nothing that the builder, the multisig or the guardian does to a listing moves
\* its capital.
LEMMA ListingStepKeepsCapital ==
  ASSUME TypeOK, ListingStep, NEW c \in Builders, NEW j \in Indices
  PROVE  /\ SameCapital(listing[c][j], listing'[c][j])
         /\ listing'[c][j] # NoAccount => HasListing(c, j) \/ Exists(c)
  <1>1. ASSUME NEW b \in Builders, NEW bot \in BotKeys, SubmitListing(b, bot)
        PROVE  /\ SameCapital(listing[c][j], listing'[c][j])
               /\ listing'[c][j] # NoAccount => HasListing(c, j) \/ Exists(c)
    <2>0. PICK index : index = builder[b].agentCount
      OBVIOUS
    <2> DEFINE new == [agentAuthority |-> bot, status |-> "Vetting", fees |-> ZeroFees,
                       aum |-> 0, vaultCount |-> 0]
    <2>1. /\ Exists(b) /\ index < U16Max /\ ~HasListing(b, index)
          /\ listing' = [listing EXCEPT ![b][index] = new]
      BY <1>1, <2>0 DEF SubmitListing
    <2>2. index \in Indices
      BY <2>0, <2>1, NumbersAssumption DEF TypeOK, Exists, BuilderAccount, Indices
    <2>3. new \in ListingAccount
      BY NumbersAssumption DEF ListingAccount, Statuses, ZeroFees, FeeConfig
    <2>4. SameCapital(listing[b][index], new)
      BY <2>1 DEF SameCapital, AumOf, VaultsOf, IsDelisted, HasListing
    <2> HIDE DEF new
    <2> QED
      BY <2>1, <2>2, <2>3, <2>4, WriteKeepsCapital
  <1>2. ASSUME NEW b \in Builders, NEW i \in Indices, HasListing(b, i),
               NEW new \in ListingAccount, listing' = [listing EXCEPT ![b][i] = new],
               new.aum = listing[b][i].aum, new.vaultCount = listing[b][i].vaultCount,
               new.status = "Delisted" =>
                 listing[b][i].status = "Delisted" \/ listing[b][i].aum = 0
        PROVE  /\ SameCapital(listing[c][j], listing'[c][j])
               /\ listing'[c][j] # NoAccount => HasListing(c, j) \/ Exists(c)
    <2>1. SameCapital(listing[b][i], new)
      BY <1>2, NoAccountAssumption DEF SameCapital, AumOf, VaultsOf, IsDelisted, HasListing
    <2>2. listing'[c][j] # NoAccount => HasListing(c, j)
      BY <1>2 DEF TypeOK, HasListing
    <2> QED
      BY <1>2, <2>1, <2>2, WriteKeepsCapital
  <1>3. ASSUME NEW b \in Builders, NEW i \in Indices, NEW bot \in BotKeys,
               RotateAgentAuthority(b, i, bot)
        PROVE  /\ SameCapital(listing[c][j], listing'[c][j])
               /\ listing'[c][j] # NoAccount => HasListing(c, j) \/ Exists(c)
    <2> DEFINE new == [listing[b][i] EXCEPT !.agentAuthority = bot]
    <2>1. HasListing(b, i) /\ listing' = [listing EXCEPT ![b][i] = new]
      BY <1>3 DEF RotateAgentAuthority
    <2>2. listing[b][i] \in ListingAccount
      BY <2>1 DEF HasListing, TypeOK
    <2>3. /\ new \in ListingAccount /\ new.aum = listing[b][i].aum
          /\ new.vaultCount = listing[b][i].vaultCount /\ new.status = listing[b][i].status
      BY <2>2 DEF ListingAccount
    <2> HIDE DEF new
    <2> QED
      BY <1>2, <2>1, <2>3
  <1>4. ASSUME NEW signer \in Keys, NEW b \in Builders, NEW i \in Indices,
               NEW fees \in FeeConfigs, ApproveListing(signer, b, i, fees)
        PROVE  /\ SameCapital(listing[c][j], listing'[c][j])
               /\ listing'[c][j] # NoAccount => HasListing(c, j) \/ Exists(c)
    <2> DEFINE new == [listing[b][i] EXCEPT !.fees = fees, !.status = "Live"]
    <2>1. HasListing(b, i) /\ listing' = [listing EXCEPT ![b][i] = new]
      BY <1>4 DEF ApproveListing, Approved
    <2>2. listing[b][i] \in ListingAccount /\ fees \in FeeConfig
      BY <2>1, EnvironmentAssumption DEF HasListing, TypeOK
    <2>3. /\ new \in ListingAccount /\ new.aum = listing[b][i].aum
          /\ new.vaultCount = listing[b][i].vaultCount /\ new.status = "Live"
      BY <2>2 DEF ListingAccount, Statuses
    <2> HIDE DEF new
    <2> QED
      BY <1>2, <2>1, <2>3
  <1>5. ASSUME NEW b \in Builders, NEW i \in Indices, NEW status \in Statuses,
               HasListing(b, i), MoveTo(b, i, status),
               status = "Delisted" => listing[b][i].aum = 0
        PROVE  /\ SameCapital(listing[c][j], listing'[c][j])
               /\ listing'[c][j] # NoAccount => HasListing(c, j) \/ Exists(c)
    <2> DEFINE new == [listing[b][i] EXCEPT !.status = status]
    <2>1. listing' = [listing EXCEPT ![b][i] = new]
      BY <1>5 DEF MoveTo
    <2>2. listing[b][i] \in ListingAccount
      BY <1>5 DEF HasListing, TypeOK
    <2>3. /\ new \in ListingAccount /\ new.aum = listing[b][i].aum
          /\ new.vaultCount = listing[b][i].vaultCount /\ new.status = status
      BY <2>2 DEF ListingAccount
    <2> HIDE DEF new
    <2> QED
      BY <1>2, <1>5, <2>1, <2>3
  <1> QED
    BY <1>1, <1>3, <1>4, <1>5
       DEF ListingStep, PauseListing, GuardianPauseListing, ResumeListing, Delist, Drained, Statuses


-----------------------------------------------------------------------------
\* What the instructions do to the total of one builder

TotalKept(c) ==
  /\ builder[c] # NoAccount =>
       builder'[c] # NoAccount /\ builder'[c].totalAum = builder[c].totalAum
  /\ builder[c] = NoAccount /\ builder'[c] # NoAccount => builder'[c].totalAum = 0

LEMMA WriteKeepsTotal ==
  ASSUME TypeOK, NEW b \in Builders, NEW new \in BuilderAccount, Exists(b),
         new.totalAum = builder[b].totalAum,
         builder' = [builder EXCEPT ![b] = new], NEW c \in Builders
  PROVE  TotalKept(c)
  <1>1. builder'[c] = IF c = b THEN new ELSE builder[c]
    BY DEF TypeOK
  <1> QED
    BY <1>1, NoAccountAssumption DEF TotalKept, Exists

LEMMA RebondedKeepsTotal ==
  ASSUME TypeOK, config # NoAccount, NEW b \in Builders, Exists(b), NEW bond \in Nat
  PROVE  /\ Rebonded(b, bond).totalAum = builder[b].totalAum
         /\ Withdrawn(b, bond).totalAum = builder[b].totalAum
  <1>1. builder[b] \in BuilderAccount
    BY DEF TypeOK, Exists
  <1>2. Rebonded(b, bond) \in BuilderAccount
    BY RebondedType
  <1>3. Rebonded(b, bond).totalAum = builder[b].totalAum
    BY <1>1 DEF Rebonded, BuilderAccount
  <1> QED
    BY <1>2, <1>3 DEF Withdrawn, BuilderAccount

\* A withdrawal of any amount, also of one that nobody else would ask for.
LEMMA WithdrawKeepsTotal ==
  ASSUME TypeOK, NEW b \in Builders, NEW destination \in TokenAccounts, NEW amount \in Nat,
         WithdrawBond(b, destination, amount), NEW c \in Builders
  PROVE  TotalKept(c)
  <1>1. /\ config # NoAccount /\ Exists(b) /\ amount <= builder[b].bond
        /\ builder' = [builder EXCEPT ![b] = Withdrawn(b, builder[b].bond - amount)]
    BY DEF WithdrawBond
  <1>2. builder[b].bond - amount \in Nat
    BY <1>1 DEF TypeOK, Exists, BuilderAccount
  <1>3. /\ Withdrawn(b, builder[b].bond - amount) \in BuilderAccount
        /\ Withdrawn(b, builder[b].bond - amount).totalAum = builder[b].totalAum
    BY <1>1, <1>2, RebondedType, RebondedKeepsTotal
  <1> QED
    BY <1>1, <1>3, WriteKeepsTotal

LEMMA BondStepKeepsTotal ==
  ASSUME TypeOK, BondStep, NEW c \in Builders
  PROVE  TotalKept(c)
  <1>1. ASSUME NEW b \in Builders, RegisterBuilder(b)
        PROVE  TotalKept(c)
    <2> DEFINE new == [bond |-> 0, totalAum |-> 0, tier |-> 0, unbondRequestedAt |-> 0,
                       slashCount |-> 0, agentCount |-> 0]
    <2>1. ~Exists(b) /\ builder' = [builder EXCEPT ![b] = new]
      BY <1>1 DEF RegisterBuilder
    <2>2. new.totalAum = 0
      OBVIOUS
    <2> HIDE DEF new
    <2>3. builder'[c] = IF c = b THEN new ELSE builder[c]
      BY <2>1 DEF TypeOK
    <2> QED
      BY <2>1, <2>2, <2>3 DEF TotalKept, Exists
  <1>2. ASSUME NEW b \in Builders, RequestUnbond(b) \/ CancelUnbond(b)
        PROVE  TotalKept(c)
    <2>1. PICK t \in Nat : builder' = [builder EXCEPT ![b].unbondRequestedAt = t]
      BY <1>2 DEF RequestUnbond, CancelUnbond, TypeOK
    <2> DEFINE new == [builder[b] EXCEPT !.unbondRequestedAt = t]
    <2>2. Exists(b) /\ builder[b] \in BuilderAccount
      BY <1>2 DEF RequestUnbond, CancelUnbond, TypeOK, Exists
    <2>3. new \in BuilderAccount /\ new.totalAum = builder[b].totalAum
      BY <2>2 DEF BuilderAccount
    <2>4. builder' = [builder EXCEPT ![b] = new]
      BY <2>1
    <2> HIDE DEF new
    <2> QED
      BY <2>2, <2>3, <2>4, WriteKeepsTotal
  <1>3. ASSUME NEW b \in Builders, NEW source \in Wallets, NEW amount \in Amounts,
               StakeBond(b, source, amount)
        PROVE  TotalKept(c)
    <2>1. /\ config # NoAccount /\ Exists(b)
          /\ builder' = [builder EXCEPT ![b] = Rebonded(b, builder[b].bond + amount)]
      BY <1>3 DEF StakeBond
    <2>2. builder[b].bond + amount \in Nat
      BY <2>1, NumbersAssumption DEF TypeOK, Exists, BuilderAccount
    <2>3. /\ Rebonded(b, builder[b].bond + amount) \in BuilderAccount
          /\ Rebonded(b, builder[b].bond + amount).totalAum = builder[b].totalAum
      BY <2>1, <2>2, RebondedType, RebondedKeepsTotal
    <2> QED
      BY <2>1, <2>3, WriteKeepsTotal
  <1>4. ASSUME NEW b \in Builders, NEW destination \in TokenAccounts, NEW amount \in Amounts,
               WithdrawBond(b, destination, amount)
        PROVE  TotalKept(c)
    BY <1>4, NumbersAssumption, WithdrawKeepsTotal
  <1>5. ASSUME NEW signer \in Keys, NEW b \in Builders, NEW traders \in TokenAccounts,
               NEW buyback \in TokenAccounts, NEW amount \in Amounts,
               SlashBond(signer, b, traders, buyback, amount)
        PROVE  TotalKept(c)
    <2>1. /\ config # NoAccount /\ Exists(b) /\ amount <= builder[b].bond /\ amount \in Nat
          /\ builder' = [builder EXCEPT ![b] = Slashed(b, amount)]
      BY <1>5, NumbersAssumption DEF SlashBond, SignedByAuthority
    <2>2. builder[b].bond - amount \in Nat
      BY <2>1 DEF TypeOK, Exists, BuilderAccount
    <2>3. Rebonded(b, builder[b].bond - amount) \in BuilderAccount
          /\ Rebonded(b, builder[b].bond - amount).totalAum = builder[b].totalAum
      BY <2>1, <2>2, RebondedType, RebondedKeepsTotal
    <2>4. Slashed(b, amount) \in BuilderAccount /\ Slashed(b, amount).totalAum = builder[b].totalAum
      BY <2>1, <2>3, SlashedType DEF Slashed, BuilderAccount
    <2> QED
      BY <2>1, <2>4, WriteKeepsTotal
  <1> QED
    BY <1>1, <1>2, <1>3, <1>4, <1>5 DEF BondStep

LEMMA ListingStepKeepsTotal ==
  ASSUME TypeOK, ListingStep, NEW c \in Builders
  PROVE  TotalKept(c)
  <1>1. ASSUME NEW b \in Builders, NEW bot \in BotKeys, SubmitListing(b, bot)
        PROVE  TotalKept(c)
    <2> DEFINE new == Counted(b, builder[b].agentCount)
    <2>1. Exists(b) /\ builder[b].agentCount < U16Max /\ builder' = [builder EXCEPT ![b] = new]
      BY <1>1 DEF SubmitListing
    <2>2. builder[b] \in BuilderAccount
      BY <2>1 DEF TypeOK, Exists
    <2>3. new \in BuilderAccount /\ new.totalAum = builder[b].totalAum
      BY <2>1, <2>2, NumbersAssumption DEF Counted, BuilderAccount
    <2> HIDE DEF new
    <2> QED
      BY <2>1, <2>2, <2>3, WriteKeepsTotal
  <1>2. CASE builder' = builder
    BY <1>2 DEF TotalKept
  <1> QED
    BY <1>1, <1>2
       DEF ListingStep, ApproveListing, PauseListing, GuardianPauseListing, ResumeListing,
           Delist, MoveTo, RotateAgentAuthority

-----------------------------------------------------------------------------
\* What a report of the vault program does

\* A report writes one listing and its builder, and nothing else.
Reported(b, i) ==
  /\ Exists(b) /\ HasListing(b, i)
  /\ builder'[b] # NoAccount /\ listing'[b][i] # NoAccount
  /\ listing'[b][i].status = listing[b][i].status
  /\ \A c \in Builders : c # b => builder'[c] = builder[c]
  /\ \A c \in Builders, j \in Indices : c # b \/ j # i => listing'[c][j] = listing[c][j]

LEMMA ReportWrites ==
  ASSUME TypeOK, NEW b \in Builders, NEW i \in Indices, Deployed(b, i),
         NEW newBuilder \in BuilderAccount, NEW newListing \in ListingAccount,
         newListing.status = listing[b][i].status,
         builder' = [builder EXCEPT ![b] = newBuilder],
         listing' = [listing EXCEPT ![b][i] = newListing]
  PROVE  Reported(b, i) /\ builder'[b] = newBuilder /\ listing'[b][i] = newListing
  <1>1. \A c \in Builders : builder'[c] = IF c = b THEN newBuilder ELSE builder[c]
    BY DEF TypeOK
  <1>2. \A c \in Builders, j \in Indices :
          listing'[c][j] = IF c = b /\ j = i THEN newListing ELSE listing[c][j]
    BY DEF TypeOK
  <1>3. builder'[b] = newBuilder /\ listing'[b][i] = newListing
    BY <1>1, <1>2
  <1>4. \A c \in Builders : c # b => builder'[c] = builder[c]
    BY <1>1
  <1>5. \A c \in Builders, j \in Indices : c # b \/ j # i => listing'[c][j] = listing[c][j]
    BY <1>2
  <1>6. Exists(b) /\ HasListing(b, i) /\ newBuilder # NoAccount /\ newListing # NoAccount
    BY NoAccountAssumption DEF Deployed, Exists, HasListing
  <1> QED
    BY <1>3, <1>4, <1>5, <1>6 DEF Reported

LEMMA DepositMoves ==
  ASSUME TypeOK, NEW signer, NEW b \in Builders, NEW i \in Indices, NEW amount \in Nat,
         NEW flag \in BOOLEAN, RecordDeposit(signer, b, i, amount, flag)
  PROVE  /\ Reported(b, i)
         /\ amount > 0 /\ listing[b][i].status = "Live"
         /\ builder'[b].totalAum = builder[b].totalAum + amount
         /\ listing'[b][i].aum = listing[b][i].aum + amount
         /\ listing'[b][i].vaultCount = listing[b][i].vaultCount + IF flag THEN 1 ELSE 0
  <1> DEFINE total == builder[b].totalAum + amount
             aum == listing[b][i].aum + amount
             vaults == listing[b][i].vaultCount + IF flag THEN 1 ELSE 0
             newBuilder == [builder[b] EXCEPT !.totalAum = total]
             newListing == [listing[b][i] EXCEPT !.aum = aum, !.vaultCount = vaults]
  <1>1. Deployed(b, i) /\ amount > 0 /\ listing[b][i].status = "Live"
    BY DEF RecordDeposit, TakesCapital
  <1>2. builder[b] \in BuilderAccount /\ listing[b][i] \in ListingAccount
    BY <1>1 DEF Deployed, TypeOK
  <1>3. total \in Nat
    BY <1>2 DEF BuilderAccount
  <1>4. aum \in 0..U64Max
    BY <1>2, NumbersAssumption DEF RecordDeposit, ListingAccount
  <1>5. vaults \in 0..U32Max
    <2>1. listing[b][i].vaultCount \in 0..U32Max
      BY <1>2 DEF ListingAccount
    <2>2. flag => listing[b][i].vaultCount < U32Max
      BY DEF RecordDeposit
    <2> QED
      BY <2>1, <2>2, NumbersAssumption
  <1>6. /\ builder' = [builder EXCEPT ![b] = newBuilder]
        /\ listing' = [listing EXCEPT ![b][i] = newListing]
    BY DEF RecordDeposit, Entered
  <1> HIDE DEF total, aum, vaults
  <1>7. newBuilder \in BuilderAccount /\ newBuilder.totalAum = total
    BY <1>2, <1>3 DEF BuilderAccount
  <1>8. /\ newListing \in ListingAccount /\ newListing.status = listing[b][i].status
        /\ newListing.aum = aum /\ newListing.vaultCount = vaults
    BY <1>2, <1>4, <1>5 DEF ListingAccount
  <1> HIDE DEF newBuilder, newListing
  <1>9. Reported(b, i) /\ builder'[b] = newBuilder /\ listing'[b][i] = newListing
    BY <1>1, <1>6, <1>7, <1>8, ReportWrites
  <1> QED
    BY <1>1, <1>7, <1>8, <1>9 DEF total, aum, vaults

LEMMA WithdrawalMoves ==
  ASSUME TypeOK, NEW signer, NEW b \in Builders, NEW i \in Indices, NEW amount \in Nat,
         NEW flag \in BOOLEAN, RecordWithdrawal(signer, b, i, amount, flag)
  PROVE  /\ Reported(b, i)
         /\ amount > 0
         /\ builder'[b].totalAum = SaturatingSub(builder[b].totalAum, amount)
         /\ listing'[b][i].aum = SaturatingSub(listing[b][i].aum, amount)
         /\ listing'[b][i].vaultCount =
              SaturatingSub(listing[b][i].vaultCount, IF flag THEN 1 ELSE 0)
  <1> DEFINE total == SaturatingSub(builder[b].totalAum, amount)
             aum == SaturatingSub(listing[b][i].aum, amount)
             vaults == SaturatingSub(listing[b][i].vaultCount, IF flag THEN 1 ELSE 0)
             newBuilder == [builder[b] EXCEPT !.totalAum = total]
             newListing == [listing[b][i] EXCEPT !.aum = aum, !.vaultCount = vaults]
  <1>1. Deployed(b, i) /\ amount > 0
    BY DEF RecordWithdrawal
  <1>2. builder[b] \in BuilderAccount /\ listing[b][i] \in ListingAccount
    BY <1>1 DEF Deployed, TypeOK
  <1>3. total \in Nat
    BY <1>2 DEF SaturatingSub, BuilderAccount
  <1>4. aum \in 0..U64Max
    BY <1>2, NumbersAssumption DEF SaturatingSub, ListingAccount
  <1>5. vaults \in 0..U32Max
    BY <1>2, NumbersAssumption DEF SaturatingSub, ListingAccount
  <1>6. /\ builder' = [builder EXCEPT ![b] = newBuilder]
        /\ listing' = [listing EXCEPT ![b][i] = newListing]
    BY DEF RecordWithdrawal, Left, Relieved
  <1> HIDE DEF total, aum, vaults
  <1>7. newBuilder \in BuilderAccount /\ newBuilder.totalAum = total
    BY <1>2, <1>3 DEF BuilderAccount
  <1>8. /\ newListing \in ListingAccount /\ newListing.status = listing[b][i].status
        /\ newListing.aum = aum /\ newListing.vaultCount = vaults
    BY <1>2, <1>4, <1>5 DEF ListingAccount
  <1> HIDE DEF newBuilder, newListing
  <1>9. Reported(b, i) /\ builder'[b] = newBuilder /\ listing'[b][i] = newListing
    BY <1>1, <1>6, <1>7, <1>8, ReportWrites
  <1> QED
    BY <1>1, <1>7, <1>8, <1>9 DEF total, aum, vaults

-----------------------------------------------------------------------------
\* The sum, from one state to the next

LEMMA SumIsNatural ==
  ASSUME TypeOK, NEW b \in Builders
  PROVE  SumOfAum(b) \in Nat
  <1>1. [i \in Indices |-> AumOf(listing[b][i])] \in [Indices -> Nat]
    BY DEF TypeOK, AumOf, ListingAccount
  <1> QED
    BY <1>1, IndicesFinite, SumNat DEF SumOfAum

LEMMA SumKept ==
  ASSUME NEW b \in Builders, \A i \in Indices : AumOf(listing'[b][i]) = AumOf(listing[b][i])
  PROVE  SumOfAum(b)' = SumOfAum(b)
  <1>1. [i \in Indices |-> AumOf(listing'[b][i])] = [i \in Indices |-> AumOf(listing[b][i])]
    OBVIOUS
  <1> QED
    BY <1>1 DEF SumOfAum

\* The sum moves by as much as the one listing that a report is about.
LEMMA SumFollows ==
  ASSUME TypeOK, TypeOK', NEW b \in Builders, NEW i \in Indices, Reported(b, i)
  PROVE  SumOfAum(b)' = SumOfAum(b) + listing'[b][i].aum - listing[b][i].aum
  <1> DEFINE f == [j \in Indices |-> AumOf(listing[b][j])]
             g == [j \in Indices |-> AumOf(listing'[b][j])]
  <1>1. f \in [Indices -> Nat] /\ g \in [Indices -> Nat]
    BY DEF TypeOK, AumOf, ListingAccount
  <1>2. \A j \in Indices : j # i => g[j] = f[j]
    BY DEF Reported
  <1>3. f[i] = listing[b][i].aum /\ g[i] = listing'[b][i].aum
    BY DEF Reported, AumOf, HasListing
  <1> HIDE DEF f, g
  <1>4. SumFunctionOnSet(g, Indices) = SumFunctionOnSet(f, Indices) + g[i] - f[i]
    BY <1>1, <1>2, IndicesFinite, SumChange
  <1> QED
    BY <1>3, <1>4 DEF SumOfAum, f, g

\* A report about another builder leaves this one's ledgers alone.
LEMMA OthersUnreported ==
  ASSUME TypeOK, NEW b \in Builders, NEW i \in Indices, Reported(b, i),
         NEW c \in Builders, c # b
  PROVE  TotalKept(c) /\ \A j \in Indices : SameCapital(listing[c][j], listing'[c][j])
  BY DEF Reported, TotalKept, SameCapital

-----------------------------------------------------------------------------
\* Any reports at all

SumInv == TypeOK /\ TotalAumWithinSum

LEMMA SumWithinKept ==
  ASSUME SumInv, NEW c \in Builders, builder'[c] # NoAccount, TotalKept(c),
         \A j \in Indices : SameCapital(listing[c][j], listing'[c][j])
  PROVE  builder'[c].totalAum <= SumOfAum(c)'
  <1>1. SumOfAum(c)' = SumOfAum(c)
    BY SumKept DEF SameCapital
  <1>2. SumOfAum(c) \in Nat
    BY SumIsNatural DEF SumInv
  <1> QED
    BY <1>1, <1>2 DEF SumInv, TotalAumWithinSum, TotalKept, Exists

LEMMA SumWithinAfterReport ==
  ASSUME SumInv, TypeOK', AumStep, NEW c \in Builders, builder'[c] # NoAccount
  PROVE  builder'[c].totalAum <= SumOfAum(c)'
  <1>1. PICK signer \in Keys, b \in Builders, i \in Indices, amount \in Amounts, flag \in BOOLEAN :
          \/ RecordDeposit(signer, b, i, amount, flag)
          \/ RecordWithdrawal(signer, b, i, amount, flag)
    BY DEF AumStep
  <1>2. TypeOK /\ amount \in Nat
    BY NumbersAssumption DEF SumInv
  <1>3. Reported(b, i)
    BY <1>1, <1>2, DepositMoves, WithdrawalMoves
  <1>4. CASE c # b
    BY <1>2, <1>3, <1>4, OthersUnreported, SumWithinKept
  <1>5. CASE c = b
    <2>1. /\ builder[b].totalAum \in Nat /\ listing[b][i].aum \in Nat
          /\ builder[b].totalAum <= SumOfAum(b) /\ SumOfAum(b) \in Nat
      BY <1>2, <1>3, SumIsNatural, NumbersAssumption
         DEF Reported, SumInv, TotalAumWithinSum, TypeOK, Exists, HasListing,
             BuilderAccount, ListingAccount
    <2>2. SumOfAum(b)' = SumOfAum(b) + listing'[b][i].aum - listing[b][i].aum
      BY <1>2, <1>3, SumFollows
    <2>3. CASE RecordDeposit(signer, b, i, amount, flag)
      <3>1. /\ builder'[b].totalAum = builder[b].totalAum + amount
            /\ listing'[b][i].aum = listing[b][i].aum + amount
        BY <1>2, <2>3, DepositMoves
      <3> QED
        BY <1>2, <1>5, <2>1, <2>2, <3>1
    <2>4. CASE RecordWithdrawal(signer, b, i, amount, flag)
      <3>1. /\ builder'[b].totalAum = SaturatingSub(builder[b].totalAum, amount)
            /\ listing'[b][i].aum = SaturatingSub(listing[b][i].aum, amount)
        BY <1>2, <2>4, WithdrawalMoves
      <3>2. SumOfAum(b)' \in Nat
        <4>1. [j \in Indices |-> AumOf(listing'[b][j])] \in [Indices -> Nat]
          BY DEF TypeOK, AumOf, ListingAccount
        <4> QED
          BY <4>1, IndicesFinite, SumNat DEF SumOfAum
      <3> QED
        BY <1>2, <1>5, <2>1, <2>2, <3>1, <3>2 DEF SaturatingSub
    <2> QED
      BY <1>1, <2>3, <2>4
  <1> QED
    BY <1>4, <1>5

LEMMA SumInvStep == SumInv /\ TypeOK' /\ [Next]_vars => SumInv'
  <1> SUFFICES ASSUME SumInv, TypeOK', [Next]_vars, NEW c \in Builders, builder'[c] # NoAccount
               PROVE  builder'[c].totalAum <= SumOfAum(c)'
    BY DEF SumInv, TotalAumWithinSum, Exists
  <1>0. TypeOK
    BY DEF SumInv
  <1>1. CASE BondStep
    <2>1. listing' = listing
      BY <1>1 DEF BondStep, RegisterBuilder, StakeBond, RequestUnbond, CancelUnbond,
                  WithdrawBond, SlashBond
    <2> QED
      BY <1>0, <1>1, <2>1, BondStepKeepsTotal, SumWithinKept DEF SameCapital
  <1>2. CASE ListingStep
    BY <1>0, <1>2, ListingStepKeepsCapital, ListingStepKeepsTotal, SumWithinKept
  <1>3. CASE AumStep
    BY <1>3, SumWithinAfterReport
  <1>4. CASE Environment \/ UNCHANGED vars
    <2>1. builder' = builder /\ listing' = listing
      BY <1>4 DEF Environment, Reconfigure, TokenTransfer, Tick, vars
    <2> QED
      BY <2>1, SumWithinKept DEF SameCapital, TotalKept
  <1> QED
    BY <1>1, <1>2, <1>3, <1>4 DEF Next

\* Whatever the vault program reports, lost, doubled or made up, the total that
\* the ceiling is compared with never exceeds the sum of the listings' AUM, for any
\* number of listings and any amounts: saturation eats the total first
\* (record_deposit, record_withdrawal).
THEOREM TotalNeverAboveSum == Spec => []TotalAumWithinSum
  <1>1. Init => SumInv
    BY IInvInit DEF SumInv, IInv, Init, TotalAumWithinSum, Exists
  <1>2. Spec => []TypeOK
    BY CapitalTypes
  <1>3. SumInv => TotalAumWithinSum
    BY DEF SumInv
  <1> QED
    BY <1>1, <1>2, <1>3, SumInvStep, PTL DEF Spec

=============================================================================
