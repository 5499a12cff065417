---------------------------- MODULE LedgerProofs ----------------------------
(***************************************************************************)
(* Theorems about the ledgers of traders' capital when the vault program   *)
(* reports what traders really do, for every value of the constants.       *)
(***************************************************************************)
EXTENDS Vaults, LifecycleProofs

-----------------------------------------------------------------------------
\* Honest reports

\* Each listing accounts for what its traders have in it: their capital, their open
\* vaults, and no capital once it is off the registry.
AccountsFor(account, capital, vaults) ==
  /\ capital = AumOf(account)
  /\ VaultsOf(account) = vaults
  /\ IsDelisted(account) => capital = 0

Accounted(b, i) == AccountsFor(listing[b][i], CapitalIn(b, i), Cardinality(open[b][i]))

VaultInv ==
  /\ TypeOK
  /\ principal \in [Builders -> [Indices -> [Traders -> Nat]]]
  /\ open \in [Builders -> [Indices -> SUBSET Traders]]
  /\ \A b \in Builders, i \in Indices : Accounted(b, i) /\ (HasListing(b, i) => Exists(b))
  /\ TotalAumIsSum

\* No part of a sum of naturals is more than the sum.
LEMMA PartWithinSum ==
  ASSUME NEW S, IsFiniteSet(S), NEW f \in [S -> Nat], NEW i \in S
  PROVE  SumFunctionOnSet(f, S) \in Nat /\ f[i] <= SumFunctionOnSet(f, S)
  <1> DEFINE g == [f EXCEPT ![i] = 0]
  <1>1. g \in [S -> Nat] /\ g[i] = 0 /\ \A j \in S : j # i => g[j] = f[j]
    OBVIOUS
  <1> HIDE DEF g
  <1>2. SumFunctionOnSet(g, S) = SumFunctionOnSet(f, S) + g[i] - f[i]
    BY <1>1, SumChange
  <1>3. SumFunctionOnSet(g, S) \in Nat /\ SumFunctionOnSet(f, S) \in Nat
    BY <1>1, SumNat
  <1> QED
    BY <1>1, <1>2, <1>3

\* A trader's move changes the capital under the listing by as much.
LEMMA CapitalMoves ==
  ASSUME NEW f \in [Traders -> Nat], NEW t \in Traders, NEW n \in Nat
  PROVE  /\ SumFunctionOnSet([f EXCEPT ![t] = n], Traders)
              = SumFunctionOnSet(f, Traders) + n - f[t]
         /\ SumFunctionOnSet([f EXCEPT ![t] = n], Traders) \in Nat
         /\ SumFunctionOnSet(f, Traders) \in Nat
         /\ f[t] <= SumFunctionOnSet(f, Traders)
  <1> DEFINE g == [f EXCEPT ![t] = n]
  <1>1. g \in [Traders -> Nat] /\ g[t] = n /\ \A j \in Traders : j # t => g[j] = f[j]
    OBVIOUS
  <1> HIDE DEF g
  <1>2. SumFunctionOnSet(g, Traders) = SumFunctionOnSet(f, Traders) + g[t] - f[t]
    BY <1>1, SumChange, TradersAssumption
  <1>3. SumFunctionOnSet(g, Traders) \in Nat
    BY <1>1, SumNat, TradersAssumption
  <1>4. SumFunctionOnSet(f, Traders) \in Nat /\ f[t] <= SumFunctionOnSet(f, Traders)
    BY PartWithinSum, TradersAssumption
  <1> QED
    BY <1>1, <1>2, <1>3, <1>4 DEF g

\* Opening and closing a vault, and counting the open ones.
LEMMA VaultsCounted ==
  ASSUME NEW S \in SUBSET Traders, NEW t \in Traders
  PROVE  /\ Cardinality(S) \in Nat
         /\ Cardinality(S \cup {t}) = Cardinality(S) + IF t \notin S THEN 1 ELSE 0
         /\ t \in S => Cardinality(S) > 0 /\ Cardinality(S \ {t}) = Cardinality(S) - 1
  <1>1. IsFiniteSet(S)
    BY FS_Subset, TradersAssumption
  <1>2. Cardinality(S) \in Nat
    BY <1>1, FS_CardinalityType
  <1>3. Cardinality(S \cup {t}) = IF t \in S THEN Cardinality(S) ELSE Cardinality(S) + 1
    BY <1>1, FS_AddElement
  <1>4. Cardinality(S \ {t}) = IF t \in S THEN Cardinality(S) - 1 ELSE Cardinality(S)
    BY <1>1, FS_RemoveElement
  <1>5. t \in S => Cardinality(S) # 0
    BY <1>1, FS_EmptySet
  <1> QED
    BY <1>2, <1>3, <1>4, <1>5

LEMMA BondStepTypes ==
  ASSUME TypeOK, BondStep
  PROVE  TypeOK' /\ listing' = listing
  <1>1. listing' = listing
    BY DEF BondStep, RegisterBuilder, StakeBond, RequestUnbond, CancelUnbond,
           WithdrawBond, SlashBond
  <1>2. TypeOK'
    BY RegisterSafe, StakeMoves, WithdrawMoves, SlashMoves, UnbondSafe, NumbersAssumption
       DEF BondStep
  <1> QED
    BY <1>1, <1>2

\* Steps that move no capital.
LEMMA VaultInvKept ==
  ASSUME VaultInv, TypeOK', principal' = principal, open' = open,
         \A c \in Builders : TotalKept(c),
         \A c \in Builders, j \in Indices :
           /\ SameCapital(listing[c][j], listing'[c][j])
           /\ listing'[c][j] # NoAccount => HasListing(c, j) \/ Exists(c)
  PROVE  VaultInv'
  <1>1. ASSUME NEW c \in Builders, NEW j \in Indices
        PROVE  Accounted(c, j)' /\ (listing'[c][j] # NoAccount => builder'[c] # NoAccount)
    <2>1. /\ Accounted(c, j) /\ SameCapital(listing[c][j], listing'[c][j])
          /\ CapitalIn(c, j)' = CapitalIn(c, j) /\ open'[c][j] = open[c][j]
      BY DEF VaultInv, CapitalIn
    <2>2. Accounted(c, j)'
      BY <2>1 DEF Accounted, AccountsFor, SameCapital
    <2> QED
      BY <2>2 DEF VaultInv, TotalKept, HasListing, Exists
  <1>2. ASSUME NEW c \in Builders, builder'[c] # NoAccount
        PROVE  builder'[c].totalAum = SumOfAum(c)'
    <2>1. SumOfAum(c)' = SumOfAum(c)
      BY SumKept DEF SameCapital
    <2>2. CASE Exists(c)
      BY <2>1, <2>2 DEF VaultInv, TotalAumIsSum, TotalKept, Exists
    <2>3. CASE ~Exists(c)
      <3>1. \A j \in Indices : AumOf(listing[c][j]) = 0
        BY <2>3 DEF VaultInv, HasListing, AumOf
      <3>2. SumOfAum(c) = 0
        BY <3>1, IndicesFinite, SumZero DEF SumOfAum
      <3> QED
        BY <1>2, <2>1, <2>3, <3>2 DEF TotalKept, Exists
    <2> QED
      BY <2>2, <2>3
  <1> QED
    BY <1>1, <1>2 DEF VaultInv, TotalAumIsSum, HasListing, Exists

\* A trader that comes or goes, with the report that goes with it.
LEMMA VaultInvMoved ==
  ASSUME VaultInv, TypeOK', NEW b \in Builders, NEW i \in Indices, Reported(b, i),
         NEW capital \in [Traders -> Nat], NEW vaults \in SUBSET Traders,
         principal' = [principal EXCEPT ![b][i] = capital],
         open' = [open EXCEPT ![b][i] = vaults],
         SumFunctionOnSet(capital, Traders) \in Nat, CapitalIn(b, i) \in Nat,
         builder'[b].totalAum =
           builder[b].totalAum + SumFunctionOnSet(capital, Traders) - CapitalIn(b, i),
         AccountsFor(listing'[b][i], SumFunctionOnSet(capital, Traders), Cardinality(vaults))
  PROVE  VaultInv'
  <1>1. /\ TypeOK /\ principal \in [Builders -> [Indices -> [Traders -> Nat]]]
        /\ open \in [Builders -> [Indices -> SUBSET Traders]]
    BY DEF VaultInv
  <1>2. \A c \in Builders, j \in Indices :
          /\ principal'[c][j] = IF c = b /\ j = i THEN capital ELSE principal[c][j]
          /\ open'[c][j] = IF c = b /\ j = i THEN vaults ELSE open[c][j]
    BY <1>1
  <1>3. /\ principal' \in [Builders -> [Indices -> [Traders -> Nat]]]
        /\ open' \in [Builders -> [Indices -> SUBSET Traders]]
    BY <1>1
  <1>4. ASSUME NEW c \in Builders, NEW j \in Indices
        PROVE  Accounted(c, j)' /\ (listing'[c][j] # NoAccount => builder'[c] # NoAccount)
    <2>1. CASE c = b /\ j = i
      BY <1>2, <2>1 DEF Reported, Accounted, CapitalIn
    <2>2. CASE ~(c = b /\ j = i)
      <3>1. /\ listing'[c][j] = listing[c][j] /\ principal'[c][j] = principal[c][j]
            /\ open'[c][j] = open[c][j]
        BY <1>2, <2>2 DEF Reported
      <3>2. builder[c] # NoAccount => builder'[c] # NoAccount
        BY DEF Reported
      <3>3. Accounted(c, j)'
        BY <3>1 DEF VaultInv, Accounted, CapitalIn
      <3> QED
        BY <3>1, <3>2, <3>3 DEF VaultInv, HasListing, Exists
    <2> QED
      BY <2>1, <2>2
  <1>5. ASSUME NEW c \in Builders, builder'[c] # NoAccount
        PROVE  builder'[c].totalAum = SumOfAum(c)'
    <2>1. CASE c # b
      <3>1. TotalKept(c) /\ \A j \in Indices : SameCapital(listing[c][j], listing'[c][j])
        BY <1>1, <2>1, OthersUnreported
      <3>2. SumOfAum(c)' = SumOfAum(c)
        BY <3>1, SumKept DEF SameCapital
      <3>3. builder'[c] = builder[c]
        BY <2>1 DEF Reported
      <3> QED
        BY <1>5, <3>2, <3>3 DEF VaultInv, TotalAumIsSum, Exists
    <2>2. CASE c = b
      <3>1. SumOfAum(b)' = SumOfAum(b) + listing'[b][i].aum - listing[b][i].aum
        BY <1>1, SumFollows
      <3>2. /\ listing'[b][i].aum = SumFunctionOnSet(capital, Traders)
            /\ listing[b][i].aum = CapitalIn(b, i)
            /\ builder[b].totalAum = SumOfAum(b) /\ SumOfAum(b) \in Nat
        BY <1>1, SumIsNatural
           DEF VaultInv, Accounted, AccountsFor, AumOf, Reported, HasListing, TotalAumIsSum
      <3> QED
        BY <2>2, <3>1, <3>2
    <2> QED
      BY <2>1, <2>2
  <1> QED
    BY <1>3, <1>4, <1>5 DEF VaultInv, TotalAumIsSum, HasListing, Exists

LEMMA TraderDepositsKeep ==
  ASSUME VaultInv, NEW b \in Builders, NEW i \in Indices, NEW t \in Traders,
         NEW amount \in Amounts, TraderDeposits(b, i, t, amount)
  PROVE  VaultInv'
  <1> DEFINE before == principal[b][i]
             flag == t \notin open[b][i]
             vaults == open[b][i] \cup {t}
  <1>1. /\ TypeOK /\ amount \in Nat /\ before \in [Traders -> Nat] /\ before[t] \in Nat
        /\ open[b][i] \in SUBSET Traders /\ vaults \in SUBSET Traders
    BY NumbersAssumption DEF VaultInv
  <1> DEFINE capital == [before EXCEPT ![t] = before[t] + amount]
  <1>2. PICK signer \in Keys : RecordDeposit(signer, b, i, amount, flag)
    BY DEF TraderDeposits
  <1>3. flag \in BOOLEAN
    OBVIOUS
  <1>4. /\ capital \in [Traders -> Nat]
        /\ principal' = [principal EXCEPT ![b][i] = capital]
        /\ open' = [open EXCEPT ![b][i] = vaults]
    BY <1>1 DEF TraderDeposits
  <1>5. /\ SumFunctionOnSet(capital, Traders) = CapitalIn(b, i) + amount
        /\ SumFunctionOnSet(capital, Traders) \in Nat /\ CapitalIn(b, i) \in Nat
    <2>1. PICK n \in Nat : n = before[t] + amount
      BY <1>1
    <2> QED
      BY <1>1, <2>1, CapitalMoves DEF CapitalIn
  <1>6. /\ Cardinality(vaults) = Cardinality(open[b][i]) + IF flag THEN 1 ELSE 0
        /\ Accounted(b, i)
    BY <1>1, VaultsCounted DEF VaultInv
  <1> HIDE DEF before, flag, vaults, capital
  <1>7. TypeOK'
    BY <1>1, <1>2, <1>3, AumStepSafe DEF AumStep
  <1>8. /\ Reported(b, i) /\ amount > 0 /\ listing[b][i].status = "Live"
        /\ builder'[b].totalAum = builder[b].totalAum + amount
        /\ listing'[b][i].aum = listing[b][i].aum + amount
        /\ listing'[b][i].vaultCount = listing[b][i].vaultCount + IF flag THEN 1 ELSE 0
    BY <1>1, <1>2, <1>3, DepositMoves
  <1>9. AccountsFor(listing'[b][i], SumFunctionOnSet(capital, Traders), Cardinality(vaults))
    BY <1>5, <1>6, <1>8
       DEF Accounted, AccountsFor, AumOf, VaultsOf, IsDelisted, Reported, HasListing
  <1>10. builder'[b].totalAum =
           builder[b].totalAum + SumFunctionOnSet(capital, Traders) - CapitalIn(b, i)
    <2>1. builder[b].totalAum \in Nat
      BY <1>1, <1>8 DEF Reported, TypeOK, Exists, BuilderAccount
    <2> QED
      BY <1>1, <1>5, <1>8, <2>1
  <1> QED
    <2>1. vaults \in SUBSET Traders
      BY <1>1
    <2> QED
      BY <1>4, <1>5, <1>7, <1>8, <1>9, <1>10, <2>1, VaultInvMoved

LEMMA TraderWithdrawsKeep ==
  ASSUME VaultInv, NEW b \in Builders, NEW i \in Indices, NEW t \in Traders,
         NEW amount \in Amounts, NEW closes \in BOOLEAN,
         TraderWithdraws(b, i, t, amount, closes)
  PROVE  VaultInv'
  <1> DEFINE before == principal[b][i]
             vaults == IF closes THEN open[b][i] \ {t} ELSE open[b][i]
  <1>1. /\ TypeOK /\ amount \in Nat /\ before \in [Traders -> Nat] /\ before[t] \in Nat
        /\ amount <= before[t]
        /\ closes => t \in open[b][i]
        /\ open[b][i] \in SUBSET Traders /\ vaults \in SUBSET Traders
    BY NumbersAssumption DEF VaultInv, TraderWithdraws
  <1>3. PICK left \in Nat : left = before[t] - amount
    BY <1>1
  <1> DEFINE capital == [before EXCEPT ![t] = left]
  <1>2. PICK signer \in Keys : RecordWithdrawal(signer, b, i, amount, closes)
    BY DEF TraderWithdraws
  <1>4. /\ capital \in [Traders -> Nat]
        /\ principal' = [principal EXCEPT ![b][i] = capital]
        /\ open' = [open EXCEPT ![b][i] = vaults]
    BY <1>1, <1>3 DEF TraderWithdraws
  <1>5. /\ SumFunctionOnSet(capital, Traders) = CapitalIn(b, i) - amount
        /\ SumFunctionOnSet(capital, Traders) \in Nat /\ CapitalIn(b, i) \in Nat
        /\ amount <= CapitalIn(b, i)
    <2> HIDE DEF before
    <2>1. /\ SumFunctionOnSet(capital, Traders)
                = SumFunctionOnSet(before, Traders) + left - before[t]
          /\ SumFunctionOnSet(capital, Traders) \in Nat
          /\ SumFunctionOnSet(before, Traders) \in Nat
          /\ before[t] <= SumFunctionOnSet(before, Traders)
      BY <1>1, CapitalMoves
    <2>2. CapitalIn(b, i) = SumFunctionOnSet(before, Traders)
      BY DEF CapitalIn, before
    <2> QED
      BY <1>1, <1>3, <2>1, <2>2
  <1>6. /\ Cardinality(open[b][i]) \in Nat
        /\ Cardinality(vaults) = Cardinality(open[b][i]) - IF closes THEN 1 ELSE 0
        /\ closes => Cardinality(open[b][i]) > 0
        /\ Accounted(b, i)
    <2>1. /\ Cardinality(open[b][i]) \in Nat
          /\ t \in open[b][i] =>
               /\ Cardinality(open[b][i]) > 0
               /\ Cardinality(open[b][i] \ {t}) = Cardinality(open[b][i]) - 1
      BY <1>1, VaultsCounted
    <2>2. Accounted(b, i)
      BY DEF VaultInv
    <2>3. CASE closes
      BY <1>1, <2>1, <2>2, <2>3
    <2>4. CASE ~closes
      <3>1. vaults = open[b][i]
        BY <2>4
      <3>2. Cardinality(open[b][i]) = Cardinality(open[b][i]) - IF closes THEN 1 ELSE 0
        BY <2>1, <2>4
      <3> QED
        BY <2>1, <2>2, <2>4, <3>1, <3>2, Zenon
    <2> QED
      BY <2>3, <2>4
  <1> HIDE DEF before, vaults, capital
  <1>7. TypeOK'
    BY <1>1, <1>2, AumStepSafe DEF AumStep
  <1>8. /\ Reported(b, i) /\ amount > 0
        /\ builder'[b].totalAum = SaturatingSub(builder[b].totalAum, amount)
        /\ listing'[b][i].aum = SaturatingSub(listing[b][i].aum, amount)
        /\ listing'[b][i].vaultCount =
             SaturatingSub(listing[b][i].vaultCount, IF closes THEN 1 ELSE 0)
    BY <1>1, <1>2, WithdrawalMoves
  <1>9. /\ listing[b][i].aum = CapitalIn(b, i)
        /\ listing[b][i].vaultCount = Cardinality(open[b][i])
        /\ listing[b][i].status # "Delisted"
    BY <1>1, <1>5, <1>6, <1>8
       DEF Accounted, AccountsFor, AumOf, VaultsOf, IsDelisted, Reported, HasListing
  <1>10. AccountsFor(listing'[b][i], SumFunctionOnSet(capital, Traders), Cardinality(vaults))
    BY <1>1, <1>5, <1>6, <1>8, <1>9
       DEF AccountsFor, AumOf, VaultsOf, IsDelisted, Reported, SaturatingSub
  <1>11. builder'[b].totalAum =
           builder[b].totalAum + SumFunctionOnSet(capital, Traders) - CapitalIn(b, i)
    <2>1. builder[b].totalAum = SumOfAum(b)
      BY <1>8 DEF VaultInv, TotalAumIsSum, Reported
    <2>2. SumOfAum(b) \in Nat /\ SumOfAum(b) >= CapitalIn(b, i)
      <3> DEFINE f == [j \in Indices |-> AumOf(listing[b][j])]
      <3>1. f \in [Indices -> Nat]
        BY <1>1 DEF TypeOK, AumOf, ListingAccount
      <3>2. f[i] = CapitalIn(b, i)
        BY <1>6 DEF Accounted, AccountsFor
      <3>3. SumOfAum(b) = SumFunctionOnSet(f, Indices)
        BY DEF SumOfAum
      <3> HIDE DEF f
      <3> QED
        BY <1>5, <3>1, <3>2, <3>3, IndicesFinite, PartWithinSum
    <2> QED
      BY <1>1, <1>5, <1>8, <2>1, <2>2 DEF SaturatingSub
  <1> QED
    <2>1. vaults \in SUBSET Traders
      BY <1>1
    <2> QED
      BY <1>4, <1>5, <1>7, <1>8, <1>10, <1>11, <2>1, VaultInvMoved

LEMMA VaultInvStep == VaultInv /\ [VaultNext]_vaultVars => VaultInv'
  <1> SUFFICES ASSUME VaultInv, [VaultNext]_vaultVars PROVE VaultInv'
    OBVIOUS
  <1>0. TypeOK
    BY DEF VaultInv
  <1>1. CASE TraderStep
    BY <1>1, TraderDepositsKeep, TraderWithdrawsKeep DEF TraderStep
  <1>2. ASSUME TypeOK', UNCHANGED <<principal, open>>, listing' = listing,
               \A c \in Builders : TotalKept(c)
        PROVE  VaultInv'
    BY <1>2, VaultInvKept DEF SameCapital, HasListing
  <1>3. ASSUME UNCHANGED <<principal, open>>, BondStep
        PROVE  VaultInv'
    BY <1>0, <1>2, <1>3, BondStepTypes, BondStepKeepsTotal
  <1>4. ASSUME NEW b \in Builders, DecidesToLeave(b)
        PROVE  VaultInv'
    BY <1>0, <1>2, <1>4 DEF DecidesToLeave, vars, TypeOK, TotalKept
  <1>5. ASSUME NEW b \in Builders, AsksForBond(b)
        PROVE  VaultInv'
    BY <1>3, <1>5 DEF AsksForBond, BondStep
  <1>6. ASSUME NEW b \in Builders, TakesBondHome(b)
        PROVE  VaultInv'
    <2>1. PICK amount : amount = builder[b].bond
      OBVIOUS
    <2>2. PICK destination \in Wallets : WithdrawBond(b, destination, amount)
      BY <1>6, <2>1 DEF TakesBondHome
    <2>3. amount \in Nat /\ destination \in TokenAccounts
      BY <1>0, <2>1, <2>2 DEF WithdrawBond, TypeOK, Exists, BuilderAccount, TokenAccounts
    <2>4. TypeOK' /\ \A c \in Builders : TotalKept(c)
      BY <1>0, <2>2, <2>3, WithdrawMoves, WithdrawKeepsTotal
    <2>5. UNCHANGED <<listing, principal, open>>
      BY <1>6, <2>2 DEF WithdrawBond, TakesBondHome
    <2> QED
      BY <1>2, <2>4, <2>5
  <1>7. ASSUME ListingStep, UNCHANGED <<principal, open>>
        PROVE  VaultInv'
    BY <1>0, <1>7, ListingStepSafe, ListingStepKeepsCapital, ListingStepKeepsTotal, VaultInvKept
  <1>8. ASSUME Reconfigure \/ Tick, UNCHANGED <<principal, open>>
        PROVE  VaultInv'
    <2>1. TypeOK'
      BY <1>0, <1>8, EnvironmentSafe DEF Environment
    <2>2. builder' = builder /\ listing' = listing
      BY <1>8 DEF Reconfigure, Tick
    <2> QED
      BY <1>2, <1>8, <2>1, <2>2 DEF TotalKept
  <1>9. CASE UNCHANGED vaultVars
    BY <1>0, <1>2, <1>9 DEF vaultVars, vars, TypeOK, TotalKept
  <1> QED
    BY <1>1, <1>3, <1>4, <1>5, <1>6, <1>7, <1>8, <1>9 DEF VaultNext, VaultTick

LEMMA VaultInvInit == VaultInit => VaultInv
  <1> SUFFICES ASSUME VaultInit PROVE VaultInv
    OBVIOUS
  <1>1. TypeOK
    BY IInvInit DEF VaultInit, IInv
  <1>2. /\ principal \in [Builders -> [Indices -> [Traders -> Nat]]]
        /\ open \in [Builders -> [Indices -> SUBSET Traders]]
    BY DEF VaultInit
  <1>3. ASSUME NEW b \in Builders, NEW i \in Indices
        PROVE  Accounted(b, i) /\ ~HasListing(b, i)
    <2>1. listing[b][i] = NoAccount /\ open[b][i] = {}
      BY DEF VaultInit, Init
    <2>2. \A t \in Traders : principal[b][i][t] = 0
      BY DEF VaultInit
    <2>3. CapitalIn(b, i) = 0
      BY <2>2, SumZero, TradersAssumption DEF CapitalIn
    <2> QED
      BY <2>1, <2>3, FS_EmptySet
         DEF Accounted, AccountsFor, AumOf, VaultsOf, IsDelisted, HasListing
  <1>4. \A b \in Builders : ~Exists(b)
    BY DEF VaultInit, Init, Exists
  <1> QED
    BY <1>1, <1>2, <1>3, <1>4 DEF VaultInv, TotalAumIsSum

LEMMA VaultInvariance == VaultSpec => []VaultInv
  BY VaultInvInit, VaultInvStep, PTL DEF VaultSpec

\* While reports are honest the listing's AUM is the capital of its traders, its
\* vault count the number of open vaults, and the builder's total the sum, exactly,
\* for any number of traders' moves over any number of listings, vaults closed early
\* or left open and empty: the saturating subtractions never saturate
\* (record_deposit, record_withdrawal).
THEOREM LedgersStayEqual == VaultSpec => []LedgersAgree
  <1>1. VaultInv => LedgersAgree
    BY DEF VaultInv, LedgersAgree, Accounted, AccountsFor, VaultsOf, VaultCountOf
  <1> QED
    BY <1>1, VaultInvariance, PTL

\* No trader, whether its vault is open or closed, has capital under a delisted
\* listing (delist, which looks at aum_current alone, against every order of
\* deposits, withdrawals and closings).
THEOREM NobodyIsStranded == VaultSpec => []NobodyStranded
  <1>1. VaultInv => NobodyStranded
    <2> SUFFICES ASSUME VaultInv, NEW b \in Builders, NEW i \in Indices, NEW t \in Traders,
                        HasListing(b, i), listing[b][i].status = "Delisted"
                 PROVE  principal[b][i][t] = 0
      BY DEF NobodyStranded
    <2>1. CapitalIn(b, i) = 0
      BY DEF VaultInv, Accounted, AccountsFor, IsDelisted, HasListing
    <2>2. principal[b][i] \in [Traders -> Nat]
      BY DEF VaultInv
    <2>3. principal[b][i][t] <= CapitalIn(b, i) /\ principal[b][i][t] \in Nat
      BY <2>2, PartWithinSum, TradersAssumption DEF CapitalIn
    <2> QED
      BY <2>1, <2>3
  <1> QED
    BY <1>1, VaultInvariance, PTL
=============================================================================
