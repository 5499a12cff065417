--------------------------- MODULE CapitalProofs ---------------------------
(***************************************************************************)
(* Theorems about Capital, for every value of its constants.               *)
(***************************************************************************)
EXTENDS Capital, TLAPS

-----------------------------------------------------------------------------
\* Operators

\* The tier of a bond exists, is the highest whose threshold the bond reaches,
\* and is a tier number.
LEMMA TierForBondSpec ==
  ASSUME NEW table \in TierTable, NEW bond \in Nat
  PROVE  /\ TierForBond(table, bond) \in 0..TierCount
         /\ TierForBond(table, bond) > 0 => bond >= table.bonds[TierForBond(table, bond)]
         /\ \A i \in (TierForBond(table, bond) + 1)..TierCount : bond < table.bonds[i]
  <1> DEFINE P(t) == /\ t > 0 => bond >= table.bonds[t]
                     /\ \A i \in (t + 1)..TierCount : bond < table.bonds[i]
  <1>1. table.bonds[1] \in Nat /\ table.bonds[2] \in Nat /\ table.bonds[3] \in Nat
    BY DEF TierTable, TierVector, TierCount
  <1>2. \E t \in 0..TierCount : P(t)
    <2>1. CASE bond >= table.bonds[3]
      BY <2>1 DEF TierCount
    <2>2. CASE bond < table.bonds[3] /\ bond >= table.bonds[2]
      <3>1. P(2)
        BY <2>2 DEF TierCount
      <3> QED
        BY <3>1 DEF TierCount
    <2>3. CASE bond < table.bonds[3] /\ bond < table.bonds[2] /\ bond >= table.bonds[1]
      <3>1. P(1)
        BY <2>3 DEF TierCount
      <3> QED
        BY <3>1 DEF TierCount
    <2>4. CASE bond < table.bonds[3] /\ bond < table.bonds[2] /\ bond < table.bonds[1]
      <3>1. P(0)
        BY <2>4 DEF TierCount
      <3> QED
        BY <3>1 DEF TierCount
    <2> QED
      BY <1>1, <2>1, <2>2, <2>3, <2>4
  <1>3. TierForBond(table, bond) = CHOOSE t \in 0..TierCount : P(t)
    BY DEF TierForBond
  <1> HIDE DEF P
  <1>4. TierForBond(table, bond) \in 0..TierCount /\ P(TierForBond(table, bond))
    BY <1>2, <1>3
  <1> QED
    BY <1>4 DEF P

\* A slash splits exactly: no unit is lost or made, and the traders' share is
\* 70% to within one unit.
LEMMA SlashSplitsExactly ==
  ASSUME NEW amount \in Nat
  PROVE  /\ TraderCut(amount) \in 0..amount
         /\ BuybackCut(amount) \in 0..amount
         /\ TraderCut(amount) + BuybackCut(amount) = amount
         /\ 10 * TraderCut(amount) <= 7 * amount
         /\ 7 * amount < 10 * TraderCut(amount) + 10
  BY DEF TraderCut, BuybackCut, SlashTraderBps, BpsDenominator

\* Different builders have different escrows, and no escrow is a wallet.
LEMMA EscrowsApart ==
  ASSUME NEW b \in Builders
  PROVE  /\ BondVault(b) \in TokenAccounts
         /\ BondVault(b) \notin Wallets
         /\ \A c \in Builders : BondVault(b) = BondVault(c) => b = c
  <1>1. BondVault(b) \in BondVaults
    BY DEF BondVaults
  <1>2. \A c \in Builders : BondVault(b) = BondVault(c) => b = c
    BY DEF BondVault
  <1> QED
    BY <1>1, <1>2, WalletsAssumption DEF TokenAccounts

\* A transfer that the source can pay for keeps balances natural, and takes from
\* the source at most the amount and from nobody else anything.
LEMMA TransferSpec ==
  ASSUME NEW balances \in [TokenAccounts -> Nat], NEW from \in TokenAccounts,
         NEW to \in TokenAccounts, NEW amount \in Nat, CanPay(balances, from, amount)
  PROVE  /\ Transfer(balances, from, to, amount) \in [TokenAccounts -> Nat]
         /\ Transfer(balances, from, to, amount)[from] >= balances[from] - amount
         /\ \A a \in TokenAccounts \ {from} :
              Transfer(balances, from, to, amount)[a] >= balances[a]
  <1> DEFINE after(a) == balances[a] - (IF a = from THEN amount ELSE 0)
                                     + (IF a = to THEN amount ELSE 0)
  <1>1. \A a \in TokenAccounts : balances[a] \in Nat
    OBVIOUS
  <1>2. balances[from] >= amount
    BY DEF CanPay
  <1>3. \A a \in TokenAccounts : after(a) \in Nat
    BY <1>1, <1>2
  <1>4. after(from) >= balances[from] - amount
        /\ \A a \in TokenAccounts \ {from} : after(a) >= balances[a]
    BY <1>1
  <1>5. Transfer(balances, from, to, amount) = [a \in TokenAccounts |-> after(a)]
    BY DEF Transfer
  <1> HIDE DEF after
  <1> QED
    BY <1>3, <1>4, <1>5

-----------------------------------------------------------------------------
\* Types

LEMMA ReceiversAreAccounts ==
  ASSUME NEW a, CanReceive(a)
  PROVE  a \in TokenAccounts
  BY DEF CanReceive, TokenAccounts, BondVaults

\* A bond instruction leaves a well-typed builder.
LEMMA RebondedType ==
  ASSUME TypeOK, config # NoAccount, NEW b \in Builders, Exists(b), NEW bond \in Nat
  PROVE  /\ Rebonded(b, bond) \in BuilderAccount
         /\ Rebonded(b, bond).bond = bond
         /\ Withdrawn(b, bond) \in BuilderAccount
         /\ Withdrawn(b, bond).bond = bond
  <1>1. builder[b] \in BuilderAccount /\ config \in ConfigAccount
    BY DEF TypeOK, Exists
  <1>2. config.tiers \in TierTable
    BY <1>1 DEF ConfigAccount
  <1>3. TierForBond(config.tiers, bond) \in 0..TierCount
    BY <1>2, TierForBondSpec
  <1>4. Rebonded(b, bond) \in BuilderAccount /\ Rebonded(b, bond).bond = bond
    BY <1>1, <1>3 DEF Rebonded, BuilderAccount
  <1> QED
    BY <1>4 DEF Withdrawn, BuilderAccount

LEMMA SlashedType ==
  ASSUME TypeOK, config # NoAccount, NEW b \in Builders, Exists(b),
         NEW amount \in Nat, amount <= builder[b].bond
  PROVE  Slashed(b, amount) \in BuilderAccount
         /\ Slashed(b, amount).bond = builder[b].bond - amount
  <1>1. builder[b] \in BuilderAccount
    BY DEF TypeOK, Exists
  <1>2. builder[b].bond - amount \in Nat
    BY <1>1 DEF BuilderAccount
  <1> DEFINE r == Rebonded(b, builder[b].bond - amount)
  <1>3. r \in BuilderAccount /\ r.bond = builder[b].bond - amount
    BY <1>2, RebondedType
  <1>4. Slashed(b, amount) =
          [r EXCEPT !.slashCount = IF r.slashCount < U16Max THEN r.slashCount + 1
                                                            ELSE r.slashCount]
    BY DEF Slashed
  <1>5. r.slashCount \in 0..U16Max
    BY <1>3 DEF BuilderAccount
  <1> DEFINE count == IF r.slashCount < U16Max THEN r.slashCount + 1 ELSE r.slashCount
  <1>6. count \in 0..U16Max
    BY <1>5, NumbersAssumption
  <1>7. Slashed(b, amount) = [r EXCEPT !.slashCount = count]
    BY <1>4
  <1> HIDE DEF r, count
  <1> QED
    BY <1>3, <1>6, <1>7 DEF BuilderAccount

\* The balances and the bond after each of the three bond movements.
LEMMA StakeMoves ==
  ASSUME TypeOK, NEW b \in Builders, NEW source \in Wallets, NEW amount \in Amounts,
         StakeBond(b, source, amount)
  PROVE  /\ TypeOK'
         /\ builder'[b].bond = builder[b].bond + amount
         /\ \A c \in Builders \ {b} : builder'[c] = builder[c]
         /\ token'[BondVault(b)] = token[BondVault(b)] + amount
         /\ \A c \in Builders \ {b} : token'[BondVault(c)] = token[BondVault(c)]
  <1>1. /\ config # NoAccount /\ Exists(b) /\ CanPay(token, source, amount)
        /\ token' = Transfer(token, source, BondVault(b), amount)
        /\ builder' = [builder EXCEPT ![b] = Rebonded(b, builder[b].bond + amount)]
        /\ UNCHANGED <<now, config, governance, listing>>
    BY DEF StakeBond
  <1>2. amount \in Nat /\ source \in TokenAccounts /\ token \in [TokenAccounts -> Nat]
    BY NumbersAssumption DEF TypeOK, TokenAccounts
  <1>3. builder[b] \in BuilderAccount
    BY <1>1 DEF TypeOK, Exists
  <1>4. builder[b].bond + amount \in Nat
    BY <1>2, <1>3 DEF BuilderAccount
  <1>5. Rebonded(b, builder[b].bond + amount) \in BuilderAccount
        /\ Rebonded(b, builder[b].bond + amount).bond = builder[b].bond + amount
    BY <1>1, <1>4, RebondedType
  <1>6. token' \in [TokenAccounts -> Nat]
    BY <1>1, <1>2, EscrowsApart, TransferSpec
  <1>7. TypeOK'
    BY <1>1, <1>5, <1>6 DEF TypeOK
  <1>8. builder'[b].bond = builder[b].bond + amount
        /\ \A c \in Builders \ {b} : builder'[c] = builder[c]
    BY <1>1, <1>5 DEF TypeOK
  <1>9. /\ token'[BondVault(b)] = token[BondVault(b)] + amount
        /\ \A c \in Builders \ {b} : token'[BondVault(c)] = token[BondVault(c)]
    <2>1. \A c \in Builders : BondVault(c) # source /\ BondVault(c) \in TokenAccounts
      BY EscrowsApart
    <2>2. \A c \in Builders \ {b} : BondVault(c) # BondVault(b)
      BY EscrowsApart
    <2>3. \A a \in TokenAccounts : token[a] \in Nat /\ token'[a] =
            token[a] - (IF a = source THEN amount ELSE 0)
                     + (IF a = BondVault(b) THEN amount ELSE 0)
      BY <1>1, <1>2 DEF Transfer
    <2> QED
      BY <1>2, <2>1, <2>2, <2>3
  <1> QED
    BY <1>7, <1>8, <1>9

LEMMA WithdrawMoves ==
  ASSUME TypeOK, NEW b \in Builders, NEW destination \in TokenAccounts,
         NEW amount \in Nat, WithdrawBond(b, destination, amount)
  PROVE  /\ TypeOK'
         /\ builder'[b].bond = builder[b].bond - amount
         /\ \A c \in Builders \ {b} : builder'[c] = builder[c]
         /\ token'[BondVault(b)] >= token[BondVault(b)] - amount
         /\ \A c \in Builders \ {b} : token'[BondVault(c)] >= token[BondVault(c)]
  <1>1. /\ config # NoAccount /\ Exists(b) /\ CanPay(token, BondVault(b), amount)
        /\ amount <= builder[b].bond
        /\ token' = Transfer(token, BondVault(b), destination, amount)
        /\ builder' = [builder EXCEPT ![b] = Withdrawn(b, builder[b].bond - amount)]
        /\ UNCHANGED <<now, config, governance, listing>>
    BY DEF WithdrawBond
  <1>2. amount \in Nat /\ token \in [TokenAccounts -> Nat]
    BY NumbersAssumption DEF TypeOK
  <1>3. builder[b] \in BuilderAccount
    BY <1>1 DEF TypeOK, Exists
  <1>4. builder[b].bond - amount \in Nat
    BY <1>1, <1>2, <1>3 DEF BuilderAccount
  <1>5. Withdrawn(b, builder[b].bond - amount) \in BuilderAccount
        /\ Withdrawn(b, builder[b].bond - amount).bond = builder[b].bond - amount
    BY <1>1, <1>4, RebondedType
  <1>6. /\ token' \in [TokenAccounts -> Nat]
        /\ token'[BondVault(b)] >= token[BondVault(b)] - amount
        /\ \A a \in TokenAccounts \ {BondVault(b)} : token'[a] >= token[a]
    BY <1>1, <1>2, EscrowsApart, TransferSpec
  <1>7. TypeOK'
    BY <1>1, <1>5, <1>6 DEF TypeOK
  <1>8. builder'[b].bond = builder[b].bond - amount
        /\ \A c \in Builders \ {b} : builder'[c] = builder[c]
    BY <1>1, <1>5 DEF TypeOK
  <1> QED
    BY <1>6, <1>7, <1>8, EscrowsApart

LEMMA SlashMoves ==
  ASSUME TypeOK, NEW signer \in Keys, NEW b \in Builders,
         NEW traders \in TokenAccounts, NEW buyback \in TokenAccounts,
         NEW amount \in Amounts, SlashBond(signer, b, traders, buyback, amount)
  PROVE  /\ TypeOK'
         /\ builder'[b].bond = builder[b].bond - amount
         /\ \A c \in Builders \ {b} : builder'[c] = builder[c]
         /\ token'[BondVault(b)] >= token[BondVault(b)] - amount
         /\ \A c \in Builders \ {b} : token'[BondVault(c)] >= token[BondVault(c)]
  <1> DEFINE compensated == Transfer(token, BondVault(b), traders, TraderCut(amount))
  <1>1. /\ config # NoAccount /\ Exists(b)
        /\ amount <= builder[b].bond
        /\ CanPay(token, BondVault(b), TraderCut(amount))
        /\ CanPay(compensated, BondVault(b), BuybackCut(amount))
        /\ token' = Transfer(compensated, BondVault(b), buyback, BuybackCut(amount))
        /\ builder' = [builder EXCEPT ![b] = Slashed(b, amount)]
        /\ UNCHANGED <<now, config, governance, listing>>
    BY DEF SlashBond, SignedByAuthority
  <1>2. amount \in Nat /\ token \in [TokenAccounts -> Nat]
    BY NumbersAssumption DEF TypeOK
  <1>3. /\ TraderCut(amount) \in Nat /\ BuybackCut(amount) \in Nat
        /\ TraderCut(amount) + BuybackCut(amount) = amount
    BY <1>2, SlashSplitsExactly
  <1>4. /\ compensated \in [TokenAccounts -> Nat]
        /\ compensated[BondVault(b)] >= token[BondVault(b)] - TraderCut(amount)
        /\ \A a \in TokenAccounts \ {BondVault(b)} : compensated[a] >= token[a]
    BY <1>1, <1>2, <1>3, EscrowsApart, TransferSpec
  <1> HIDE DEF compensated
  <1>5. /\ token' \in [TokenAccounts -> Nat]
        /\ token'[BondVault(b)] >= compensated[BondVault(b)] - BuybackCut(amount)
        /\ \A a \in TokenAccounts \ {BondVault(b)} : token'[a] >= compensated[a]
    BY <1>1, <1>3, <1>4, EscrowsApart, TransferSpec
  <1>6. /\ token'[BondVault(b)] >= token[BondVault(b)] - amount
        /\ \A a \in TokenAccounts \ {BondVault(b)} : token'[a] >= token[a]
    <2>1. \A a \in TokenAccounts :
            token[a] \in Nat /\ compensated[a] \in Nat /\ token'[a] \in Nat
      BY <1>2, <1>4, <1>5
    <2> QED
      BY <1>2, <1>3, <1>4, <1>5, <2>1, EscrowsApart
  <1>7. Slashed(b, amount) \in BuilderAccount
        /\ Slashed(b, amount).bond = builder[b].bond - amount
    BY <1>1, <1>2, SlashedType
  <1>8. TypeOK'
    BY <1>1, <1>5, <1>7 DEF TypeOK
  <1>9. builder'[b].bond = builder[b].bond - amount
        /\ \A c \in Builders \ {b} : builder'[c] = builder[c]
    BY <1>1, <1>7 DEF TypeOK
  <1> QED
    BY <1>6, <1>8, <1>9, EscrowsApart

\* What the remaining instructions may do to a builder: everything but the bond.
SameBonds ==
  \A b \in Builders :
    /\ Exists(b)' <=> Exists(b)
    /\ Exists(b) => builder'[b].bond = builder[b].bond

LEMMA RegisterSafe ==
  ASSUME TypeOK, NEW b \in Builders, RegisterBuilder(b)
  PROVE  /\ TypeOK'
         /\ builder'[b].bond = 0
         /\ \A c \in Builders \ {b} : builder'[c] = builder[c]
         /\ token' = token
  <1> DEFINE new == [bond |-> 0, totalAum |-> 0, tier |-> 0, unbondRequestedAt |-> 0,
                     slashCount |-> 0, agentCount |-> 0]
  <1>1. new \in BuilderAccount
    BY NumbersAssumption DEF BuilderAccount, TierCount
  <1>2. builder' = [builder EXCEPT ![b] = new]
        /\ UNCHANGED <<now, config, governance, listing, token>>
    BY DEF RegisterBuilder
  <1> HIDE DEF new
  <1>3. TypeOK'
    BY <1>1, <1>2 DEF TypeOK
  <1>4. builder'[b] = new /\ \A c \in Builders \ {b} : builder'[c] = builder[c]
    BY <1>2 DEF TypeOK
  <1> QED
    BY <1>2, <1>3, <1>4 DEF new

\* An instruction that writes one builder without touching its bond.
LEMMA BuilderWriteSafe ==
  ASSUME TypeOK, NEW b \in Builders, Exists(b), NEW new \in BuilderAccount,
         new.bond = builder[b].bond,
         builder' = [builder EXCEPT ![b] = new]
  PROVE  builder' \in [Builders -> BuilderAccount \cup {NoAccount}] /\ SameBonds
  <1>1. builder' \in [Builders -> BuilderAccount \cup {NoAccount}]
    BY DEF TypeOK
  <1>2. builder'[b] = new /\ \A c \in Builders \ {b} : builder'[c] = builder[c]
    BY DEF TypeOK
  <1> QED
    BY <1>1, <1>2, NoAccountAssumption DEF SameBonds, Exists

LEMMA UnbondSafe ==
  ASSUME TypeOK, NEW b \in Builders, RequestUnbond(b) \/ CancelUnbond(b)
  PROVE  TypeOK' /\ SameBonds /\ token' = token
  <1>1. Exists(b) /\ UNCHANGED <<now, config, governance, listing, token>>
    BY DEF RequestUnbond, CancelUnbond
  <1>2. PICK t \in Nat : builder' = [builder EXCEPT ![b].unbondRequestedAt = t]
    BY DEF RequestUnbond, CancelUnbond, TypeOK
  <1> DEFINE new == [builder[b] EXCEPT !.unbondRequestedAt = t]
  <1>3. builder[b] \in BuilderAccount
    BY <1>1 DEF TypeOK, Exists
  <1>4. new \in BuilderAccount /\ new.bond = builder[b].bond
    BY <1>3 DEF BuilderAccount
  <1>5. builder' = [builder EXCEPT ![b] = new]
    BY <1>2
  <1> HIDE DEF new
  <1>6. builder' \in [Builders -> BuilderAccount \cup {NoAccount}] /\ SameBonds
    BY <1>1, <1>4, <1>5, BuilderWriteSafe
  <1> QED
    BY <1>1, <1>6 DEF TypeOK

\* An instruction that writes one listing.
LEMMA ListingWriteSafe ==
  ASSUME TypeOK, NEW b \in Builders, NEW i \in Indices, NEW new \in ListingAccount,
         listing' = [listing EXCEPT ![b][i] = new]
  PROVE  listing' \in [Builders -> [Indices -> ListingAccount \cup {NoAccount}]]
  BY DEF TypeOK

LEMMA ListingStepSafe ==
  ASSUME TypeOK, ListingStep
  PROVE  TypeOK' /\ SameBonds /\ token' = token
  <1>1. ASSUME NEW b \in Builders, NEW bot \in BotKeys, SubmitListing(b, bot)
        PROVE  TypeOK' /\ SameBonds /\ token' = token
    <2> DEFINE index == builder[b].agentCount
               new == [agentAuthority |-> bot, status |-> "Vetting", fees |-> ZeroFees,
                       aum |-> 0, vaultCount |-> 0]
    <2>1. /\ Exists(b) /\ index < U16Max
          /\ listing' = [listing EXCEPT ![b][index] = new]
          /\ builder' = [builder EXCEPT ![b] = Counted(b, index)]
          /\ UNCHANGED <<now, config, governance, token>>
      BY <1>1 DEF SubmitListing
    <2>2. builder[b] \in BuilderAccount
      BY <2>1 DEF TypeOK, Exists
    <2>3. index \in Indices /\ index + 1 \in 0..U16Max
      BY <2>1, <2>2, NumbersAssumption DEF BuilderAccount, Indices
    <2>4. ZeroFees \in FeeConfig
      BY DEF ZeroFees, FeeConfig
    <2>5. new \in ListingAccount
      BY <2>4, NumbersAssumption DEF ListingAccount, Statuses
    <2>6. Counted(b, index) \in BuilderAccount /\ Counted(b, index).bond = builder[b].bond
      BY <2>2, <2>3 DEF Counted, BuilderAccount
    <2> HIDE DEF index, new
    <2>7. listing' \in [Builders -> [Indices -> ListingAccount \cup {NoAccount}]]
      BY <2>1, <2>3, <2>5, ListingWriteSafe
    <2>8. builder' \in [Builders -> BuilderAccount \cup {NoAccount}] /\ SameBonds
      BY <2>1, <2>6, BuilderWriteSafe
    <2> QED
      BY <2>1, <2>7, <2>8 DEF TypeOK
  <1>2. ASSUME NEW b \in Builders, NEW i \in Indices, NEW new \in ListingAccount,
               listing' = [listing EXCEPT ![b][i] = new],
               UNCHANGED <<now, config, governance, builder, token>>
        PROVE  TypeOK' /\ SameBonds /\ token' = token
    BY <1>2, ListingWriteSafe DEF TypeOK, SameBonds, Exists
  <1>3. ASSUME NEW b \in Builders, NEW i \in Indices, NEW bot \in BotKeys,
               RotateAgentAuthority(b, i, bot)
        PROVE  TypeOK' /\ SameBonds /\ token' = token
    <2> DEFINE new == [listing[b][i] EXCEPT !.agentAuthority = bot]
    <2>1. listing[b][i] \in ListingAccount
      BY <1>3 DEF RotateAgentAuthority, HasListing, TypeOK
    <2>2. new \in ListingAccount
      BY <2>1 DEF ListingAccount
    <2>3. listing' = [listing EXCEPT ![b][i] = new]
      BY <1>3 DEF RotateAgentAuthority
    <2> QED
      BY <1>2, <1>3, <2>2, <2>3 DEF RotateAgentAuthority
  <1>4. ASSUME NEW signer \in Keys, NEW b \in Builders, NEW i \in Indices,
               NEW fees \in FeeConfigs, ApproveListing(signer, b, i, fees)
        PROVE  TypeOK' /\ SameBonds /\ token' = token
    <2> DEFINE new == [listing[b][i] EXCEPT !.fees = fees, !.status = "Live"]
    <2>1. listing[b][i] \in ListingAccount
      BY <1>4 DEF ApproveListing, HasListing, TypeOK
    <2>2. fees \in FeeConfig
      BY EnvironmentAssumption
    <2>3. new \in ListingAccount
      BY <2>1, <2>2 DEF ListingAccount, Statuses
    <2>4. listing' = [listing EXCEPT ![b][i] = new]
      BY <1>4 DEF ApproveListing, Approved
    <2> QED
      BY <1>2, <1>4, <2>3, <2>4 DEF ApproveListing
  <1>5. ASSUME NEW b \in Builders, NEW i \in Indices, NEW status \in Statuses,
               HasListing(b, i), MoveTo(b, i, status)
        PROVE  TypeOK' /\ SameBonds /\ token' = token
    <2> DEFINE new == [listing[b][i] EXCEPT !.status = status]
    <2>1. listing[b][i] \in ListingAccount
      BY <1>5 DEF HasListing, TypeOK
    <2>2. new \in ListingAccount
      BY <2>1 DEF ListingAccount
    <2>3. listing' = [listing EXCEPT ![b][i] = new]
      BY <1>5 DEF MoveTo
    <2> QED
      BY <1>2, <1>5, <2>2, <2>3 DEF MoveTo
  <1> QED
    BY <1>1, <1>3, <1>4, <1>5
       DEF ListingStep, PauseListing, GuardianPauseListing, ResumeListing, Delist, Statuses

LEMMA AumStepSafe ==
  ASSUME TypeOK, AumStep
  PROVE  TypeOK' /\ SameBonds /\ token' = token
  <1>1. ASSUME NEW b \in Builders, NEW i \in Indices, Deployed(b, i),
               NEW total \in Nat, NEW aum \in 0..U64Max, NEW vaults \in 0..U32Max,
               builder' = [builder EXCEPT ![b] = [builder[b] EXCEPT !.totalAum = total]],
               listing' = [listing EXCEPT ![b][i] =
                             [listing[b][i] EXCEPT !.aum = aum, !.vaultCount = vaults]],
               UNCHANGED <<now, config, governance, token>>
        PROVE  TypeOK' /\ SameBonds /\ token' = token
    <2> DEFINE newBuilder == [builder[b] EXCEPT !.totalAum = total]
               newListing == [listing[b][i] EXCEPT !.aum = aum, !.vaultCount = vaults]
    <2>1. builder[b] \in BuilderAccount /\ listing[b][i] \in ListingAccount
      BY <1>1 DEF Deployed, TypeOK
    <2>2. newBuilder \in BuilderAccount /\ newBuilder.bond = builder[b].bond
      BY <2>1 DEF BuilderAccount
    <2>3. newListing \in ListingAccount
      BY <2>1 DEF ListingAccount
    <2>4. builder' = [builder EXCEPT ![b] = newBuilder]
          /\ listing' = [listing EXCEPT ![b][i] = newListing]
      BY <1>1
    <2> HIDE DEF newBuilder, newListing
    <2>5. listing' \in [Builders -> [Indices -> ListingAccount \cup {NoAccount}]]
      BY <2>3, <2>4, ListingWriteSafe
    <2>6. builder' \in [Builders -> BuilderAccount \cup {NoAccount}] /\ SameBonds
      BY <1>1, <2>2, <2>4, BuilderWriteSafe DEF Deployed, Exists
    <2> QED
      BY <1>1, <2>5, <2>6 DEF TypeOK
  <1>2. ASSUME NEW signer \in Keys, NEW b \in Builders, NEW i \in Indices,
               NEW amount \in Amounts, NEW flag \in BOOLEAN,
               RecordDeposit(signer, b, i, amount, flag)
        PROVE  TypeOK' /\ SameBonds /\ token' = token
    <2> DEFINE total == builder[b].totalAum + amount
               aum == listing[b][i].aum + amount
               vaults == listing[b][i].vaultCount + IF flag THEN 1 ELSE 0
    <2>1. builder[b] \in BuilderAccount /\ listing[b][i] \in ListingAccount /\ amount \in Nat
      BY <1>2, NumbersAssumption DEF RecordDeposit, Deployed, TypeOK
    <2>2. total \in Nat
      BY <2>1 DEF BuilderAccount
    <2>3. aum \in 0..U64Max
      BY <1>2, <2>1, NumbersAssumption DEF RecordDeposit, ListingAccount
    <2>4. vaults \in 0..U32Max
      <3>1. listing[b][i].vaultCount \in 0..U32Max
        BY <2>1 DEF ListingAccount
      <3>2. flag => listing[b][i].vaultCount < U32Max
        BY <1>2 DEF RecordDeposit
      <3> QED
        BY <3>1, <3>2, NumbersAssumption
    <2>5. /\ builder' = [builder EXCEPT ![b] = [builder[b] EXCEPT !.totalAum = total]]
          /\ listing' = [listing EXCEPT ![b][i] =
                           [listing[b][i] EXCEPT !.aum = aum, !.vaultCount = vaults]]
          /\ UNCHANGED <<now, config, governance, token>>
      BY <1>2 DEF RecordDeposit, Entered
    <2>6. Deployed(b, i)
      BY <1>2 DEF RecordDeposit
    <2> HIDE DEF total, aum, vaults
    <2> QED
      BY <1>1, <2>2, <2>3, <2>4, <2>5, <2>6
  <1>3. ASSUME NEW signer \in Keys, NEW b \in Builders, NEW i \in Indices,
               NEW amount \in Amounts, NEW flag \in BOOLEAN,
               RecordWithdrawal(signer, b, i, amount, flag)
        PROVE  TypeOK' /\ SameBonds /\ token' = token
    <2> DEFINE total == Relieved(b, amount)
               aum == SaturatingSub(listing[b][i].aum, amount)
               vaults == SaturatingSub(listing[b][i].vaultCount, IF flag THEN 1 ELSE 0)
    <2>1. builder[b] \in BuilderAccount /\ listing[b][i] \in ListingAccount /\ amount \in Nat
      BY <1>3, NumbersAssumption DEF RecordWithdrawal, Deployed, TypeOK
    <2>2. total \in Nat
      BY <2>1 DEF Relieved, SaturatingSub, BuilderAccount
    <2>3. aum \in 0..U64Max
      BY <2>1, NumbersAssumption DEF SaturatingSub, ListingAccount
    <2>4. vaults \in 0..U32Max
      BY <2>1, NumbersAssumption DEF SaturatingSub, ListingAccount
    <2>5. /\ builder' = [builder EXCEPT ![b] = [builder[b] EXCEPT !.totalAum = total]]
          /\ listing' = [listing EXCEPT ![b][i] =
                           [listing[b][i] EXCEPT !.aum = aum, !.vaultCount = vaults]]
          /\ UNCHANGED <<now, config, governance, token>>
      BY <1>3 DEF RecordWithdrawal, Left
    <2>6. Deployed(b, i)
      BY <1>3 DEF RecordWithdrawal
    <2> HIDE DEF total, aum, vaults
    <2> QED
      BY <1>1, <2>2, <2>3, <2>4, <2>5, <2>6
  <1> QED
    BY <1>2, <1>3 DEF AumStep

\* What the environment does: nobody but a bond instruction takes from an escrow.
LEMMA EnvironmentSafe ==
  ASSUME TypeOK, Environment
  PROVE  /\ TypeOK' /\ SameBonds
         /\ \A b \in Builders : token'[BondVault(b)] >= token[BondVault(b)]
  <1>0. \A b \in Builders : token[BondVault(b)] \in Nat
    BY EscrowsApart DEF TypeOK
  <1>1. CASE Reconfigure
    <2>1. config' \in ConfigAccount /\ governance' \in GovernanceAccount \cup {NoAccount}
      BY <1>1, EnvironmentAssumption DEF Reconfigure, TypeOK
    <2>2. UNCHANGED <<now, builder, listing, token>>
      BY <1>1 DEF Reconfigure
    <2> QED
      BY <1>0, <2>1, <2>2 DEF TypeOK, SameBonds, Exists
  <1>2. ASSUME NEW from \in Wallets, NEW to \in TokenAccounts, NEW amount \in Amounts,
               TokenTransfer(from, to, amount)
        PROVE  /\ TypeOK' /\ SameBonds
               /\ \A b \in Builders : token'[BondVault(b)] >= token[BondVault(b)]
    <2>1. /\ CanPay(token, from, amount)
          /\ token' = Transfer(token, from, to, amount)
          /\ UNCHANGED <<now, config, governance, builder, listing>>
      BY <1>2 DEF TokenTransfer
    <2>2. amount \in Nat /\ from \in TokenAccounts /\ token \in [TokenAccounts -> Nat]
      BY NumbersAssumption DEF TypeOK, TokenAccounts
    <2>3. /\ token' \in [TokenAccounts -> Nat]
          /\ \A a \in TokenAccounts \ {from} : token'[a] >= token[a]
      BY <2>1, <2>2, TransferSpec
    <2>4. \A b \in Builders : BondVault(b) \in TokenAccounts \ {from}
      BY EscrowsApart
    <2> QED
      BY <2>1, <2>3, <2>4 DEF TypeOK, SameBonds, Exists
  <1>3. CASE Tick
    BY <1>0, <1>3 DEF Tick, TypeOK, SameBonds, Exists
  <1> QED
    BY <1>1, <1>2, <1>3 DEF Environment

-----------------------------------------------------------------------------
\* Solvency

IInv == TypeOK /\ BondsBacked

\* An escrow loses only what the bond behind it loses.
Moves(b, amount) ==
  /\ Exists(b)
  /\ builder'[b].bond = builder[b].bond + amount
  /\ token'[BondVault(b)] >= token[BondVault(b)] + amount
  /\ \A c \in Builders \ {b} :
       builder'[c] = builder[c] /\ token'[BondVault(c)] >= token[BondVault(c)]

LEMMA IInvStep == IInv /\ [Next]_vars => IInv'
  <1> SUFFICES ASSUME IInv, [Next]_vars PROVE IInv'
    OBVIOUS
  <1>1. TypeOK /\ BondsBacked
    BY DEF IInv
  <1>2. \A b \in Builders : token[BondVault(b)] \in Nat
                            /\ (Exists(b) => builder[b].bond \in Nat)
    BY <1>1, EscrowsApart DEF TypeOK, Exists, BuilderAccount
  <1>3. TypeOK' => \A b \in Builders : token'[BondVault(b)] \in Nat
                                       /\ (Exists(b)' => builder'[b].bond \in Nat)
    BY EscrowsApart DEF TypeOK, Exists, BuilderAccount
  <1>4. ASSUME TypeOK', SameBonds,
               \A b \in Builders : token'[BondVault(b)] >= token[BondVault(b)]
        PROVE  IInv'
    BY <1>1, <1>2, <1>3, <1>4 DEF IInv, BondsBacked, SameBonds
  <1>5. ASSUME TypeOK', SameBonds, token' = token
        PROVE  IInv'
    BY <1>1, <1>2, <1>3, <1>5 DEF IInv, BondsBacked, SameBonds
  <1>6. ASSUME TypeOK', NEW b \in Builders, NEW amount \in Int, Moves(b, amount)
        PROVE  IInv'
    <2>1. \A c \in Builders \ {b} : Exists(c)' <=> Exists(c)
      BY <1>6 DEF Moves, Exists
    <2> QED
      BY <1>1, <1>2, <1>3, <1>6, <2>1 DEF IInv, BondsBacked, Moves
  <1>7. ASSUME NEW b \in Builders, RegisterBuilder(b)
        PROVE  IInv'
    <2>1. /\ TypeOK' /\ builder'[b].bond = 0 /\ token' = token
          /\ \A c \in Builders \ {b} : builder'[c] = builder[c]
      BY <1>1, <1>7, RegisterSafe
    <2>2. \A c \in Builders \ {b} : Exists(c)' <=> Exists(c)
      BY <2>1 DEF Exists
    <2> QED
      BY <1>1, <1>2, <2>1, <2>2 DEF IInv, BondsBacked
  <1>8. ASSUME NEW b \in Builders, NEW source \in Wallets, NEW amount \in Amounts,
               StakeBond(b, source, amount)
        PROVE  IInv'
    <2>1. Exists(b) /\ amount \in Nat
      BY <1>8, NumbersAssumption DEF StakeBond
    <2>2. /\ TypeOK' /\ builder'[b].bond = builder[b].bond + amount
          /\ token'[BondVault(b)] = token[BondVault(b)] + amount
          /\ \A c \in Builders \ {b} :
               builder'[c] = builder[c] /\ token'[BondVault(c)] = token[BondVault(c)]
      BY <1>1, <1>8, StakeMoves
    <2>3. Moves(b, amount)
      BY <1>2, <2>1, <2>2 DEF Moves
    <2> QED
      BY <1>6, <2>1, <2>2, <2>3
  <1>9. ASSUME NEW b \in Builders, NEW destination \in TokenAccounts,
               NEW amount \in Amounts, WithdrawBond(b, destination, amount)
        PROVE  IInv'
    <2>1. Exists(b) /\ amount \in Nat
      BY <1>9, NumbersAssumption DEF WithdrawBond
    <2>2. TypeOK' /\ Moves(b, -amount)
      BY <1>1, <1>2, <1>9, <2>1, WithdrawMoves DEF Moves
    <2> QED
      BY <1>6, <2>1, <2>2
  <1>10. ASSUME NEW signer \in Keys, NEW b \in Builders, NEW traders \in TokenAccounts,
                NEW buyback \in TokenAccounts, NEW amount \in Amounts,
                SlashBond(signer, b, traders, buyback, amount)
         PROVE  IInv'
    <2>1. Exists(b) /\ amount \in Nat
      BY <1>10, NumbersAssumption DEF SlashBond
    <2>2. TypeOK' /\ Moves(b, -amount)
      BY <1>1, <1>2, <1>10, <2>1, SlashMoves DEF Moves
    <2> QED
      BY <1>6, <2>1, <2>2
  <1>11. ASSUME NEW b \in Builders, RequestUnbond(b) \/ CancelUnbond(b)
         PROVE  IInv'
    BY <1>1, <1>5, <1>11, UnbondSafe
  <1>12. CASE BondStep
    BY <1>7, <1>8, <1>9, <1>10, <1>11, <1>12 DEF BondStep
  <1>13. CASE ListingStep
    BY <1>1, <1>5, <1>13, ListingStepSafe
  <1>14. CASE AumStep
    BY <1>1, <1>5, <1>14, AumStepSafe
  <1>15. CASE Environment
    BY <1>1, <1>4, <1>15, EnvironmentSafe
  <1>16. CASE UNCHANGED vars
    BY <1>1, <1>16 DEF vars, IInv, TypeOK, BondsBacked, Exists
  <1> QED
    BY <1>12, <1>13, <1>14, <1>15, <1>16 DEF Next

LEMMA IInvInit == Init => IInv
  <1> SUFFICES ASSUME Init PROVE IInv
    OBVIOUS
  <1>1. token \in [TokenAccounts -> Nat]
    BY EnvironmentAssumption DEF Init
  <1>2. builder \in [Builders -> BuilderAccount \cup {NoAccount}]
        /\ listing \in [Builders -> [Indices -> ListingAccount \cup {NoAccount}]]
    BY DEF Init
  <1>3. \A b \in Builders : ~Exists(b)
    BY DEF Init, Exists
  <1> QED
    BY <1>1, <1>2, <1>3 DEF Init, IInv, TypeOK, BondsBacked

LEMMA Invariance == Spec => []IInv
  BY IInvInit, IInvStep, PTL DEF Spec

\* Accounts keep their types: no counter leaves its width, no bond, total or
\* balance becomes negative, whatever the order of the instructions.
THEOREM CapitalTypes == Spec => []TypeOK
  <1>1. IInv => TypeOK
    BY DEF IInv
  <1> QED
    BY <1>1, Invariance, PTL

\* Every bond is backed by its escrow, for any number of builders, any amounts
\* and any wallets, with slashes and withdrawals that pay into escrows too
\* (stake_bond, withdraw_bond, slash_bond).
THEOREM Solvency == Spec => []BondsBacked
  <1>1. IInv => BondsBacked
    BY DEF IInv
  <1> QED
    BY <1>1, Invariance, PTL
=============================================================================
