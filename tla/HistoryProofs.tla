---------------------------- MODULE HistoryProofs ----------------------------
(***************************************************************************)
(* The notice before a bond is withdrawn, for every value of the constants *)
(* of CapitalHistory.                                                      *)
(***************************************************************************)
EXTENDS LifecycleProofs, CapitalHistory

\* A request in flight is no older than the last thing the builder took on.
RequestIsLater ==
  \A b \in Builders :
    /\ lastMoved[b] \in Nat
    /\ lastMoved[b] <= now
    /\ Exists(b) /\ IsUnbonding(b) => lastMoved[b] <= builder[b].unbondRequestedAt

HistoryInv == TypeOK /\ lastMoved \in [Builders -> Nat] /\ RequestIsLater

\* Whatever counts as an inflow is refused while a request is in flight.
LEMMA NoInflowWhileUnbonding ==
  ASSUME TypeOK, TypeOK', [Next]_vars, NEW b \in Builders, Inflow(b)
  PROVE  ~IsUnbonding(b) /\ builder'[b].unbondRequestedAt = builder[b].unbondRequestedAt
  <1>1. OneBuilder(b) /\ Exists(b)
    BY BuilderShape DEF Inflow
  <1>2. /\ builder[b].bond \in Nat /\ builder[b].totalAum \in Nat
        /\ builder[b].agentCount \in Nat
    BY <1>1 DEF TypeOK, Exists, BuilderAccount
  <1>3. CASE builder'[b] = builder[b]
    BY <1>2, <1>3 DEF Inflow
  <1>4. CASE Written(b)
    <2>1. builder'[b] \in BuilderAccount
      BY <1>4 DEF Written, TypeOK
    <2>2. /\ builder'[b].bond \in Nat /\ builder'[b].totalAum \in Nat
          /\ builder'[b].agentCount \in Nat
      BY <2>1 DEF BuilderAccount
    <2>3. CASE Staked(b) \/ Listed(b) \/ Entrusted(b)
      BY <2>3 DEF Staked, Listed, Entrusted, Keeps
    <2>4. CASE Asked(b) \/ Cancelled(b) \/ Withdrew(b) \/ LostToSlash(b) \/ RelievedOf(b)
      BY <1>2, <2>2, <2>4 DEF Asked, Cancelled, Withdrew, LostToSlash, RelievedOf, Keeps, Inflow
    <2> QED
      BY <1>4, <2>3, <2>4 DEF Written
  <1> QED
    BY <1>1, <1>3, <1>4 DEF OneBuilder, Born

\* A withdrawal by the builder consumes the request.
LEMMA WithdrawalConsumes ==
  ASSUME TypeOK, NEW b \in Builders, WithdrawStep(b)
  PROVE  builder'[b].unbondRequestedAt = 0
  <1>1. PICK destination \in TokenAccounts, amount \in Amounts :
          WithdrawBond(b, destination, amount)
    BY DEF WithdrawStep
  <1> DEFINE new == Withdrawn(b, builder[b].bond - amount)
  <1>2. /\ config # NoAccount /\ Exists(b) /\ amount <= builder[b].bond
        /\ builder' = [builder EXCEPT ![b] = new]
    BY <1>1 DEF WithdrawBond
  <1>3. builder[b] \in BuilderAccount /\ amount \in Nat
    BY <1>2, NumbersAssumption DEF TypeOK, Exists
  <1>4. builder[b].bond - amount \in Nat
    BY <1>2, <1>3 DEF BuilderAccount
  <1>5. Rebonded(b, builder[b].bond - amount) \in BuilderAccount
    BY <1>2, <1>4, RebondedType
  <1>6. new.unbondRequestedAt = 0
    BY <1>5 DEF Withdrawn, BuilderAccount
  <1> HIDE DEF new
  <1> QED
    BY <1>2, <1>6 DEF TypeOK

\* The clock never goes back, and only a request puts it into a builder.
LEMMA RequestTimes ==
  ASSUME TypeOK, TypeOK', [Next]_vars, NEW b \in Builders
  PROVE  /\ now <= now'
         /\ builder'[b] # NoAccount /\ builder'[b].unbondRequestedAt > 0 =>
              \/ builder'[b].unbondRequestedAt = now
              \/ Exists(b) /\ builder'[b].unbondRequestedAt = builder[b].unbondRequestedAt
  <1>1. now \in Nat /\ (now' = now \/ now' = now + 1)
    <2>1. now \in Nat
      BY DEF TypeOK
    <2>2. CASE BondStep \/ ListingStep \/ AumStep
      BY <2>1, <2>2, ClockAndConfigKept
    <2>3. CASE Reconfigure \/ Tick \/ UNCHANGED vars
      BY <2>1, <2>3 DEF Reconfigure, Tick, vars
    <2>4. ASSUME NEW from \in Wallets, NEW to \in TokenAccounts, NEW amount \in Amounts,
                 TokenTransfer(from, to, amount)
          PROVE  now' = now
      BY <2>4 DEF TokenTransfer
    <2> QED
      BY <2>1, <2>2, <2>3, <2>4 DEF Next, Environment
  <1>2. OneBuilder(b)
    BY BuilderShape
  <1>3. CASE builder'[b] = builder[b]
    BY <1>1, <1>3 DEF Exists
  <1>4. CASE Born(b)
    BY <1>1, <1>4 DEF Born
  <1>5. CASE Written(b)
    BY <1>1, <1>5 DEF Written, Staked, Asked, Cancelled, Withdrew, LostToSlash, Listed,
                      Entrusted, RelievedOf, Keeps
  <1> QED
    BY <1>2, <1>3, <1>4, <1>5 DEF OneBuilder

LEMMA HistoryStep ==
  ASSUME HistoryInv, TypeOK', [HistoryNext]_historyVars
  PROVE  HistoryInv'
  <1>1. TypeOK /\ lastMoved \in [Builders -> Nat] /\ RequestIsLater
    BY DEF HistoryInv
  <1>2. [Next]_vars
    BY DEF HistoryNext, historyVars
  <1>3. now \in Nat /\ now' \in Nat
    BY <1>1 DEF TypeOK
  <1>4. \A b \in Builders :
          \/ lastMoved'[b] = lastMoved[b]
          \/ lastMoved'[b] = now /\ (Inflow(b) \/ WithdrawStep(b))
    BY <1>1 DEF HistoryNext, historyVars
  <1>5. lastMoved' \in [Builders -> Nat]
    BY <1>1, <1>3 DEF HistoryNext, historyVars
  <1>6. ASSUME NEW b \in Builders
        PROVE  /\ lastMoved'[b] <= now'
               /\ builder'[b] # NoAccount /\ builder'[b].unbondRequestedAt > 0
                    => lastMoved'[b] <= builder'[b].unbondRequestedAt
    <2>1. /\ now <= now'
          /\ builder'[b] # NoAccount /\ builder'[b].unbondRequestedAt > 0 =>
               \/ builder'[b].unbondRequestedAt = now
               \/ Exists(b) /\ builder'[b].unbondRequestedAt = builder[b].unbondRequestedAt
      BY <1>1, <1>2, RequestTimes
    <2>2. /\ lastMoved[b] \in Nat /\ lastMoved[b] <= now
          /\ Exists(b) /\ builder[b].unbondRequestedAt > 0
               => lastMoved[b] <= builder[b].unbondRequestedAt
      BY <1>1 DEF RequestIsLater, IsUnbonding
    <2>3. CASE lastMoved'[b] = lastMoved[b]
      BY <1>3, <2>1, <2>2, <2>3
    <2>4. CASE lastMoved'[b] = now /\ Inflow(b)
      <3>1. /\ ~(builder[b].unbondRequestedAt > 0)
            /\ builder'[b].unbondRequestedAt = builder[b].unbondRequestedAt
        BY <1>1, <1>2, <2>4, NoInflowWhileUnbonding DEF IsUnbonding
      <3> QED
        BY <1>3, <2>1, <2>4, <3>1
    <2>5. CASE lastMoved'[b] = now /\ WithdrawStep(b)
      BY <1>1, <1>3, <2>1, <2>5, WithdrawalConsumes
    <2> QED
      BY <1>4, <2>3, <2>4, <2>5
  <1>7. RequestIsLater'
    BY <1>5, <1>6 DEF RequestIsLater, Exists, IsUnbonding
  <1> QED
    BY <1>5, <1>7 DEF HistoryInv

LEMMA NoticeStep ==
  ASSUME HistoryInv, NEW b \in Builders, WithdrawStep(b)
  PROVE  now - lastMoved[b] >= config.unbondPeriod
  <1>1. /\ config # NoAccount /\ Exists(b) /\ IsUnbonding(b)
        /\ now - builder[b].unbondRequestedAt >= config.unbondPeriod
    BY DEF WithdrawStep, WithdrawBond, PeriodElapsed
  <1>2. lastMoved[b] \in Nat /\ lastMoved[b] <= builder[b].unbondRequestedAt
    BY <1>1 DEF HistoryInv, RequestIsLater
  <1>3. /\ now \in Nat /\ builder[b].unbondRequestedAt \in Nat
        /\ config.unbondPeriod \in Int
    BY <1>1 DEF HistoryInv, TypeOK, Exists, BuilderAccount, ConfigAccount
  <1> QED
    BY <1>1, <1>2, <1>3

\* No bond leaves by the builder's hand before a whole unbonding period without a
\* stake, a listing, trader capital or a withdrawal, whatever governance does to
\* the period in between (request_unbond, cancel_unbond, withdraw_bond).
THEOREM NoticeIsServed == HistorySpec => NoticeServed
  <1>1. HistorySpec => Spec
    <2>1. HistoryInit => Init
      BY DEF HistoryInit
    <2>2. [HistoryNext]_historyVars => [Next]_vars
      BY DEF HistoryNext, historyVars
    <2> QED
      BY <2>1, <2>2, PTL DEF HistorySpec, Spec
  <1>2. HistoryInit => HistoryInv
    <2> SUFFICES ASSUME HistoryInit PROVE HistoryInv
      OBVIOUS
    <2>1. TypeOK /\ now = 1 /\ lastMoved = [b \in Builders |-> 0]
      BY IInvInit DEF HistoryInit, IInv, Init
    <2>2. \A b \in Builders : ~Exists(b)
      BY DEF HistoryInit, Init, Exists
    <2> QED
      BY <2>1, <2>2 DEF HistoryInv, RequestIsLater
  <1>3. HistoryInv /\ TypeOK' /\ [HistoryNext]_historyVars => HistoryInv'
    BY HistoryStep
  <1>4. HistoryInv /\ [HistoryNext]_historyVars =>
          [\A b \in Builders :
             WithdrawStep(b) => now - lastMoved[b] >= config.unbondPeriod]_historyVars
    BY NoticeStep
  <1> QED
    BY <1>1, <1>2, <1>3, <1>4, CapitalTypes, PTL DEF HistorySpec, NoticeServed
=============================================================================
