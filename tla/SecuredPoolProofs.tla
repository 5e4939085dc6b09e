------------------------- MODULE SecuredPoolProofs --------------------------
(***************************************************************************)
(* Theorems about the secured pool, for every set of accounts, every       *)
(* configuration the constructor accepts and every feed.                   *)
(***************************************************************************)
EXTENDS SecuredPoolCallProofs

(***************************************************************************)
(* The invariant holds of a new pool.                                      *)
(***************************************************************************)
LEMMA InitIInv == Init => IInv
<1> SUFFICES ASSUME Init PROVE IInv
  OBVIOUS
<1>1. /\ InitialObservation \in Observations
      /\ InitialDebtTokens \in Balances /\ InitialCollateralTokens \in Balances
      /\ StartTime \in Nat
  BY InputAssumption, Zenon DEF Balances
<1>2. oracleDeviationHalted \in BOOLEAN /\ newRiskPaused \in BOOLEAN
  BY Zenon DEF Init
<1>3. /\ supplySharesOf \in Balances /\ collateralAssetsOf \in Balances
      /\ debtSharesOf \in Balances /\ badDebtAssetsOf \in Balances
      /\ debtTokenOf \in Balances /\ collateralTokenOf \in Balances
  BY <1>1 DEF Init, Balances
<1>4. TypeOK
  BY <1>1, <1>2, <1>3 DEF Init, TypeOK
<1>5. LedgersReconcile
  <2>1. SumFunction([a \in Accounts |-> 0]) = 0
    BY InputAssumption, SumZero
  <2>2. ASSUME NEW balances \in Balances PROVE SumFunction(balances) \in Nat
    BY InputAssumption, SumNat DEF Balances
  <2> QED BY <1>1, <2>1, <2>2 DEF Init, LedgersReconcile
<1> QED BY <1>4, <1>5 DEF Init, IInv, PerformingCoversShares, PerformingDebt, NoUnsecuredPerformingDebt

(***************************************************************************)
(* The calls a step can be, with amounts that are natural numbers: the     *)
(* ones callers pass, and the ones the contract quoted to them.            *)
(***************************************************************************)
ControlStep == PauseNewRisk \/ ResumeNewRisk \/ \E step \in TimeSteps : Tick(step)

OracleStep == \E feed \in Feeds : SyncOracle(feed) \/ RecoverOracleDeviation(feed)

LenderStep ==
    \E account \in Accounts : \/ \E amount \in Nat : Supply(account, amount) \/ Withdraw(account, amount)
                              \/ RedeemAll(account)

BorrowerStep ==
    \E account \in Accounts, amount \in Nat :
        \/ AddCollateral(account, amount)
        \/ RepayPerforming(account, amount)
        \/ RecoverBadDebt(account, amount)

RiskStep ==
    \E account \in Accounts, amount \in Nat, feed \in Feeds :
        ReleaseCollateral(account, amount, feed) \/ Borrow(account, amount, feed)

LiquidationStep ==
    \E liquidator \in Accounts, borrower \in Accounts, amount \in Nat, minOut \in Nat, deadline \in Nat, feed \in Feeds :
        Liquidate(liquidator, borrower, amount, minOut, deadline, feed)

\* Every step of the pool is one of these calls.
LEMMA NextCases ==
    ASSUME IInv, Next
    PROVE  \/ ControlStep \/ OracleStep \/ AccrueInterest \/ LenderStep
           \/ BorrowerStep \/ RiskStep \/ LiquidationStep
<1>0. /\ Amounts \subseteq Nat /\ CollateralAmounts \subseteq Nat
      /\ MinCollateralOuts \subseteq Nat /\ Deadlines \subseteq Nat
  BY InputAssumption
<1>1. CASE PauseNewRisk \/ ResumeNewRisk \/ \E step \in TimeSteps : Tick(step)
  BY <1>1 DEF ControlStep
<1>2. CASE \E feed \in Feeds : SyncOracle(feed) \/ RecoverOracleDeviation(feed)
  BY <1>2 DEF OracleStep
<1>3. CASE \/ \E account \in Accounts, amount \in Amounts : Supply(account, amount) \/ Withdraw(account, amount)
           \/ \E account \in Accounts : RedeemAll(account)
  BY <1>0, <1>3 DEF LenderStep
<1>4. CASE \E account \in Accounts, amount \in CollateralAmounts : AddCollateral(account, amount)
  BY <1>0, <1>4 DEF BorrowerStep
<1>5. CASE \E account \in Accounts, amount \in CollateralAmounts, feed \in Feeds :
              ReleaseCollateral(account, amount, feed)
  BY <1>0, <1>5 DEF RiskStep
<1>6. CASE \E account \in Accounts, amount \in Amounts, feed \in Feeds : Borrow(account, amount, feed)
  BY <1>0, <1>6 DEF RiskStep
<1>7. CASE \E account \in Accounts : \E amount \in RepayAmounts(account) : Repay(account, amount)
  <2>1. PICK account \in Accounts : \E amount \in RepayAmounts(account) : Repay(account, amount)
    BY <1>7
  <2>2. PICK amount \in RepayAmounts(account) : Repay(account, amount)
    BY <2>1
  <2>3. Quotable(account)
    BY <2>2 DEF Repay, RepayPerforming, CanRepayPerforming, RepaymentAccepted,
                RecoverBadDebt, CanRecoverBadDebt, Quotable
  <2>4. amount \in Nat
    BY <2>2, <2>3, QuotedAmounts
  <2> QED BY <2>2, <2>4 DEF Repay, BorrowerStep
<1>8. CASE \E liquidator \in Accounts, borrower \in Accounts, feed \in Feeds :
              \E amount \in LiquidationAmounts(borrower, feed),
                 minCollateralOut \in MinCollateralOuts, deadline \in Deadlines :
                  Liquidate(liquidator, borrower, amount, minCollateralOut, deadline, feed)
  <2>1. PICK liquidator \in Accounts, borrower \in Accounts, feed \in Feeds :
              \E amount \in LiquidationAmounts(borrower, feed),
                 minCollateralOut \in MinCollateralOuts, deadline \in Deadlines :
                  Liquidate(liquidator, borrower, amount, minCollateralOut, deadline, feed)
    BY <1>8
  <2>2. PICK amount \in LiquidationAmounts(borrower, feed),
             minCollateralOut \in MinCollateralOuts, deadline \in Deadlines :
                  Liquidate(liquidator, borrower, amount, minCollateralOut, deadline, feed)
    BY <2>1
  <2>3. Quotable(borrower) /\ RefreshCurrentPrice(feed)
    BY <2>2 DEF Liquidate, RepaymentAccepted
  <2>4. amount \in Nat /\ minCollateralOut \in Nat /\ deadline \in Nat
    BY <1>0, <2>2, <2>3, QuotedAmounts, RefreshedPrice
  <2> QED BY <2>2, <2>4 DEF LiquidationStep
<1> QED BY <1>1, <1>2, <1>3, <1>4, <1>5, <1>6, <1>7, <1>8, Zenon DEF Next

\* Every call of the contract, and the passing of time, keeps the inductive invariant.
LEMMA NextKeepsIInv == IInv /\ [Next]_vars => IInv'
<1> SUFFICES ASSUME IInv, [Next]_vars PROVE IInv'
  OBVIOUS
<1>1. CASE ControlStep
  BY <1>1, ControlsKeepIInv DEF ControlStep
<1>2. CASE OracleStep
  BY <1>2, OracleKeepsIInv DEF OracleStep
<1>3. CASE AccrueInterest
  BY <1>3, AccrueInterestKeepsIInv
<1>4. CASE LenderStep
  BY <1>4, SupplyKeepsIInv, WithdrawKeepsIInv, RedeemAllKeepsIInv DEF LenderStep
<1>5. CASE BorrowerStep
  BY <1>5, AddCollateralKeepsIInv, RepayPerformingKeepsIInv, RecoverBadDebtKeepsIInv DEF BorrowerStep
<1>6. CASE RiskStep
  BY <1>6, ReleaseKeepsIInv, BorrowKeepsIInv DEF RiskStep
<1>7. CASE LiquidationStep
  BY <1>7, LiquidateKeepsIInv DEF LiquidationStep
<1>8. CASE UNCHANGED vars
  BY <1>8 DEF vars, accounting, positions, oracle, tokens, IInv, TypeOK, PerformingCoversShares,
              PerformingDebt, NoUnsecuredPerformingDebt, LedgersReconcile
<1> QED BY <1>1, <1>2, <1>3, <1>4, <1>5, <1>6, <1>7, <1>8, NextCases

(***************************************************************************)
(* The invariant of the pool, for every set of accounts, every amount,     *)
(* every price history and every configuration the constructor accepts.    *)
(***************************************************************************)
THEOREM PoolInvariant == Spec => []IInv
<1>1. Init => IInv
  BY InitIInv
<1>2. IInv /\ [Next]_vars => IInv'
  BY NextKeepsIInv
<1> QED BY <1>1, <1>2, PTL DEF Spec

\* No unsigned quantity of the contract ever underflows, and bad debt never exceeds the gross debt.
THEOREM PoolTypes == Spec => []TypeOK
BY PoolInvariant, PTL DEF IInv

\* A debt share is always backed by at least one unit of performing debt.
THEOREM PoolSharesCovered == Spec => []PerformingCoversShares
BY PoolInvariant, PTL DEF IInv

\* The accounts' ledgers add up to the pool's totals, and no token is created or lost.
THEOREM PoolLedgersReconcile == Spec => []LedgersReconcile
BY PoolInvariant, PTL DEF IInv

\* No account owes performing debt without collateral, or beside recognized bad debt.
THEOREM PoolDebtSecured == Spec => []NoUnsecuredPerformingDebt
BY PoolInvariant, PTL DEF IInv

(***************************************************************************)
(* A debtor can always repay, in every state of the invariant: the ledger  *)
(* sums bound the account's shares and bad debt by the totals, the share   *)
(* accounting makes every share cost something, and the rounding of a      *)
(* partial repayment stays within both.                                    *)
(***************************************************************************)
LEMMA RepaymentOpen ==
    ASSUME IInv
    PROVE  RepaymentAlwaysOpen
<1> DEFINE performing == Accrue.gross - badDebtAssets
<1> SUFFICES ASSUME AccruesToCurrent(Accrue), NEW a \in Accounts
             PROVE  /\ \A amount \in 1 .. MinOf(DebtQuoteAssets(a, performing), debtTokenOf[a]) :
                          amount = DebtQuoteAssets(a, performing) \/ amount * totalDebtShares >= performing
                              => CanRepayPerforming(a, amount, Accrue)
                    /\ \A amount \in 1 .. MinOf(badDebtAssetsOf[a], debtTokenOf[a]) :
                          CanRecoverBadDebt(a, amount, Accrue)
  BY DEF RepaymentAlwaysOpen
<1> DEFINE debt == DebtQuoteAssets(a, performing)
           shares == debtSharesOf[a]
<1>1. /\ Accrue.gross \in Nat /\ performing \in Nat /\ totalDebtShares \in Nat /\ badDebtAssets \in Nat
      /\ totalDebtShares <= performing /\ performing + badDebtAssets = Accrue.gross
  BY AccrueFacts DEF IInv, TypeOK
<1>2. /\ shares \in Nat /\ debtTokenOf[a] \in Nat /\ badDebtAssetsOf[a] \in Nat
      /\ shares <= totalDebtShares /\ badDebtAssetsOf[a] <= badDebtAssets
  <2>1. debtSharesOf \in Balances /\ badDebtAssetsOf \in Balances /\ debtTokenOf \in Balances
    BY DEF IInv, TypeOK
  <2>2. shares <= SumFunction(debtSharesOf) /\ badDebtAssetsOf[a] <= SumFunction(badDebtAssetsOf)
    BY <2>1, LedgerSums, Zenon
  <2> QED BY <2>1, <2>2 DEF IInv, LedgersReconcile, Balances
<1>3. Quotable(a) /\ (shares # 0 => badDebtAssetsOf[a] = 0)
  BY <1>1, <1>2 DEF Quotable, IInv, NoUnsecuredPerformingDebt
<1>4. debt = Quote(shares, totalDebtShares, performing)
  BY DEF DebtQuoteAssets
<1> HIDE DEF performing
<1>5. debt \in Nat /\ debt <= performing /\ (shares = 0 => debt = 0)
  <2>1. debt \in Nat /\ debt <= performing
    <3> HIDE DEF debt, shares
    <3>1. /\ shares \in Nat /\ totalDebtShares \in Nat /\ performing \in Nat /\ shares <= totalDebtShares
          /\ totalDebtShares <= performing /\ (shares # 0 => totalDebtShares # 0)
      BY <1>1, <1>2
    <3> QED BY <1>4, <3>1, QuoteFacts, Zenon
  <2> QED BY <1>4, <2>1 DEF Quote
<1> HIDE DEF debt
<1>6. ASSUME NEW amount \in 1 .. MinOf(debt, debtTokenOf[a]),
             amount = debt \/ amount * totalDebtShares >= performing
      PROVE  CanRepayPerforming(a, amount, Accrue)
  <2> DEFINE burned == Repayment(a, amount, performing).sharesBurned
             reduced == Repayment(a, amount, performing).reduced
  <2>1. amount \in Nat \ {0} /\ amount <= debt /\ amount <= debtTokenOf[a]
    BY <1>2, <1>5 DEF MinOf
  <2>2. shares # 0 /\ totalDebtShares # 0 /\ performing # 0 /\ badDebtAssetsOf[a] = 0
    BY <1>1, <1>2, <1>3, <1>5, <2>1
  <2>3. burned # 0 /\ reduced <= amount /\ burned <= shares
    <3>1. CASE amount = debt
      <4>1. burned = shares /\ reduced = amount
        BY <3>1 DEF Repayment, debt
      <4> QED BY <1>2, <2>1, <2>2, <4>1
    <3>2. CASE amount # debt
      <4>1. /\ burned = MulDiv(amount, totalDebtShares, performing)
            /\ reduced = MulDivCeil(MulDiv(amount, totalDebtShares, performing), performing, totalDebtShares)
        BY <3>2 DEF Repayment, debt
      <4>2. amount < debt /\ amount * totalDebtShares >= performing
        BY <1>5, <1>6, <2>1, <3>2
      <4>3. debt = IF shares = totalDebtShares THEN performing
                   ELSE MulDivCeil(shares, performing, totalDebtShares)
        BY <1>4, <2>2 DEF Quote
      <4> HIDE DEF burned, reduced
      <4>4. burned # 0 /\ reduced <= amount
        BY <1>1, <2>1, <2>2, <4>1, <4>2, FloorBurn
      <4>5. burned <= shares
        BY <1>1, <1>2, <2>1, <2>2, <4>1, <4>2, <4>3, FloorBurn
      <4> QED BY <4>4, <4>5
    <3> QED BY <3>1, <3>2
  <2>4. burned \in Nat /\ reduced \in Nat
    <3>1. MulDiv(amount, totalDebtShares, performing) \in Nat
      BY <1>1, <2>1, <2>2, MulDivBounds, Zenon
    <3>2. MulDivCeil(MulDiv(amount, totalDebtShares, performing), performing, totalDebtShares) \in Nat
      BY <1>1, <2>2, <3>1, MulDivCeilBounds, Zenon
    <3> QED BY <1>2, <2>1, <3>1, <3>2 DEF Repayment
  <2> HIDE DEF burned, reduced
  <2>5. burned <= totalDebtShares /\ reduced <= Accrue.gross
    BY <1>1, <1>2, <1>5, <2>1, <2>3, <2>4
  <2>6. RepaymentAccepted(a, amount, performing, Accrue)
    BY <1>3, <2>1, <2>3, <2>5 DEF RepaymentAccepted, burned, reduced, debt
  <2> QED BY <1>2, <2>1, <2>2, <2>6 DEF CanRepayPerforming, performing
<1>7. ASSUME NEW amount \in 1 .. MinOf(badDebtAssetsOf[a], debtTokenOf[a])
      PROVE  CanRecoverBadDebt(a, amount, Accrue)
  <2>1. amount \in Nat \ {0} /\ amount <= badDebtAssetsOf[a] /\ amount <= debtTokenOf[a]
    BY <1>2 DEF MinOf
  <2> QED BY <1>1, <1>2, <1>3, <2>1 DEF CanRecoverBadDebt
<1> QED BY <1>6, <1>7 DEF debt

\* Whatever happened before, a debtor's repayment is accepted once the accrual has caught up.
THEOREM PoolRepaymentAlwaysOpen == Spec => []RepaymentAlwaysOpen
BY PoolInvariant, RepaymentOpen, PTL

(***************************************************************************)
(* What the lenders' claim is after a call, in terms of the claim after    *)
(* the accrual, which is never less than the claim before it.              *)
(***************************************************************************)
LEMMA ClaimFacts ==
    ASSUME IInv
    PROVE  LpClaim \in Int /\ LpClaimAssets(Accrue) \in Int /\ LpClaim <= LpClaimAssets(Accrue)
<1>1. /\ Accrue.gross \in Nat /\ Accrue.reserves \in Nat
      /\ Accrue.gross - Accrue.reserves >= grossDebtAssets - reservesAssets
  BY AccrueFacts
<1>2. cashAssets \in Nat /\ grossDebtAssets \in Nat /\ reservesAssets \in Nat /\ badDebtAssets \in Nat
  BY DEF IInv, TypeOK
<1> QED BY <1>1, <1>2 DEF LpClaim, LpClaimAssets

\* When the supply shares stay, the claim may fall by no more than the bad debt recognized.
LEMMA SteadyShares ==
    ASSUME IInv, UNCHANGED totalSupplyShares, Recognized \in Nat, LpClaim' \in Int, LpClaim' + Recognized >= LpClaim
    PROVE  ShareValueKept
<1> DEFINE x == LpClaim' + Recognized
           y == LpClaim
           t == totalSupplyShares
<1>1. x \in Int /\ y \in Int /\ t \in Nat /\ x >= y
  BY ClaimFacts DEF IInv, TypeOK
<1> HIDE DEF x, y, t
<1>2. x * t >= y * t
  BY <1>1
<1> QED BY <1>2 DEF ShareValueKept, x, y, t

\* supply mints at or below, withdraw and redeemAll burn at or above, the value of a share.
LEMMA LenderKeepsValue ==
    ASSUME IInv, LenderStep
    PROVE  ShareValueKept
<1> DEFINE k == LpClaimAssets(Accrue)
           t == totalSupplyShares
           c == LpClaim
<1>1. /\ c \in Int /\ k \in Int /\ c <= k /\ t \in Nat /\ cashAssets \in Nat /\ badDebtAssets \in Nat
      /\ Accrue.gross \in Nat /\ Accrue.reserves \in Nat
      /\ k = cashAssets + Accrue.gross - Accrue.reserves - badDebtAssets
      /\ \A account \in Accounts : supplySharesOf[account] \in Nat
  BY ClaimFacts, AccrueFacts DEF IInv, TypeOK, Balances, LpClaimAssets
<1>2. ASSUME NEW account \in Accounts, NEW amount \in Nat, Supply(account, amount)
      PROVE  ShareValueKept
  <2> SUFFICES ASSUME t > 0 PROVE (LpClaim' + Recognized) * t >= c * totalSupplyShares'
    BY DEF ShareValueKept
  <2> DEFINE m == MulDiv(amount, t, k)
  <2>1. /\ Accrued(Accrue) /\ k # 0 /\ k >= 0
        /\ cashAssets' = cashAssets + amount /\ totalSupplyShares' = t + m
    BY <1>1, <1>2 DEF Supply
  <2>2. LpClaim' = k + amount /\ Recognized = 0
    BY <1>1, <2>1 DEF Accrued, LpClaim, Recognized
  <2>3. k \in Nat \ {0}
    BY <1>1, <2>1
  <2> HIDE DEF k, t, c
  <2>4. m \in Nat /\ m * k <= amount * t
    BY <1>1, <2>3, MulDivBounds, Zenon
  <2> HIDE DEF m
  <2>5. (k + amount) * t >= c * (t + m)
    BY <1>1, <2>3, <2>4, MintKeepsValue
  <2>6. LpClaim' + Recognized = k + amount
    BY <2>2, <2>3
  <2> QED BY <2>1, <2>5, <2>6
<1>3. ASSUME NEW account \in Accounts, NEW amount \in Nat, NEW b \in Nat, b <= t, k \in Nat,
             amount * t <= b * k, PayLender(account, amount, b, Accrue)
      PROVE  ShareValueKept
  <2>1. /\ Accrued(Accrue)
        /\ cashAssets' = cashAssets - amount /\ totalSupplyShares' = t - b
    BY <1>3 DEF PayLender
  <2>2. LpClaim' = k - amount /\ Recognized = 0
    BY <1>1, <2>1 DEF Accrued, LpClaim, Recognized
  <2> HIDE DEF k, t, c
  <2>3. (k - amount) * t >= c * (t - b)
    BY <1>1, <1>3, BurnKeepsValue
  <2>4. LpClaim' + Recognized = k - amount
    BY <1>3, <2>2
  <2> QED BY <2>1, <2>3, <2>4 DEF ShareValueKept, t, c
<1>4. ASSUME NEW account \in Accounts, NEW amount \in Nat, Withdraw(account, amount)
      PROVE  ShareValueKept
  <2> DEFINE b == MulDivCeil(amount, t, k)
  <2>1. k > 0 /\ b <= t /\ PayLender(account, amount, b, Accrue)
    BY <1>4 DEF Withdraw
  <2> HIDE DEF k
  <2>2. b \in Nat /\ amount * t <= b * k /\ k \in Nat
    BY <1>1, <2>1, MulDivCeilBounds
  <2> HIDE DEF b
  <2> QED BY <1>3, <2>1, <2>2
<1>5. ASSUME NEW account \in Accounts, RedeemAll(account)
      PROVE  ShareValueKept
  <2> DEFINE b == supplySharesOf[account]
             amount == IF b = t THEN k ELSE MulDiv(b, k, t)
  <2>1. k >= 0 /\ b # 0 /\ b <= t /\ PayLender(account, amount, b, Accrue)
    BY <1>5 DEF RedeemAll
  <2>2. b \in Nat /\ k \in Nat /\ t \in Nat \ {0}
    BY <1>1, <2>1
  <2> HIDE DEF k, t, b
  <2>3. amount \in Nat /\ amount * t <= b * k
    <3>1. CASE b = t
      BY <2>2, <3>1
    <3>2. CASE b # t
      BY <2>2, <3>2, MulDivBounds
    <3> QED BY <3>1, <3>2
  <2> HIDE DEF amount
  <2> QED BY <1>3, <2>1, <2>2, <2>3
<1> QED BY <1>2, <1>4, <1>5 DEF LenderStep

\* Repaying, borrowing and moving collateral leave the claim where the accrual left it, or raise it.
LEMMA BorrowerKeepsValue ==
    ASSUME IInv, BorrowerStep \/ RiskStep
    PROVE  ShareValueKept
<1>1. /\ LpClaim \in Int /\ LpClaimAssets(Accrue) \in Int /\ LpClaim <= LpClaimAssets(Accrue)
      /\ cashAssets \in Nat /\ badDebtAssets \in Nat /\ Accrue.gross \in Nat /\ Accrue.reserves \in Nat
  BY ClaimFacts, AccrueFacts DEF IInv, TypeOK
<1>2. SUFFICES /\ UNCHANGED totalSupplyShares
               /\ Recognized = 0
               /\ \E paid \in Nat : LpClaim' = LpClaimAssets(Accrue) + paid
  BY <1>1, SteadyShares
<1>3. ASSUME NEW account \in Accounts, NEW amount \in Nat, AddCollateral(account, amount)
      PROVE  UNCHANGED totalSupplyShares /\ Recognized = 0 /\ LpClaim' = LpClaimAssets(Accrue) + 0
  BY <1>1, <1>3 DEF AddCollateral, Accrued, Recognized, LpClaim, LpClaimAssets
<1>4. ASSUME NEW account \in Accounts, NEW amount \in Nat, NEW feed, ReleaseCollateral(account, amount, feed)
      PROVE  UNCHANGED totalSupplyShares /\ Recognized = 0 /\ LpClaim' = LpClaimAssets(Accrue) + 0
  BY <1>1, <1>4 DEF ReleaseCollateral, Accrued, Recognized, LpClaim, LpClaimAssets
<1>5. ASSUME NEW account \in Accounts, NEW amount \in Nat, NEW feed, Borrow(account, amount, feed)
      PROVE  UNCHANGED totalSupplyShares /\ Recognized = 0 /\ LpClaim' = LpClaimAssets(Accrue) + 0
  <2>1. /\ cashAssets' = cashAssets - amount /\ grossDebtAssets' = Accrue.gross + amount
        /\ reservesAssets' = Accrue.reserves
        /\ UNCHANGED <<totalSupplyShares, badDebtAssets>>
    BY <1>5, Zenon DEF Borrow
  <2> QED BY <1>1, <2>1 DEF Recognized, LpClaim, LpClaimAssets
<1>6. ASSUME NEW account \in Accounts, NEW amount \in Nat, RepayPerforming(account, amount)
      PROVE  UNCHANGED totalSupplyShares /\ Recognized = 0 /\ LpClaim' = LpClaimAssets(Accrue) + 0
  <2> DEFINE reduced == Repayment(account, amount, Accrue.gross - badDebtAssets).reduced
  <2>1. /\ RepaymentAccepted(account, amount, Accrue.gross - badDebtAssets, Accrue)
        /\ cashAssets' = cashAssets + amount /\ grossDebtAssets' = Accrue.gross - reduced
        /\ reservesAssets' = Accrue.reserves + (amount - reduced)
        /\ UNCHANGED <<badDebtAssets, totalSupplyShares>>
    BY <1>6 DEF RepayPerforming, CanRepayPerforming
  <2>2. reduced \in Nat
    BY <2>1, AccrueFacts, RepaymentFacts DEF IInv
  <2> HIDE DEF reduced
  <2> QED BY <1>1, <2>1, <2>2 DEF Recognized, LpClaim, LpClaimAssets
<1>7. ASSUME NEW account \in Accounts, NEW amount \in Nat, RecoverBadDebt(account, amount)
      PROVE  UNCHANGED totalSupplyShares /\ Recognized = 0 /\ LpClaim' = LpClaimAssets(Accrue) + amount
  BY <1>1, <1>7 DEF RecoverBadDebt, Recognized, LpClaim, LpClaimAssets
<1>8. CASE BorrowerStep
  BY <1>3, <1>6, <1>7, <1>8 DEF BorrowerStep
<1>9. CASE RiskStep
  BY <1>4, <1>5, <1>9 DEF RiskStep
<1> QED BY <1>8, <1>9

\* A liquidation lowers the claim by exactly the bad debt it recognizes.
LEMMA LiquidationKeepsValue ==
    ASSUME IInv, LiquidationStep
    PROVE  ShareValueKept
<1>1. PICK liquidator \in Accounts, borrower \in Accounts, amount \in Nat, minOut \in Nat, deadline \in Nat,
           feed \in Feeds : Liquidate(liquidator, borrower, amount, minOut, deadline, feed)
  BY DEF LiquidationStep
<1> DEFINE reduced == Repayment(borrower, amount, Accrue.gross - badDebtAssets).reduced
<1>2. /\ RepaymentAccepted(borrower, amount, Accrue.gross - badDebtAssets, Accrue)
      /\ cashAssets' = cashAssets + amount /\ grossDebtAssets' = Accrue.gross - reduced
      /\ reservesAssets' = Accrue.reserves + (amount - reduced)
      /\ UNCHANGED totalSupplyShares
  BY <1>1 DEF Liquidate
<1>3. reduced \in Nat
  BY <1>2, AccrueFacts, RepaymentFacts DEF IInv
<1> HIDE DEF reduced
<1>4. PICK b \in Nat : badDebtAssets' = b
  BY <1>1, LiquidateKeepsIInv, Zenon DEF IInv, TypeOK
<1>5. /\ LpClaim \in Int /\ LpClaim <= LpClaimAssets(Accrue)
      /\ cashAssets \in Nat /\ badDebtAssets \in Nat /\ Accrue.gross \in Nat /\ Accrue.reserves \in Nat
  BY ClaimFacts, AccrueFacts DEF IInv, TypeOK
<1>6. LpClaim' = LpClaimAssets(Accrue) + badDebtAssets - b
  BY <1>2, <1>3, <1>4, <1>5 DEF LpClaim, LpClaimAssets
<1>7. Recognized = IF b > badDebtAssets THEN b - badDebtAssets ELSE 0
  BY <1>4, Zenon DEF Recognized
<1> HIDE DEF Recognized
<1>8. Recognized \in Nat /\ Recognized >= b - badDebtAssets
  BY <1>5, <1>7
<1>9. LpClaim' \in Int /\ LpClaim' + Recognized >= LpClaim
  BY <1>5, <1>6, <1>8, ClaimFacts
<1> QED BY <1>2, <1>8, <1>9, SteadyShares

\* A supply share loses value only by the recognition of bad debt, and by no more than it.
THEOREM PoolLossOnlyByRecognition == Spec => LossOnlyByRecognition
<1>1. IInv /\ [Next]_vars => [ShareValueKept]_vars
  <2> SUFFICES ASSUME IInv, Next PROVE ShareValueKept
    OBVIOUS
  <2>1. CASE ControlStep \/ OracleStep \/ AccrueInterest
    <3>1. /\ LpClaim \in Int /\ LpClaim <= LpClaimAssets(Accrue)
          /\ cashAssets \in Nat /\ badDebtAssets \in Nat /\ Accrue.gross \in Nat /\ Accrue.reserves \in Nat
      BY ClaimFacts, AccrueFacts DEF IInv, TypeOK
    <3>2. CASE AccrueInterest
      <4>1. UNCHANGED totalSupplyShares /\ Recognized = 0 /\ LpClaim' = LpClaimAssets(Accrue)
        BY <3>1, <3>2 DEF AccrueInterest, Accrued, Recognized, LpClaim, LpClaimAssets
      <4> QED BY <3>1, <4>1, ClaimFacts, SteadyShares
    <3>3. CASE ControlStep \/ OracleStep
      <4>1. UNCHANGED accounting
        BY <3>3 DEF ControlStep, OracleStep, PauseNewRisk, ResumeNewRisk, Tick, SyncOracle, RecoverOracleDeviation
      <4>2. UNCHANGED totalSupplyShares /\ Recognized = 0 /\ LpClaim' = LpClaim
        BY <3>1, <4>1 DEF accounting, Recognized, LpClaim
      <4> QED BY <3>1, <4>2, SteadyShares
    <3> QED BY <2>1, <3>2, <3>3
  <2>2. CASE LenderStep
    BY <2>2, LenderKeepsValue
  <2>3. CASE BorrowerStep \/ RiskStep
    BY <2>3, BorrowerKeepsValue
  <2>4. CASE LiquidationStep
    BY <2>4, LiquidationKeepsValue
  <2> QED BY <2>1, <2>2, <2>3, <2>4, NextCases
<1> QED BY <1>1, PoolInvariant, PTL DEF Spec, LossOnlyByRecognition

\* Control, oracle, accrual and lender steps leave debt shares and deposited collateral alone.
LEMMA PositionsKept ==
    ASSUME ControlStep \/ OracleStep \/ AccrueInterest \/ LenderStep
    PROVE  UNCHANGED <<debtSharesOf, collateralAssetsOf>>
<1>1. CASE ControlStep \/ OracleStep
  BY <1>1 DEF ControlStep, OracleStep, PauseNewRisk, ResumeNewRisk, Tick, SyncOracle,
              RecoverOracleDeviation, positions
<1>2. CASE AccrueInterest
  BY <1>2 DEF AccrueInterest, positions
<1>3. CASE LenderStep
  BY <1>3 DEF LenderStep, Supply, Withdraw, RedeemAll, PayLender
<1> QED BY <1>1, <1>2, <1>3

\* The steps of a borrower other than releasing and borrowing lower no collateral and raise no debt.
LEMMA BorrowerPositions ==
    ASSUME IInv, BorrowerStep
    PROVE  /\ cashAssets' >= cashAssets
           /\ \A a \in Accounts : /\ debtSharesOf'[a] <= debtSharesOf[a]
                                  /\ collateralAssetsOf'[a] >= collateralAssetsOf[a]
<1>1. PICK account \in Accounts, amount \in Nat :
        AddCollateral(account, amount) \/ RepayPerforming(account, amount) \/ RecoverBadDebt(account, amount)
  BY DEF BorrowerStep
<1>2. cashAssets \in Nat /\ debtSharesOf \in Balances /\ collateralAssetsOf \in Balances
  BY DEF IInv, TypeOK
<1>3. CASE AddCollateral(account, amount)
  BY <1>2, <1>3 DEF AddCollateral, Credit, Balances
<1>4. CASE RepayPerforming(account, amount)
  <2> DEFINE burned == Repayment(account, amount, Accrue.gross - badDebtAssets).sharesBurned
  <2>1. /\ RepaymentAccepted(account, amount, Accrue.gross - badDebtAssets, Accrue)
        /\ cashAssets' = cashAssets + amount
        /\ debtSharesOf' = Debit(debtSharesOf, account, burned)
        /\ UNCHANGED collateralAssetsOf
    BY <1>4 DEF RepayPerforming, CanRepayPerforming
  <2>2. burned \in Nat
    BY <2>1, AccrueFacts, RepaymentFacts DEF IInv
  <2> HIDE DEF burned
  <2> QED BY <1>2, <2>1, <2>2 DEF Debit, Balances
<1>5. CASE RecoverBadDebt(account, amount)
  BY <1>2, <1>5 DEF RecoverBadDebt, Balances
<1> QED BY <1>1, <1>3, <1>4, <1>5

\* A liquidation takes collateral only from the account whose debt it lowers.
LEMMA LiquidationPositions ==
    ASSUME IInv, LiquidationStep
    PROVE  NoOutflow
<1>1. PICK liquidator \in Accounts, borrower \in Accounts, amount \in Nat, minOut \in Nat, deadline \in Nat,
           feed \in Feeds : Liquidate(liquidator, borrower, amount, minOut, deadline, feed)
  BY DEF LiquidationStep
<1>2. cashAssets \in Nat /\ debtSharesOf \in Balances /\ collateralAssetsOf \in Balances
  BY DEF IInv, TypeOK
<1> DEFINE performing == Accrue.gross - badDebtAssets
           burned == Repayment(borrower, amount, performing).sharesBurned
           sharesLeft == debtSharesOf[borrower] - burned
           collateralLeft == collateralAssetsOf[borrower] - CollateralSeized(borrower, amount, LatestPrice(feed).price)
           exhausted == collateralLeft = 0 /\ sharesLeft # 0
           left == IF exhausted THEN 0 ELSE sharesLeft
<1>3. /\ RepaymentAccepted(borrower, amount, performing, Accrue)
      /\ cashAssets' = cashAssets + amount
      /\ debtSharesOf' = [debtSharesOf EXCEPT ![borrower] = left]
      /\ collateralAssetsOf' = [collateralAssetsOf EXCEPT ![borrower] = collateralLeft]
  BY <1>1 DEF Liquidate
<1>4. burned \in Nat /\ burned # 0 /\ burned <= debtSharesOf[borrower]
  BY <1>3, AccrueFacts, RepaymentFacts DEF IInv
<1> HIDE DEF burned, collateralLeft
<1>5. left \in Nat /\ left < debtSharesOf[borrower]
  BY <1>2, <1>4 DEF Balances
<1> HIDE DEF left
<1>6. ASSUME NEW a \in Accounts
      PROVE  /\ debtSharesOf'[a] <= debtSharesOf[a]
             /\ collateralAssetsOf'[a] < collateralAssetsOf[a] => debtSharesOf'[a] < debtSharesOf[a]
  <2>1. CASE a = borrower
    BY <1>2, <1>3, <1>5, <2>1 DEF Balances
  <2>2. CASE a # borrower
    BY <1>2, <1>3, <2>2 DEF Balances
  <2> QED BY <2>1, <2>2
<1>7. cashAssets' >= cashAssets
  BY <1>2, <1>3
<1> QED BY <1>6, <1>7 DEF NoOutflow

\* While new risk is paused no cash leaves, no debt is minted, and collateral leaves only by liquidation.
THEOREM PoolPauseStopsOutflow == Spec => PauseStopsOutflow
<1>1. IInv /\ [Next]_vars => [newRiskPaused => NoOutflow]_vars
  <2> SUFFICES ASSUME IInv, Next, newRiskPaused PROVE NoOutflow
    OBVIOUS
  <2>0. cashAssets \in Nat /\ debtSharesOf \in Balances /\ collateralAssetsOf \in Balances
    BY DEF IInv, TypeOK
  <2>1. CASE ControlStep \/ OracleStep \/ AccrueInterest
    <3>1. UNCHANGED <<cashAssets, debtSharesOf, collateralAssetsOf>>
      BY <2>1, PositionsKept, Zenon DEF ControlStep, OracleStep, AccrueInterest, PauseNewRisk, ResumeNewRisk, Tick,
                                 SyncOracle, RecoverOracleDeviation, accounting
    <3> QED BY <2>0, <3>1 DEF NoOutflow, Balances
  <2>2. CASE LenderStep
    <3>1. PICK account \in Accounts, amount \in Nat : Supply(account, amount)
      BY <2>2 DEF LenderStep, Withdraw, RedeemAll, WhenNewRiskActive
    <3>2. cashAssets' = cashAssets + amount /\ UNCHANGED <<debtSharesOf, collateralAssetsOf>>
      BY <3>1 DEF Supply
    <3> QED BY <2>0, <3>2 DEF NoOutflow, Balances
  <2>3. CASE BorrowerStep
    <3>1. PICK d \in Balances, k \in Balances : debtSharesOf' = d /\ collateralAssetsOf' = k
      BY NextKeepsIInv, Zenon DEF IInv, TypeOK
    <3>2. \A a \in Accounts : d[a] <= debtSharesOf[a] /\ k[a] >= collateralAssetsOf[a]
      BY <2>3, <3>1, BorrowerPositions
    <3>3. \A a \in Accounts : ~(k[a] < collateralAssetsOf[a])
      BY <2>0, <3>1, <3>2 DEF Balances
    <3> QED BY <2>3, <3>1, <3>2, <3>3, BorrowerPositions DEF NoOutflow
  <2>4. CASE RiskStep
    BY <2>4 DEF RiskStep, ReleaseCollateral, Borrow, WhenNewRiskActive
  <2>5. CASE LiquidationStep
    BY <2>5, LiquidationPositions
  <2> QED BY <2>1, <2>2, <2>3, <2>4, <2>5, NextCases
<1> QED BY <1>1, PoolInvariant, PTL DEF Spec, PauseStopsOutflow

\* An observation never deviates from itself.
LEMMA NoSelfDeviation ==
    ASSUME IInv
    PROVE  ~DeviationExceeded(accepted.price)
<1> DEFINE p == accepted.price
           m == MulDivCeil(0, BPS, p)
<1>1. p \in Nat \ {0}
  BY DEF IInv, TypeOK, Observations
<1> HIDE DEF p
<1>2. m \in Nat /\ m * p < 0 * BPS + p
  BY <1>1, MulDivCeilBounds DEF BPS
<1>3. m * p < 1 * p
  BY <1>1, <1>2 DEF BPS
<1> HIDE DEF m
<1>4. m = 0
  BY <1>1, <1>2, <1>3, CancelFactor
<1>5. p - p = 0 /\ ~(p > p)
  BY <1>1
<1> QED BY <1>4, <1>5 DEF DeviationExceeded, MaxOracleDeviationBps, m, p

\* A call that takes a price takes one in sequence, within the deviation, fresh, and not while halted.
LEMMA RefreshDisciplined ==
    ASSUME NEW feed, RefreshCurrentPrice(feed)
    PROVE  PriceInOrder /\ PricedNow
BY DEF RefreshCurrentPrice, ReadValidObservation, InSequence, PriceInOrder, PricedNow

\* Risk is taken only on a fresh price and never while halted; prices never go back or jump unrecovered.
THEOREM PoolPriceDiscipline == Spec => PriceDiscipline
<1>1. IInv /\ [Next]_vars => [PriceInOrder /\ (TakesRisk => PricedNow)]_vars
  <2> SUFFICES ASSUME IInv, Next PROVE PriceInOrder /\ (TakesRisk => PricedNow)
    OBVIOUS
  <2>0. debtSharesOf \in Balances /\ collateralAssetsOf \in Balances /\ accepted \in Observations
    BY DEF IInv, TypeOK
  <2>1. ASSUME UNCHANGED accepted PROVE PriceInOrder
    BY <2>0, <2>1, NoSelfDeviation DEF PriceInOrder, Observations
  <2>2. ASSUME UNCHANGED <<debtSharesOf, collateralAssetsOf>> PROVE ~TakesRisk
    BY <2>0, <2>2 DEF TakesRisk, Balances
  <2>3. CASE ControlStep \/ AccrueInterest \/ LenderStep
    <3>1. UNCHANGED accepted
      BY <2>3 DEF ControlStep, AccrueInterest, LenderStep, PauseNewRisk, ResumeNewRisk, Tick,
                  Supply, Withdraw, RedeemAll, PayLender, oracle
    <3> QED BY <2>1, <2>2, <2>3, <3>1, PositionsKept
  <2>4. CASE OracleStep
    <3>1. PICK feed \in Feeds : SyncOracle(feed) \/ RecoverOracleDeviation(feed)
      BY <2>4 DEF OracleStep
    <3>2. CASE UNCHANGED accepted
      BY <2>1, <2>2, <2>4, <3>2, PositionsKept
    <3>3. CASE ~UNCHANGED accepted
      <4>1. /\ InSequence(LatestPrice(feed)) /\ accepted' = LatestPrice(feed)
            /\ DeviationExceeded(LatestPrice(feed).price) => oracleDeviationHalted
        BY <3>1, <3>3 DEF SyncOracle, RecoverOracleDeviation
      <4>2. PriceInOrder
        BY <4>1 DEF InSequence, PriceInOrder
      <4> QED BY <2>2, <2>4, <4>2, PositionsKept
    <3> QED BY <3>2, <3>3
  <2>5. CASE BorrowerStep
    <3>1. UNCHANGED accepted
      BY <2>5 DEF BorrowerStep, AddCollateral, RepayPerforming, RecoverBadDebt, oracle
    <3>2. PICK d \in Balances, k \in Balances : debtSharesOf' = d /\ collateralAssetsOf' = k
      BY NextKeepsIInv, Zenon DEF IInv, TypeOK
    <3>3. \A a \in Accounts : d[a] <= debtSharesOf[a] /\ k[a] >= collateralAssetsOf[a]
      BY <2>5, <3>2, BorrowerPositions
    <3>4. \A a \in Accounts : ~(d[a] > debtSharesOf[a]) /\ ~(k[a] < collateralAssetsOf[a])
      BY <2>0, <3>2, <3>3 DEF Balances
    <3> QED BY <2>1, <3>1, <3>2, <3>4 DEF TakesRisk
  <2>6. CASE RiskStep \/ LiquidationStep
    <3>1. PICK feed \in Feeds : RefreshCurrentPrice(feed)
      <4>1. CASE RiskStep
        <5>1. CASE \E account \in Accounts, amount \in Nat, feed \in Feeds : ReleaseCollateral(account, amount, feed)
          BY <5>1 DEF ReleaseCollateral
        <5>2. CASE \E account \in Accounts, amount \in Nat, feed \in Feeds : Borrow(account, amount, feed)
          BY <5>2 DEF Borrow
        <5> QED BY <4>1, <5>1, <5>2 DEF RiskStep
      <4>2. CASE LiquidationStep
        <5>1. PICK liquidator \in Accounts, borrower \in Accounts, amount \in Nat, minOut \in Nat,
                   deadline \in Nat, feed \in Feeds :
                     Liquidate(liquidator, borrower, amount, minOut, deadline, feed)
          BY <4>2 DEF LiquidationStep
        <5>2. RefreshCurrentPrice(feed)
          BY <5>1 DEF Liquidate
        <5> QED BY <5>2
      <4> QED BY <2>6, <4>1, <4>2
    <3> QED BY <3>1, RefreshDisciplined
  <2> QED BY <2>3, <2>4, <2>5, <2>6, NextCases
<1> QED BY <1>1, PoolInvariant, PTL DEF Spec, PriceDiscipline

\* borrow leaves the account within its capacity and its cap, up to the cost of one share.
LEMMA BorrowWithinCapacity ==
    ASSUME IInv, NEW account \in Accounts, NEW amount \in Nat, NEW feed, Borrow(account, amount, feed)
    PROVE  \A a \in Accounts : WithinCapacity(a)
<1> DEFINE p == Accrue.gross - badDebtAssets
           t == totalDebtShares
           s == debtSharesOf[account]
           m == IF t = 0 THEN amount ELSE MulDivCeil(amount, t, p)
           q == Quote(s, t, p)
           capacity == BorrowCapacity(collateralAssetsOf[account], LatestPrice(feed).price)
<1>1. /\ amount # 0 /\ RefreshCurrentPrice(feed)
      /\ q + amount <= BorrowerDebtCapAssets /\ q + amount <= capacity
      /\ grossDebtAssets' = Accrue.gross + amount /\ totalDebtShares' = t + m
      /\ debtSharesOf' = Credit(debtSharesOf, account, m)
      /\ UNCHANGED <<badDebtAssets, collateralAssetsOf>>
  BY DEF Borrow, DebtQuoteAssets
<1>2. accepted' = LatestPrice(feed)
  BY <1>1 DEF RefreshCurrentPrice
<1>3. /\ p \in Nat /\ t \in Nat /\ t <= p /\ (t = 0 => p = 0) /\ p + badDebtAssets = Accrue.gross
      /\ badDebtAssets \in Nat /\ Accrue.gross \in Nat
      /\ debtSharesOf \in Balances /\ collateralAssetsOf \in Balances
  BY AccrueFacts DEF IInv, TypeOK
<1>4. s \in Nat /\ s <= t
  <2>1. s <= SumFunction(debtSharesOf)
    BY <1>3, LedgerSums, Zenon
  <2> QED BY <1>3, <2>1 DEF IInv, LedgersReconcile, Balances
<1>5. PerformingDebt' = p + amount
  BY <1>1, <1>3 DEF PerformingDebt
<1> HIDE DEF p
<1>6. /\ m \in Nat \ {0} /\ MulDivCeil(1, p + amount, t + m) \in Nat
      /\ Quote(s + m, t + m, p + amount) <= q + amount + MulDivCeil(1, p + amount, t + m)
  <2>1. m = IF t = 0 THEN amount ELSE MulDivCeil(amount, t, p)
    OBVIOUS
  <2>2. amount \in Nat \ {0}
    BY <1>1
  <2> HIDE DEF m, s, t
  <2>3. s \in Nat /\ t \in Nat /\ p \in Nat /\ s <= t /\ t <= p /\ (t = 0 => p = 0)
    BY <1>3, <1>4
  <2> QED BY <2>1, <2>2, <2>3, QuoteAfterMint, Zenon
<1>7. q \in Nat /\ Quote(s + m, t + m, p + amount) \in Nat
  <2>0. s # 0 => t # 0
    BY <1>3, <1>4
  <2>1. q \in Nat
    <3> HIDE DEF s, t
    <3> QED BY <1>3, <1>4, <2>0, QuoteFacts, Zenon
  <2>2. s + m \in Nat /\ t + m \in Nat \ {0} /\ p + amount \in Nat
    BY <1>3, <1>4, <1>6
  <2> HIDE DEF m
  <2>3. Quote(s + m, t + m, p + amount) \in Nat
    <3>1. MulDivCeil(s + m, p + amount, t + m) \in Nat
      BY <2>2, MulDivCeilBounds, Zenon
    <3> QED BY <2>2, <3>1 DEF Quote
  <2> QED BY <2>1, <2>3
<1> HIDE DEF m
<1>8. capacity \in Nat
  <2>1. LatestPrice(feed).price \in Nat /\ collateralAssetsOf[account] \in Nat
    BY <1>1, <1>3, RefreshedPrice DEF Balances
  <2>2. CollateralValueAssets(collateralAssetsOf[account], LatestPrice(feed).price) \in Nat
    BY <2>1, ScaleAssumption, MulDivBounds, Zenon DEF CollateralValueAssets
  <2>3. \A v \in Nat : MulDiv(v, LoanToValueBps, BPS) \in Nat
    <3>1. LoanToValueBps \in Nat /\ BPS \in Nat \ {0}
      BY ConfigurationAssumption DEF BPS
    <3> QED BY <3>1, MulDivBounds
  <2> QED BY <2>2, <2>3 DEF BorrowCapacity
<1> SUFFICES ASSUME NEW a \in Accounts PROVE WithinCapacity(a)
  OBVIOUS
<1>9. CASE a # account
  <2>1. debtSharesOf'[a] = debtSharesOf[a] /\ collateralAssetsOf'[a] = collateralAssetsOf[a]
    BY <1>1, <1>3, <1>9 DEF Credit, Balances
  <2>2. debtSharesOf[a] \in Nat /\ collateralAssetsOf[a] \in Nat
    BY <1>3 DEF Balances
  <2> QED BY <2>1, <2>2 DEF WithinCapacity
<1>10. CASE a = account
  <2> DEFINE cost == MulDivCeil(1, p + amount, t + m)
             after == Quote(s + m, t + m, p + amount)
  <2>1. debtSharesOf'[account] = s + m /\ collateralAssetsOf'[account] = collateralAssetsOf[account]
    BY <1>1, <1>3 DEF Credit, Balances
  <2>2. DebtAfter(account) = after /\ ShareCost = cost /\ CapacityAfter(account) = capacity
    BY <1>1, <1>2, <1>5, <2>1 DEF DebtAfter, ShareCost, CapacityAfter
  <2>3. after <= q + amount + cost /\ q \in Nat /\ cost \in Nat /\ after \in Nat
    BY <1>6, <1>7
  <2> HIDE DEF cost, after, q, capacity
  <2>4. after <= capacity + cost
    BY <1>1, <1>8, <2>3
  <2>5. after <= BorrowerDebtCapAssets + cost
    BY <1>1, <2>3, ConfigurationAssumption
  <2>6. ~(collateralAssetsOf'[account] < collateralAssetsOf[account])
    BY <1>3, <2>1 DEF Balances
  <2> QED BY <1>10, <2>2, <2>4, <2>5, <2>6 DEF WithinCapacity
<1> QED BY <1>9, <1>10

\* releaseCollateral leaves the account within the capacity of what it keeps.
LEMMA ReleaseWithinCapacity ==
    ASSUME IInv, NEW account \in Accounts, NEW amount \in Nat, NEW feed, ReleaseCollateral(account, amount, feed)
    PROVE  \A a \in Accounts : WithinCapacity(a)
<1> DEFINE remaining == collateralAssetsOf[account] - amount
           p == Accrue.gross - badDebtAssets
<1>1. /\ RefreshCurrentPrice(feed) /\ Accrued(Accrue)
      /\ Quote(debtSharesOf[account], totalDebtShares, p) + badDebtAssetsOf[account]
            <= BorrowCapacity(remaining, LatestPrice(feed).price)
      /\ collateralAssetsOf' = [collateralAssetsOf EXCEPT ![account] = remaining]
      /\ UNCHANGED <<debtSharesOf, badDebtAssetsOf>>
  BY DEF ReleaseCollateral, DebtQuoteAssets
<1>2. /\ accepted' = LatestPrice(feed) /\ PerformingDebt' = p /\ totalDebtShares' = totalDebtShares
  BY <1>1 DEF RefreshCurrentPrice, Accrued, PerformingDebt
<1>3. debtSharesOf \in Balances /\ collateralAssetsOf \in Balances
  BY DEF IInv, TypeOK
<1> HIDE DEF p, remaining
<1>4. ASSUME NEW a \in Accounts PROVE ~(debtSharesOf'[a] > debtSharesOf[a])
  BY <1>1, <1>3 DEF Balances
<1>5. ASSUME NEW a \in Accounts, a # account PROVE ~(collateralAssetsOf'[a] < collateralAssetsOf[a])
  BY <1>1, <1>3, <1>5 DEF Balances
<1>6. DebtAfter(account) + badDebtAssetsOf'[account] <= CapacityAfter(account)
  <2>1. collateralAssetsOf'[account] = remaining
    BY <1>1, <1>3 DEF Balances
  <2> QED BY <1>1, <1>2, <2>1 DEF DebtAfter, CapacityAfter
<1> QED BY <1>4, <1>5, <1>6 DEF WithinCapacity

\* Borrowing and releasing collateral honor the account's capacity and the borrower's cap.
THEOREM PoolCapacityHonored == Spec => CapacityHonored
<1>1. IInv /\ [Next]_vars => [\A a \in Accounts : WithinCapacity(a)]_vars
  <2> SUFFICES ASSUME IInv, Next PROVE \A a \in Accounts : WithinCapacity(a)
    OBVIOUS
  <2>0. debtSharesOf \in Balances /\ collateralAssetsOf \in Balances
    BY DEF IInv, TypeOK
  <2>1. CASE ControlStep \/ OracleStep \/ AccrueInterest \/ LenderStep
    <3>1. UNCHANGED <<debtSharesOf, collateralAssetsOf>>
      BY <2>1, PositionsKept
    <3> QED BY <2>0, <3>1 DEF WithinCapacity, Balances
  <2>2. CASE RiskStep
    BY <2>2, BorrowWithinCapacity, ReleaseWithinCapacity DEF RiskStep
  <2>3. CASE BorrowerStep \/ LiquidationStep
    <3>1. PICK d \in Balances, k \in Balances : debtSharesOf' = d /\ collateralAssetsOf' = k
      BY NextKeepsIInv, Zenon DEF IInv, TypeOK
    <3>2. CASE BorrowerStep
      <4>1. \A a \in Accounts : d[a] <= debtSharesOf[a] /\ k[a] >= collateralAssetsOf[a]
        BY <3>1, <3>2, BorrowerPositions
      <4>2. \A a \in Accounts : ~(d[a] > debtSharesOf[a]) /\ ~(k[a] < collateralAssetsOf[a])
        BY <2>0, <3>1, <4>1 DEF Balances
      <4> QED BY <3>1, <4>2 DEF WithinCapacity
    <3>3. CASE LiquidationStep
      <4>1. \A a \in Accounts : d[a] <= debtSharesOf[a] /\ (k[a] < collateralAssetsOf[a] => d[a] < debtSharesOf[a])
        BY <3>1, <3>3, LiquidationPositions DEF NoOutflow
      <4>2. \A a \in Accounts : ~(d[a] > debtSharesOf[a]) /\ ~(k[a] < collateralAssetsOf[a] /\ d[a] = debtSharesOf[a])
        BY <2>0, <3>1, <4>1 DEF Balances
      <4> QED BY <3>1, <4>2 DEF WithinCapacity
    <3> QED BY <2>3, <3>2, <3>3
  <2> QED BY <2>1, <2>2, <2>3, NextCases
<1> QED BY <1>1, PoolInvariant, PTL DEF Spec, CapacityHonored

=============================================================================
