----------------------- MODULE SecuredPoolCallProofs ------------------------
(***************************************************************************)
(* Every call keeps the pool's invariant.                                  *)
(***************************************************************************)
EXTENDS SecuredPoolFacts

\* pauseNewRisk, resumeNewRisk and time leave the ledgers alone.
LEMMA ControlsKeepIInv ==
    ASSUME IInv, PauseNewRisk \/ ResumeNewRisk \/ \E step \in TimeSteps : Tick(step)
    PROVE  IInv'
<1> USE DEF IInv, PerformingCoversShares, PerformingDebt, NoUnsecuredPerformingDebt, LedgersReconcile,
            accounting, positions, oracle, tokens
<1>1. CASE PauseNewRisk
  BY <1>1 DEF PauseNewRisk, TypeOK
<1>2. CASE ResumeNewRisk
  BY <1>2, Zenon DEF ResumeNewRisk, TypeOK
<1>3. CASE \E step \in TimeSteps : Tick(step)
  <2>1. PICK step \in TimeSteps : Tick(step)
    BY <1>3
  <2>2. step \in Nat
    BY InputAssumption
  <2> QED BY <2>1, <2>2 DEF Tick, TypeOK
<1> QED BY <1>1, <1>2, <1>3

\* syncOracle and recoverOracleDeviation touch the price only.
LEMMA OracleKeepsIInv ==
    ASSUME IInv, NEW feed, SyncOracle(feed) \/ RecoverOracleDeviation(feed)
    PROVE  IInv'
<1>1. accepted' \in Observations /\ oracleDeviationHalted' \in BOOLEAN
  BY Zenon DEF SyncOracle, RecoverOracleDeviation, ReadValidObservation, IInv, TypeOK
<1>2. UNCHANGED <<accounting, positions, newRiskPaused, tokens, now>>
  BY DEF SyncOracle, RecoverOracleDeviation
<1> QED BY <1>1, <1>2 DEF IInv, TypeOK, PerformingCoversShares, PerformingDebt,
            NoUnsecuredPerformingDebt, LedgersReconcile, accounting, positions, tokens

\* accrueInterest is the accrual alone.
LEMMA AccrueInterestKeepsIInv ==
    ASSUME IInv, AccrueInterest
    PROVE  IInv'
<1>1. /\ Accrued(Accrue)
      /\ UNCHANGED <<cashAssets, totalSupplyShares, positions, oracle, newRiskPaused, tokens, now>>
  BY DEF AccrueInterest
<1>2. TypeOK' /\ PerformingCoversShares'
  BY <1>1, AccruedKeepsCover DEF IInv, TypeOK, positions, oracle, tokens
<1>3. LedgersReconcile'
  BY <1>1 DEF IInv, LedgersReconcile, Accrued, positions, tokens
<1> QED BY <1>1, <1>2, <1>3 DEF IInv, NoUnsecuredPerformingDebt, positions

\* supply adds cash and lender shares.
LEMMA SupplyKeepsIInv ==
    ASSUME IInv, NEW account \in Accounts, NEW amount \in Nat, Supply(account, amount)
    PROVE  IInv'
<1> DEFINE claimBefore == LpClaimAssets(Accrue)
           minted == IF totalSupplyShares = 0 THEN amount ELSE MulDiv(amount, totalSupplyShares, claimBefore)
<1>1. claimBefore \in Int /\ totalSupplyShares \in Nat
  BY AccrueFacts DEF LpClaimAssets, IInv, TypeOK
<1> HIDE DEF claimBefore
<1>2. minted \in Nat
  <2>1. totalSupplyShares # 0 => claimBefore \in Nat \ {0}
    BY <1>1 DEF Supply, claimBefore
  <2> QED BY <1>1, <2>1, MulDivBounds
<1>3. /\ Accrued(Accrue) /\ UNCHANGED now
      /\ debtTokenOf[account] >= amount
      /\ cashAssets' = cashAssets + amount
      /\ totalSupplyShares' = totalSupplyShares + minted
      /\ supplySharesOf' = Credit(supplySharesOf, account, minted)
      /\ debtTokenOf' = Debit(debtTokenOf, account, amount)
      /\ UNCHANGED <<collateralAssetsOf, debtSharesOf, badDebtAssetsOf, oracle,
                     newRiskPaused, collateralTokenOf, now>>
  BY DEF Supply, claimBefore
<1> HIDE DEF minted
<1>4. supplySharesOf' \in Balances /\ debtTokenOf' \in Balances
  BY <1>2, <1>3, BalanceTypes, Zenon DEF IInv, TypeOK, Balances
<1>5. TypeOK'
  BY <1>1, <1>2, <1>3, <1>4, AccruedKeepsCover DEF IInv, TypeOK, oracle
<1>6. LedgersReconcile'
  <2>1. /\ SumFunction(supplySharesOf') = SumFunction(supplySharesOf) + minted
        /\ SumFunction(debtTokenOf') = SumFunction(debtTokenOf) - amount
        /\ SumFunction(debtTokenOf) \in Nat
    <3>1. amount <= debtTokenOf[account]
      BY <1>3, Ledgers
    <3>2. SumFunction(supplySharesOf') = SumFunction(supplySharesOf) + minted
      BY <1>2, <1>3, Ledgers, CreditSum, Zenon
    <3>3. SumFunction(debtTokenOf') = SumFunction(debtTokenOf) - amount
      BY <1>3, <3>1, Ledgers, DebitSum, Zenon
    <3> QED BY <3>2, <3>3, Ledgers
  <2> QED BY <1>3, <2>1 DEF IInv, TypeOK, LedgersReconcile, Accrued
<1> QED BY <1>3, <1>5, <1>6, AccruedKeepsCover DEF IInv, NoUnsecuredPerformingDebt

\* What withdraw and redeemAll share: cash and lender shares go down together.
LEMMA PayLenderKeepsIInv ==
    ASSUME IInv, NEW account \in Accounts, NEW amount \in Nat, NEW burned \in Nat,
           amount <= cashAssets, burned <= totalSupplyShares, burned <= supplySharesOf[account],
           PayLender(account, amount, burned, Accrue)
    PROVE  IInv'
<1>1. /\ Accrued(Accrue) /\ UNCHANGED now
      /\ cashAssets' = cashAssets - amount
      /\ totalSupplyShares' = totalSupplyShares - burned
      /\ supplySharesOf' = Debit(supplySharesOf, account, burned)
      /\ debtTokenOf' = Credit(debtTokenOf, account, amount)
      /\ UNCHANGED <<collateralAssetsOf, debtSharesOf, badDebtAssetsOf, oracle,
                     newRiskPaused, collateralTokenOf, now>>
  BY DEF PayLender
<1>2. supplySharesOf' \in Balances /\ debtTokenOf' \in Balances
  BY <1>1, BalanceTypes DEF IInv, TypeOK
<1>3. TypeOK'
  BY <1>1, <1>2, AccruedKeepsCover DEF IInv, TypeOK, oracle
<1>4. LedgersReconcile'
  <2>1. /\ SumFunction(supplySharesOf') = SumFunction(supplySharesOf) - burned
        /\ SumFunction(debtTokenOf') = SumFunction(debtTokenOf) + amount
        /\ SumFunction(debtTokenOf) \in Nat
    <3>1. SumFunction(supplySharesOf') = SumFunction(supplySharesOf) - burned
      BY <1>1, Ledgers, DebitSum, Zenon
    <3>2. SumFunction(debtTokenOf') = SumFunction(debtTokenOf) + amount
      BY <1>1, Ledgers, CreditSum, Zenon
    <3> QED BY <3>1, <3>2, Ledgers
  <2> QED BY <1>1, <2>1 DEF IInv, TypeOK, LedgersReconcile, Accrued
<1> QED BY <1>1, <1>3, <1>4, AccruedKeepsCover DEF IInv, NoUnsecuredPerformingDebt

\* withdraw, for an amount.
LEMMA WithdrawKeepsIInv ==
    ASSUME IInv, NEW account \in Accounts, NEW amount \in Nat, Withdraw(account, amount)
    PROVE  IInv'
<1> DEFINE claim == LpClaimAssets(Accrue)
           burned == MulDivCeil(amount, totalSupplyShares, claim)
<1>1. claim \in Int /\ totalSupplyShares \in Nat
  BY AccrueFacts DEF LpClaimAssets, IInv, TypeOK
<1>2. /\ claim > 0 /\ amount <= cashAssets /\ burned <= totalSupplyShares
      /\ burned <= supplySharesOf[account] /\ PayLender(account, amount, burned, Accrue)
  BY DEF Withdraw
<1> HIDE DEF claim
<1>3. burned \in Nat
  BY <1>1, <1>2, MulDivCeilBounds
<1> HIDE DEF burned
<1> QED BY <1>2, <1>3, PayLenderKeepsIInv

\* redeemAll, for all shares of the caller.
LEMMA RedeemAllKeepsIInv ==
    ASSUME IInv, NEW account \in Accounts, RedeemAll(account)
    PROVE  IInv'
<1> DEFINE claim == LpClaimAssets(Accrue)
           burned == supplySharesOf[account]
           amount == IF burned = totalSupplyShares THEN claim ELSE MulDiv(burned, claim, totalSupplyShares)
<1>1. claim \in Int /\ totalSupplyShares \in Nat /\ burned \in Nat
  BY AccrueFacts DEF LpClaimAssets, IInv, TypeOK, Balances
<1>2. /\ claim >= 0 /\ amount <= cashAssets /\ burned # 0 /\ burned <= totalSupplyShares
      /\ PayLender(account, amount, burned, Accrue)
  BY DEF RedeemAll
<1> HIDE DEF claim
<1>3. amount \in Nat
  BY <1>1, <1>2, MulDivBounds
<1> HIDE DEF amount
<1> QED BY <1>1, <1>2, <1>3, PayLenderKeepsIInv

\* addCollateral adds to one account.
LEMMA AddCollateralKeepsIInv ==
    ASSUME IInv, NEW account \in Accounts, NEW amount \in Nat, AddCollateral(account, amount)
    PROVE  IInv'
<1>1. /\ Accrued(Accrue) /\ amount # 0 /\ collateralTokenOf[account] >= amount
      /\ collateralAssetsOf' = Credit(collateralAssetsOf, account, amount)
      /\ collateralTokenOf' = Debit(collateralTokenOf, account, amount)
      /\ UNCHANGED <<cashAssets, totalSupplyShares, supplySharesOf, debtSharesOf,
                     badDebtAssetsOf, oracle, newRiskPaused, debtTokenOf, now>>
  BY DEF AddCollateral
<1>2. collateralAssetsOf' \in Balances /\ collateralTokenOf' \in Balances
  BY <1>1, BalanceTypes, Zenon DEF IInv, TypeOK, Balances
<1>3. TypeOK'
  BY <1>1, <1>2, AccruedKeepsCover DEF IInv, TypeOK, oracle
<1>4. \A a \in Accounts : collateralAssetsOf[a] # 0 => collateralAssetsOf'[a] # 0
  BY <1>1 DEF IInv, TypeOK, Balances, Credit
<1>5. LedgersReconcile'
  <2>1. /\ SumFunction(collateralAssetsOf') = SumFunction(collateralAssetsOf) + amount
        /\ SumFunction(collateralTokenOf') = SumFunction(collateralTokenOf) - amount
        /\ SumFunction(collateralAssetsOf) \in Nat /\ SumFunction(collateralTokenOf) \in Nat
    <3>1. amount <= collateralTokenOf[account]
      BY <1>1, Ledgers
    <3>2. SumFunction(collateralAssetsOf') = SumFunction(collateralAssetsOf) + amount
      BY <1>1, Ledgers, CreditSum, Zenon
    <3>3. SumFunction(collateralTokenOf') = SumFunction(collateralTokenOf) - amount
      BY <1>1, <3>1, Ledgers, DebitSum, Zenon
    <3> QED BY <3>2, <3>3, Ledgers
  <2> QED BY <1>1, <2>1 DEF IInv, TypeOK, LedgersReconcile, Accrued
<1> QED BY <1>1, <1>3, <1>4, <1>5, AccruedKeepsCover DEF IInv, NoUnsecuredPerformingDebt

\* releaseCollateral leaves collateral wherever debt is left.
LEMMA ReleaseKeepsIInv ==
    ASSUME IInv, NEW account \in Accounts, NEW amount \in Nat, NEW feed,
           ReleaseCollateral(account, amount, feed)
    PROVE  IInv'
<1> DEFINE remaining == collateralAssetsOf[account] - amount
           debt == DebtQuoteAssets(account, Accrue.gross - badDebtAssets)
           price == LatestPrice(feed).price
<1>1. /\ Accrued(Accrue) /\ amount <= collateralAssetsOf[account]
      /\ RefreshCurrentPrice(feed)
      /\ Quotable(account)
      /\ debt + badDebtAssetsOf[account] <= BorrowCapacity(remaining, price)
      /\ collateralAssetsOf' = [collateralAssetsOf EXCEPT ![account] = remaining]
      /\ collateralTokenOf' = Credit(collateralTokenOf, account, amount)
      /\ UNCHANGED <<cashAssets, totalSupplyShares, supplySharesOf, debtSharesOf,
                     badDebtAssetsOf, newRiskPaused, debtTokenOf, now>>
  BY DEF ReleaseCollateral
<1>2. /\ remaining \in Nat /\ badDebtAssetsOf[account] \in Nat /\ debtSharesOf[account] \in Nat
      /\ collateralAssetsOf' \in Balances
  BY <1>1 DEF IInv, TypeOK, Balances
<1>3. TypeOK'
  <2>1. collateralTokenOf' \in Balances
    BY <1>1, BalanceTypes DEF IInv, TypeOK
  <2> QED BY <1>1, <1>2, <2>1, AccruedKeepsCover, RefreshedPrice DEF IInv, TypeOK
<1>4. debt \in Nat /\ (debtSharesOf[account] # 0 => debt # 0)
  BY <1>1, DebtQuoteFacts
<1>5. BorrowCapacity(0, price) = 0
  BY <1>1, RefreshedPrice
<1> HIDE DEF debt, remaining, price
<1>6. debtSharesOf[account] # 0 => remaining # 0
  <2>1. debt + badDebtAssetsOf[account] <= BorrowCapacity(remaining, price)
    BY <1>1
  <2>2. remaining = 0 => debt + badDebtAssetsOf[account] <= 0
    BY <1>5, <2>1
  <2>3. badDebtAssetsOf[account] \in Nat
    BY <1>2
  <2> QED BY <1>4, <2>2, <2>3
<1>7. NoUnsecuredPerformingDebt'
  BY <1>1, <1>6 DEF IInv, TypeOK, Balances, NoUnsecuredPerformingDebt
<1>8. LedgersReconcile'
  <2>1. /\ SumFunction(collateralAssetsOf') = SumFunction(collateralAssetsOf) + remaining - collateralAssetsOf[account]
        /\ SumFunction(collateralTokenOf') = SumFunction(collateralTokenOf) + amount
        /\ SumFunction(collateralAssetsOf) \in Nat /\ SumFunction(collateralTokenOf) \in Nat
    <3>1. collateralAssetsOf \in Balances /\ collateralTokenOf \in Balances /\ remaining \in Nat
      BY <1>2 DEF IInv, TypeOK
    <3>2. SumFunction([collateralAssetsOf EXCEPT ![account] = remaining])
            = SumFunction(collateralAssetsOf) + remaining - collateralAssetsOf[account]
      BY <3>1, ReplacedSum, Zenon
    <3>3. /\ SumFunction(Credit(collateralTokenOf, account, amount)) = SumFunction(collateralTokenOf) + amount
          /\ SumFunction(collateralAssetsOf) \in Nat /\ SumFunction(collateralTokenOf) \in Nat
      BY <3>1, CreditSum, Ledgers, Zenon
    <3> QED BY <1>1, <3>2, <3>3, Zenon
  <2>2. collateralAssetsOf[account] \in Nat /\ remaining = collateralAssetsOf[account] - amount
    BY DEF IInv, TypeOK, Balances, remaining
  <2>3. SumFunction(collateralAssetsOf') = SumFunction(collateralAssetsOf) - amount
    BY <2>1, <2>2
  <2> QED BY <1>1, <2>1, <2>3 DEF IInv, TypeOK, LedgersReconcile, Accrued
<1> QED BY <1>1, <1>3, <1>7, <1>8, AccruedKeepsCover DEF IInv

\* borrow mints shares rounded up, at most the new debt, against collateral that is there.
LEMMA BorrowKeepsIInv ==
    ASSUME IInv, NEW account \in Accounts, NEW amount \in Nat, NEW feed, Borrow(account, amount, feed)
    PROVE  IInv'
<1> DEFINE performing == Accrue.gross - badDebtAssets
           debtBefore == DebtQuoteAssets(account, performing)
           minted == IF totalDebtShares = 0 THEN amount ELSE MulDivCeil(amount, totalDebtShares, performing)
           price == LatestPrice(feed).price
<1>1. /\ amount # 0 /\ badDebtAssetsOf[account] = 0 /\ amount <= cashAssets
      /\ RefreshCurrentPrice(feed) /\ Quotable(account)
      /\ debtBefore + amount <= BorrowCapacity(collateralAssetsOf[account], price)
      /\ grossDebtAssets' = Accrue.gross + amount
      /\ reservesAssets' = Accrue.reserves
      /\ lastAccruedAt' = Accrue.last
      /\ cashAssets' = cashAssets - amount
      /\ totalDebtShares' = totalDebtShares + minted
      /\ debtSharesOf' = Credit(debtSharesOf, account, minted)
      /\ debtTokenOf' = Credit(debtTokenOf, account, amount)
      /\ UNCHANGED <<badDebtAssets, totalSupplyShares, supplySharesOf, collateralAssetsOf,
                     badDebtAssetsOf, newRiskPaused, collateralTokenOf, now>>
  BY DEF Borrow
<1>2. debtBefore \in Nat
  BY <1>1, DebtQuoteFacts
<1>3. BorrowCapacity(0, price) = 0
  BY <1>1, RefreshedPrice
<1>4. /\ performing \in Nat /\ totalDebtShares \in Nat /\ totalDebtShares <= performing
      /\ totalDebtShares = 0 => performing = 0
      /\ performing + badDebtAssets = Accrue.gross /\ badDebtAssets \in Nat
  BY AccrueFacts DEF IInv, TypeOK
<1> HIDE DEF performing, debtBefore, price
<1>5. minted \in Nat /\ minted # 0 /\ minted <= amount
  BY <1>1, <1>4, CeilMint
<1> HIDE DEF minted
<1>6. debtSharesOf' \in Balances /\ debtTokenOf' \in Balances
  BY <1>1, <1>5, BalanceTypes DEF IInv, TypeOK
<1>7. TypeOK'
  BY <1>1, <1>4, <1>5, <1>6, AccrueFacts, RefreshedPrice DEF IInv, TypeOK
<1>8. PerformingCoversShares'
  <2>1. /\ grossDebtAssets' = Accrue.gross + amount /\ badDebtAssets' = badDebtAssets
        /\ totalDebtShares' = totalDebtShares + minted
    BY <1>1
  <2>2. PerformingDebt' = performing + amount
    BY <2>1, <1>4 DEF PerformingDebt
  <2> QED BY <2>1, <2>2, <1>4, <1>5 DEF PerformingCoversShares
<1>9. collateralAssetsOf[account] # 0
  <2>1. /\ amount # 0
        /\ debtBefore + amount <= BorrowCapacity(collateralAssetsOf[account], price)
    BY <1>1
  <2> QED BY <2>1, <1>2, <1>3
<1>10. NoUnsecuredPerformingDebt'
  BY <1>1, <1>9 DEF IInv, TypeOK, Balances, NoUnsecuredPerformingDebt, Credit
<1>11. LedgersReconcile'
  <2>1. /\ SumFunction(debtSharesOf') = SumFunction(debtSharesOf) + minted
        /\ SumFunction(debtTokenOf') = SumFunction(debtTokenOf) + amount
        /\ SumFunction(debtTokenOf) \in Nat
    BY <1>1, <1>5, Ledgers, CreditSum, Zenon
  <2> QED BY <1>1, <2>1 DEF IInv, TypeOK, LedgersReconcile
<1> QED BY <1>7, <1>8, <1>10, <1>11 DEF IInv

\* A repayment of performing debt burns shares and keeps the others covered.
LEMMA RepayPerformingKeepsIInv ==
    ASSUME IInv, NEW account \in Accounts, NEW amount \in Nat, RepayPerforming(account, amount)
    PROVE  IInv'
<1> DEFINE performing == Accrue.gross - badDebtAssets
           burned == Repayment(account, amount, performing).sharesBurned
           reduced == Repayment(account, amount, performing).reduced
<1>1. /\ RepaymentAccepted(account, amount, performing, Accrue)
      /\ debtTokenOf[account] >= amount
      /\ cashAssets' = cashAssets + amount
      /\ grossDebtAssets' = Accrue.gross - reduced
      /\ reservesAssets' = Accrue.reserves + (amount - reduced)
      /\ lastAccruedAt' = Accrue.last
      /\ totalDebtShares' = totalDebtShares - burned
      /\ debtSharesOf' = Debit(debtSharesOf, account, burned)
      /\ debtTokenOf' = Debit(debtTokenOf, account, amount)
      /\ UNCHANGED <<badDebtAssets, totalSupplyShares, supplySharesOf, collateralAssetsOf,
                     badDebtAssetsOf, oracle, newRiskPaused, collateralTokenOf, now>>
  BY DEF RepayPerforming, CanRepayPerforming
<1>2. /\ performing \in Nat /\ totalDebtShares \in Nat /\ totalDebtShares <= performing
      /\ performing + badDebtAssets = Accrue.gross /\ badDebtAssets \in Nat
  BY AccrueFacts DEF IInv, TypeOK
<1> HIDE DEF performing
<1>3. /\ burned \in Nat /\ burned # 0 /\ burned <= totalDebtShares /\ burned <= debtSharesOf[account]
      /\ reduced \in Nat /\ reduced <= amount /\ reduced <= performing
      /\ totalDebtShares - burned <= performing - reduced
      /\ burned = totalDebtShares => reduced = performing
  BY <1>1, <1>2, RepaymentFacts DEF IInv
<1> HIDE DEF burned, reduced
<1>4. debtSharesOf' \in Balances /\ debtTokenOf' \in Balances
  BY <1>1, <1>3, BalanceTypes, Zenon DEF IInv, TypeOK, Balances
<1>5. TypeOK'
  <2>1. /\ Accrue.gross \in Nat /\ Accrue.reserves \in Nat /\ Accrue.last \in Nat
        /\ Accrue.last <= now
    BY AccrueFacts
  <2>2. /\ cashAssets' \in Nat /\ grossDebtAssets' \in Nat /\ reservesAssets' \in Nat
        /\ badDebtAssets' <= grossDebtAssets' /\ totalDebtShares' \in Nat
    BY <1>1, <1>2, <1>3, <2>1 DEF IInv, TypeOK
  <2> QED BY <1>1, <1>4, <2>1, <2>2 DEF IInv, TypeOK, oracle
<1>6. PerformingCoversShares'
  BY <1>1, <1>2, <1>3 DEF PerformingCoversShares, PerformingDebt
<1>7. \A a \in Accounts : debtSharesOf'[a] # 0 => debtSharesOf[a] # 0
  BY <1>1, <1>3 DEF IInv, TypeOK, Balances, Debit
<1>8. NoUnsecuredPerformingDebt'
  BY <1>1, <1>7 DEF IInv, NoUnsecuredPerformingDebt
<1>9. LedgersReconcile'
  <2>1. /\ SumFunction(debtSharesOf') = SumFunction(debtSharesOf) - burned
        /\ SumFunction(debtTokenOf') = SumFunction(debtTokenOf) - amount
        /\ SumFunction(debtTokenOf) \in Nat
    <3>1. amount <= debtTokenOf[account]
      BY <1>1, Ledgers
    <3> QED BY <1>1, <1>3, <3>1, Ledgers, DebitSum, Zenon
  <2> QED BY <1>1, <2>1 DEF IInv, TypeOK, LedgersReconcile
<1> QED BY <1>5, <1>6, <1>8, <1>9 DEF IInv

\* A repayment of recognised bad debt moves no shares.
LEMMA RecoverBadDebtKeepsIInv ==
    ASSUME IInv, NEW account \in Accounts, NEW amount \in Nat, RecoverBadDebt(account, amount)
    PROVE  IInv'
<1>1. /\ debtSharesOf[account] = 0 /\ amount <= badDebtAssetsOf[account]
      /\ debtTokenOf[account] >= amount /\ amount <= Accrue.gross /\ amount <= badDebtAssets
      /\ cashAssets' = cashAssets + amount
      /\ grossDebtAssets' = Accrue.gross - amount
      /\ reservesAssets' = Accrue.reserves
      /\ lastAccruedAt' = Accrue.last
      /\ badDebtAssets' = badDebtAssets - amount
      /\ badDebtAssetsOf' = Debit(badDebtAssetsOf, account, amount)
      /\ debtTokenOf' = Debit(debtTokenOf, account, amount)
      /\ UNCHANGED <<totalSupplyShares, totalDebtShares, supplySharesOf, collateralAssetsOf,
                     debtSharesOf, oracle, newRiskPaused, collateralTokenOf, now>>
  BY DEF RecoverBadDebt, CanRecoverBadDebt
<1>2. badDebtAssetsOf' \in Balances /\ debtTokenOf' \in Balances
  BY <1>1, BalanceTypes, Zenon DEF IInv, TypeOK, Balances
<1>3. TypeOK'
  BY <1>1, <1>2, AccrueFacts DEF IInv, TypeOK, oracle
<1>4. PerformingCoversShares'
  BY <1>1, AccrueFacts DEF IInv, TypeOK, PerformingCoversShares, PerformingDebt
<1>5. NoUnsecuredPerformingDebt'
  BY <1>1 DEF IInv, TypeOK, Balances, NoUnsecuredPerformingDebt, Debit
<1>6. LedgersReconcile'
  <2>1. /\ SumFunction(badDebtAssetsOf') = SumFunction(badDebtAssetsOf) - amount
        /\ SumFunction(debtTokenOf') = SumFunction(debtTokenOf) - amount
        /\ SumFunction(debtTokenOf) \in Nat
    <3>1. amount <= debtTokenOf[account]
      BY <1>1, Ledgers
    <3> QED BY <1>1, <3>1, Ledgers, DebitSum, Zenon
  <2> QED BY <1>1, <2>1 DEF IInv, TypeOK, LedgersReconcile
<1> QED BY <1>3, <1>4, <1>5, <1>6 DEF IInv

\* liquidate: the borrower keeps collateral, or the rest is recognised and the shares are gone.
LEMMA LiquidateKeepsIInv ==
    ASSUME IInv, NEW liquidator \in Accounts, NEW borrower \in Accounts, NEW amount \in Nat,
           NEW minOut, NEW deadline, NEW feed,
           Liquidate(liquidator, borrower, amount, minOut, deadline, feed)
    PROVE  IInv'
<1> DEFINE performing == Accrue.gross - badDebtAssets
           price == LatestPrice(feed).price
           seized == CollateralSeized(borrower, amount, price)
           burned == Repayment(borrower, amount, performing).sharesBurned
           reduced == Repayment(borrower, amount, performing).reduced
           collateralLeft == collateralAssetsOf[borrower] - seized
           sharesLeft == debtSharesOf[borrower] - burned
           totalLeft == totalDebtShares - burned
           quoteLeft == Quote(sharesLeft, totalLeft, performing - reduced)
           exhausted == collateralLeft = 0 /\ sharesLeft # 0
           recognized == IF exhausted THEN quoteLeft ELSE 0
<1>1. /\ RefreshCurrentPrice(feed)
      /\ debtTokenOf[liquidator] >= amount
      /\ RepaymentAccepted(borrower, amount, performing, Accrue)
      /\ exhausted => sharesLeft <= totalLeft
      /\ cashAssets' = cashAssets + amount
      /\ grossDebtAssets' = Accrue.gross - reduced
      /\ reservesAssets' = Accrue.reserves + (amount - reduced)
      /\ lastAccruedAt' = Accrue.last
      /\ badDebtAssets' = badDebtAssets + recognized
      /\ totalDebtShares' = IF exhausted THEN totalLeft - sharesLeft ELSE totalLeft
      /\ debtSharesOf' = [debtSharesOf EXCEPT ![borrower] = IF exhausted THEN 0 ELSE sharesLeft]
      /\ badDebtAssetsOf' = Credit(badDebtAssetsOf, borrower, recognized)
      /\ collateralAssetsOf' = [collateralAssetsOf EXCEPT ![borrower] = collateralLeft]
      /\ debtTokenOf' = Debit(debtTokenOf, liquidator, amount)
      /\ collateralTokenOf' = Credit(collateralTokenOf, liquidator, seized)
      /\ UNCHANGED <<totalSupplyShares, supplySharesOf, newRiskPaused, now>>
  BY DEF Liquidate
<1>2. /\ performing \in Nat /\ totalDebtShares \in Nat /\ totalDebtShares <= performing
      /\ performing + badDebtAssets = Accrue.gross /\ badDebtAssets \in Nat
  BY AccrueFacts DEF IInv, TypeOK
<1> HIDE DEF performing
<1>3. /\ burned \in Nat /\ burned # 0 /\ burned <= totalDebtShares /\ burned <= debtSharesOf[borrower]
      /\ reduced \in Nat /\ reduced <= amount /\ reduced <= performing
      /\ totalDebtShares - burned <= performing - reduced
      /\ burned = totalDebtShares => reduced = performing
  BY <1>1, <1>2, RepaymentFacts DEF IInv
<1>4. seized \in Nat /\ seized <= collateralAssetsOf[borrower]
  <2>1. price \in Nat \ {0}
    BY <1>1, RefreshedPrice
  <2> HIDE DEF price
  <2>2. MulDivCeil(amount, BPS + LiquidationBonusBps, BPS) \in Nat
    BY MulDivCeilBounds DEF BPS, LiquidationBonusBps
  <2>3. CollateralRequiredForValue(MulDivCeil(amount, BPS + LiquidationBonusBps, BPS), price) \in Nat
    BY <2>1, <2>2, ScaleAssumption, MulDivCeilBounds DEF CollateralRequiredForValue
  <2>4. collateralAssetsOf[borrower] \in Nat
    BY DEF IInv, TypeOK, Balances
  <2> QED BY <2>3, <2>4 DEF CollateralSeized, MinOf
<1> HIDE DEF burned, reduced, seized
<1>5. /\ sharesLeft \in Nat /\ totalLeft \in Nat /\ collateralLeft \in Nat
      /\ performing - reduced \in Nat /\ totalLeft <= performing - reduced
      /\ totalLeft = 0 => performing - reduced = 0
      /\ debtSharesOf[borrower] \in Nat
  BY <1>2, <1>3, <1>4 DEF IInv, TypeOK, Balances
<1>6. /\ recognized \in Nat /\ recognized <= performing - reduced
      /\ exhausted => /\ totalLeft - sharesLeft <= performing - reduced - recognized
                      /\ totalLeft = sharesLeft => recognized = performing - reduced
  <2>1. CASE exhausted
    <3>1. sharesLeft # 0 /\ sharesLeft <= totalLeft /\ totalLeft # 0
      BY <1>1, <1>5, <2>1
    <3> HIDE DEF sharesLeft, totalLeft
    <3>2. /\ quoteLeft \in Nat /\ quoteLeft <= performing - reduced
          /\ totalLeft - sharesLeft <= performing - reduced - quoteLeft
          /\ totalLeft = sharesLeft => quoteLeft = performing - reduced
      BY <1>5, <3>1, QuoteFacts, Zenon
    <3> QED BY <2>1, <3>2
  <2>2. CASE ~exhausted
    <3> HIDE DEF quoteLeft, exhausted, sharesLeft, totalLeft
    <3>1. recognized = 0
      BY <2>2
    <3>2. performing - reduced \in Nat
      BY <1>5
    <3> HIDE DEF recognized
    <3> QED BY <2>2, <3>1, <3>2
  <2> QED BY <2>1, <2>2
<1>v. /\ sharesLeft = debtSharesOf[borrower] - burned /\ totalLeft = totalDebtShares - burned
      /\ collateralLeft = collateralAssetsOf[borrower] - seized
      /\ exhausted <=> collateralLeft = 0 /\ sharesLeft # 0
      /\ ~exhausted => recognized = 0
  OBVIOUS
<1> HIDE DEF recognized, quoteLeft, exhausted, collateralLeft, sharesLeft, totalLeft, price
<1>w. /\ TypeOK /\ LedgersReconcile /\ NoUnsecuredPerformingDebt
      /\ debtSharesOf \in [Accounts -> Nat] /\ collateralAssetsOf \in [Accounts -> Nat]
      /\ badDebtAssetsOf \in [Accounts -> Nat] /\ cashAssets \in Nat
  BY DEF IInv, TypeOK, Balances
<1>7. /\ debtSharesOf' \in Balances /\ collateralAssetsOf' \in Balances
  BY <1>1, <1>5, <1>w DEF Balances
<1>8. badDebtAssetsOf' \in Balances /\ debtTokenOf' \in Balances /\ collateralTokenOf' \in Balances
  BY <1>1, <1>4, <1>6, Ledgers, BalanceTypes, Zenon
<1>9. totalDebtShares' \in Nat
  BY <1>1, <1>5, <1>6, <1>v
<1>10. /\ grossDebtAssets' \in Nat /\ reservesAssets' \in Nat /\ badDebtAssets' \in Nat
       /\ badDebtAssets' <= grossDebtAssets' /\ cashAssets' \in Nat
       /\ lastAccruedAt' \in Nat /\ lastAccruedAt' <= now'
  <2>1. cashAssets' \in Nat /\ lastAccruedAt' \in Nat /\ lastAccruedAt' <= now'
    BY <1>1, <1>w, AccrueFacts
  <2>2. reservesAssets' \in Nat
    <3>1. reservesAssets' = Accrue.reserves + (amount - reduced)
      BY <1>1
    <3>2. amount - reduced \in Nat
      BY <1>3
    <3>3. Accrue.reserves \in Nat
      BY AccrueFacts
    <3> QED BY <3>1, <3>2, <3>3
  <2>3. grossDebtAssets' = performing + badDebtAssets - reduced
    <3>1. grossDebtAssets' = Accrue.gross - reduced
      BY <1>1
    <3>2. performing + badDebtAssets = Accrue.gross
      BY <1>2
    <3>3. performing \in Nat /\ badDebtAssets \in Nat /\ reduced \in Nat
      BY <1>2, <1>3
    <3> QED BY <3>1, <3>2, <3>3
  <2>4. badDebtAssets' = badDebtAssets + recognized
    BY <1>1
  <2>5. grossDebtAssets' \in Nat /\ badDebtAssets' \in Nat /\ badDebtAssets' <= grossDebtAssets'
    <3>1. /\ performing \in Nat /\ badDebtAssets \in Nat /\ reduced \in Nat /\ reduced <= performing
          /\ recognized \in Nat /\ recognized <= performing - reduced
      BY <1>2, <1>3, <1>6
    <3> QED BY <2>3, <2>4, <3>1
  <2> QED BY <2>1, <2>2, <2>5
<1>11. TypeOK'
  <2>1. RefreshCurrentPrice(feed) /\ UNCHANGED <<totalSupplyShares, supplySharesOf, newRiskPaused, now>>
    BY <1>1
  <2> QED BY <1>w, <1>7, <1>8, <1>9, <1>10, <2>1, RefreshedPrice DEF TypeOK
<1>12. PerformingCoversShares'
  <2>1. grossDebtAssets' - badDebtAssets' = performing - reduced - recognized
    <3>1. grossDebtAssets' = Accrue.gross - reduced /\ badDebtAssets' = badDebtAssets + recognized
      BY <1>1
    <3> QED BY <1>2, <1>3, <1>6, <3>1
  <2>2. CASE exhausted
    <3>1. totalDebtShares' = totalLeft - sharesLeft
      BY <1>1, <2>2
    <3> QED BY <1>5, <1>6, <2>1, <2>2, <3>1 DEF PerformingCoversShares, PerformingDebt
  <2>3. CASE ~exhausted
    <3>1. totalDebtShares' = totalLeft /\ recognized = 0
      BY <1>1, <1>v, <2>3
    <3> QED BY <1>5, <2>1, <3>1 DEF PerformingCoversShares, PerformingDebt
  <2> QED BY <2>2, <2>3
<1>13. NoUnsecuredPerformingDebt'
  <2> SUFFICES ASSUME NEW a \in Accounts, debtSharesOf'[a] # 0
               PROVE  collateralAssetsOf'[a] # 0 /\ badDebtAssetsOf'[a] = 0
    BY DEF NoUnsecuredPerformingDebt
  <2>0. /\ debtSharesOf' = [debtSharesOf EXCEPT ![borrower] = IF exhausted THEN 0 ELSE sharesLeft]
        /\ badDebtAssetsOf' = Credit(badDebtAssetsOf, borrower, recognized)
        /\ collateralAssetsOf' = [collateralAssetsOf EXCEPT ![borrower] = collateralLeft]
    BY <1>1
  <2>1. CASE a # borrower
    BY <1>w, <2>0, <2>1 DEF NoUnsecuredPerformingDebt, Credit
  <2>2. CASE a = borrower
    <3>1. ~exhausted /\ sharesLeft # 0
      BY <1>w, <2>0, <2>2
    <3>2. collateralLeft # 0 /\ recognized = 0 /\ debtSharesOf[borrower] # 0
      BY <1>3, <1>5, <1>v, <3>1
    <3> QED BY <1>w, <2>0, <2>2, <3>2 DEF NoUnsecuredPerformingDebt, Credit
  <2> QED BY <2>1, <2>2
<1>14. LedgersReconcile'
  <2>1. /\ SumFunction(debtSharesOf') = SumFunction(debtSharesOf)
             + (IF exhausted THEN 0 ELSE sharesLeft) - debtSharesOf[borrower]
        /\ SumFunction(badDebtAssetsOf') = SumFunction(badDebtAssetsOf) + recognized
        /\ SumFunction(collateralAssetsOf') = SumFunction(collateralAssetsOf) + collateralLeft - collateralAssetsOf[borrower]
        /\ SumFunction(debtTokenOf') = SumFunction(debtTokenOf) - amount
        /\ SumFunction(collateralTokenOf') = SumFunction(collateralTokenOf) + seized
    <3>1. (IF exhausted THEN 0 ELSE sharesLeft) \in Nat /\ collateralLeft \in Nat
      BY <1>5
    <3>2. /\ debtSharesOf \in Balances /\ badDebtAssetsOf \in Balances /\ collateralAssetsOf \in Balances
          /\ debtTokenOf \in Balances /\ collateralTokenOf \in Balances
      BY Ledgers
    <3>3. amount <= debtTokenOf[liquidator]
      BY <1>1, <3>2 DEF Balances
    <3>4. SumFunction([debtSharesOf EXCEPT ![borrower] = IF exhausted THEN 0 ELSE sharesLeft])
            = SumFunction(debtSharesOf) + (IF exhausted THEN 0 ELSE sharesLeft) - debtSharesOf[borrower]
      BY <3>1, <3>2, ReplacedSum, Zenon
    <3>5. SumFunction([collateralAssetsOf EXCEPT ![borrower] = collateralLeft])
            = SumFunction(collateralAssetsOf) + collateralLeft - collateralAssetsOf[borrower]
      BY <3>1, <3>2, ReplacedSum, Zenon
    <3>6. SumFunction(Credit(badDebtAssetsOf, borrower, recognized)) = SumFunction(badDebtAssetsOf) + recognized
      BY <1>6, <3>2, CreditSum, Zenon
    <3>7. /\ SumFunction(Debit(debtTokenOf, liquidator, amount)) = SumFunction(debtTokenOf) - amount
          /\ SumFunction(Credit(collateralTokenOf, liquidator, seized)) = SumFunction(collateralTokenOf) + seized
      BY <1>4, <3>2, <3>3, CreditSum, DebitSum, Zenon
    <3> QED BY <1>1, <3>4, <3>5, <3>6, <3>7, Zenon
  <2>2. /\ SumFunction(debtSharesOf) \in Nat /\ SumFunction(badDebtAssetsOf) \in Nat
        /\ SumFunction(collateralAssetsOf) \in Nat /\ SumFunction(debtTokenOf) \in Nat
        /\ SumFunction(collateralTokenOf) \in Nat
    BY Ledgers
  <2>3. SumFunction(debtSharesOf') = totalDebtShares'
    <3>1. totalDebtShares = SumFunction(debtSharesOf)
      BY <1>w DEF LedgersReconcile
    <3>2. debtSharesOf[borrower] \in Nat /\ burned \in Nat
      BY <1>3, <1>5
    <3>3. totalDebtShares' = IF exhausted THEN totalLeft - sharesLeft ELSE totalLeft
      BY <1>1
    <3>4. CASE exhausted
      BY <1>v, <2>1, <2>2, <3>1, <3>2, <3>3, <3>4
    <3>5. CASE ~exhausted
      BY <1>v, <2>1, <2>2, <3>1, <3>2, <3>3, <3>5
    <3> QED BY <3>4, <3>5
  <2>4. SumFunction(collateralAssetsOf') = SumFunction(collateralAssetsOf) - seized
    <3>1. collateralAssetsOf[borrower] \in Nat /\ seized \in Nat
      BY <1>4, <1>w
    <3> QED BY <1>v, <2>1, <2>2, <3>1
  <2>5. /\ SumFunction(supplySharesOf') = totalSupplyShares'
        /\ SumFunction(badDebtAssetsOf') = badDebtAssets'
    BY <1>1, <1>w, <2>1 DEF LedgersReconcile
  <2>6. cashAssets' + SumFunction(debtTokenOf') = SumFunction(InitialDebtTokens)
    <3>1. cashAssets' = cashAssets + amount
      BY <1>1
    <3> QED BY <1>w, <2>1, <2>2, <3>1 DEF LedgersReconcile
  <2>7. SumFunction(collateralAssetsOf') + SumFunction(collateralTokenOf') = SumFunction(InitialCollateralTokens)
    BY <1>4, <1>w, <2>1, <2>2, <2>4 DEF LedgersReconcile
  <2> QED BY <2>3, <2>5, <2>6, <2>7 DEF LedgersReconcile
<1> QED BY <1>11, <1>12, <1>13, <1>14 DEF IInv

=============================================================================
