---------------------------- MODULE SecuredPool ----------------------------
(***************************************************************************)
(* The single-market secured lending pool of                               *)
(* contracts/src/m2/IpoOneSecuredPoolV1.sol, with the price adapter of     *)
(* contracts/src/m2/IpoOnePriceOracleAdapterV1.sol in front of its feed.   *)
(*                                                                         *)
(* An action is one successful external call: a transaction that reverts   *)
(* leaves the state unchanged and is a stuttering step.  The conditions    *)
(* under which a call reverts are its guards, the checked subtractions of  *)
(* Solidity included.  The contract is non-reentrant, so a call is one     *)
(* step.  The block timestamp is the variable now; what the feed answers   *)
(* to a call is an input of the call.                                      *)
(***************************************************************************)
EXTENDS SecuredPoolMath, FiniteSets, Functions

CONSTANTS
    Accounts,              \* the addresses that use the pool
    Amounts,               \* the amounts of the debt asset callers may pass
    CollateralAmounts,     \* the amounts of the collateral asset callers may pass
    Feeds,                 \* what the price feed may answer: its latestRoundData
    InitialObservation,    \* the observation the constructor accepted
    NormalizationFactor,   \* the adapter's 10 ** (18 - feedDecimals)
    MarketDebtCapAssets,
    BorrowerDebtCapAssets,
    LoanToValueBps,
    MaxOracleAge,          \* MAX_ORACLE_AGE_SECONDS
    MaxOracleFutureSkew,   \* MAX_ORACLE_FUTURE_SKEW_SECONDS
    MaxAccrualChunk,       \* MAX_ACCRUAL_CHUNK_SECONDS
    MaxAccrualChunks,      \* MAX_ACCRUAL_CHUNKS_PER_CALL
    InitialDebtTokens,     \* the accounts' debt-asset balances before the first call
    InitialCollateralTokens,
    MinCollateralOuts,     \* the least collateral a liquidator may ask for
    Deadlines,             \* the deadlines a liquidator may set
    StartTime,             \* the timestamp of the constructor's block
    TimeSteps,             \* by how much time passes between two blocks
    MaxTime                \* bound: no block is later than this

MaxOracleDeviationBps == 2000
LiquidationThresholdBps == 8000
CloseFactorBps == 5000
LiquidationBonusBps == 500

(***************************************************************************)
(* The constructor's configuration checks, and the types of the inputs.    *)
(***************************************************************************)
Observations == [price : Nat \ {0}, observedAt : Nat \ {0}, roundId : Nat \ {0}]

ASSUME ConfigurationAssumption ==
    /\ MarketDebtCapAssets \in Nat \ {0}
    /\ BorrowerDebtCapAssets \in Nat \ {0}
    /\ BorrowerDebtCapAssets <= MarketDebtCapAssets
    /\ LoanToValueBps \in Nat \ {0}
    /\ LoanToValueBps < LiquidationThresholdBps
    /\ MaxOracleAge \in Nat
    /\ MaxOracleFutureSkew \in Nat
    /\ MaxAccrualChunk \in Nat \ {0}
    /\ MaxAccrualChunks \in Nat \ {0}
    /\ NormalizationFactor \in Nat \ {0}

ASSUME InputAssumption ==
    /\ Amounts \subseteq Nat
    /\ CollateralAmounts \subseteq Nat
    /\ \A feed \in Feeds : /\ feed.roundId \in Nat /\ feed.answer \in Int
                           /\ feed.updatedAt \in Nat /\ feed.answeredInRound \in Nat
    /\ InitialObservation \in Observations
    /\ IsFiniteSet(Accounts)
    /\ InitialDebtTokens \in [Accounts -> Nat] /\ InitialCollateralTokens \in [Accounts -> Nat]
    /\ MinCollateralOuts \subseteq Nat
    /\ Deadlines \subseteq Nat
    /\ StartTime \in Nat
    /\ MaxTime \in Nat
    /\ \A step \in TimeSteps : step \in Nat \ {0}

VARIABLES
    cashAssets, grossDebtAssets, reservesAssets, badDebtAssets,
    totalSupplyShares, totalDebtShares, lastAccruedAt,
    supplySharesOf, collateralAssetsOf, debtSharesOf, badDebtAssetsOf,
    accepted,               \* acceptedPriceUsdWad, acceptedOracleObservedAt, acceptedOracleRoundId
    oracleDeviationHalted, newRiskPaused,
    debtTokenOf,            \* the accounts' balances of the debt asset (ERC-20)
    collateralTokenOf,      \* the accounts' balances of the collateral asset
    now                     \* block.timestamp

accounting == <<cashAssets, grossDebtAssets, reservesAssets, badDebtAssets,
                totalSupplyShares, totalDebtShares, lastAccruedAt>>
positions == <<supplySharesOf, collateralAssetsOf, debtSharesOf, badDebtAssetsOf>>
oracle == <<accepted, oracleDeviationHalted>>
tokens == <<debtTokenOf, collateralTokenOf>>
vars == <<accounting, positions, oracle, newRiskPaused, tokens, now>>

Init ==
    /\ cashAssets = 0 /\ grossDebtAssets = 0 /\ reservesAssets = 0 /\ badDebtAssets = 0
    /\ totalSupplyShares = 0 /\ totalDebtShares = 0
    /\ lastAccruedAt = StartTime /\ now = StartTime
    /\ supplySharesOf = [a \in Accounts |-> 0]
    /\ collateralAssetsOf = [a \in Accounts |-> 0]
    /\ debtSharesOf = [a \in Accounts |-> 0]
    /\ badDebtAssetsOf = [a \in Accounts |-> 0]
    /\ accepted = InitialObservation
    /\ oracleDeviationHalted = FALSE /\ newRiskPaused = FALSE
    /\ debtTokenOf = InitialDebtTokens
    /\ collateralTokenOf = InitialCollateralTokens
-----------------------------------------------------------------------------
(***************************************************************************)
(* Interest.  An accrual state is the part of the accounting that _accrue  *)
(* changes; AccrualChunk is one turn of its loop (none once it has caught  *)
(* up) and Accrue the whole of it.                                         *)
(***************************************************************************)
AccrualChunk(s) ==
    IF s.last >= now
    THEN s
    ELSE LET elapsed == MinOf(now - s.last, MaxAccrualChunk)
             performing == s.gross - badDebtAssets
             interest == InterestAssets(performing, BorrowAprBps(cashAssets, performing), elapsed)
         IN  [gross    |-> s.gross + interest,
              reserves |-> s.reserves + ReserveAssets(interest),
              last     |-> s.last + elapsed]

AccrualStart ==
    [gross |-> grossDebtAssets, reserves |-> reservesAssets, last |-> lastAccruedAt]

AccrualLoop ==
    LET loop[n \in 0 .. MaxAccrualChunks] ==
            IF n = 0 THEN AccrualStart ELSE AccrualChunk(loop[n - 1])
    IN  loop

Accrue ==
    IF grossDebtAssets - badDebtAssets = 0
    THEN [gross |-> grossDebtAssets, reserves |-> reservesAssets, last |-> now]
    ELSE AccrualLoop[MaxAccrualChunks]

CanAccrue == /\ now >= lastAccruedAt
             /\ grossDebtAssets >= badDebtAssets

\* _accrueToCurrent: the calls other than accrueInterest need the accrual to catch up.
AccruesToCurrent(acc) == CanAccrue /\ acc.last = now

\* Mutant: the claim counts the bad debt as the lenders'.
LpClaimWithBadDebt(acc) == cashAssets + acc.gross - acc.reserves

LpClaimAssets(acc) == cashAssets + acc.gross - acc.reserves - badDebtAssets

\* What shares out of total cost to repay; the last share takes what is left.
Quote(shares, total, performing) ==
    IF shares = 0 THEN 0
    ELSE IF shares = total THEN performing
    ELSE MulDivCeil(shares, performing, total)

\* mulDiv reverts on a zero denominator.
Quotable(account) == debtSharesOf[account] # 0 => totalDebtShares # 0

\* Mutant: the quote is taken before the accrual.
DebtQuoteStale(account, performing) ==
    Quote(debtSharesOf[account], totalDebtShares, grossDebtAssets - badDebtAssets)

DebtQuoteAssets(account, performing) ==
    Quote(debtSharesOf[account], totalDebtShares, performing)

BorrowCapacity(collateral, price) ==
    MulDiv(CollateralValueAssets(collateral, price), LoanToValueBps, BPS)
-----------------------------------------------------------------------------
(***************************************************************************)
(* The price.  LatestPrice is the adapter's view of the feed; the pool     *)
(* then checks it against the clock and against the accepted observation.  *)
(***************************************************************************)
FreshAt(observedAt) == /\ observedAt <= now + MaxOracleFutureSkew
                       /\ now - observedAt <= MaxOracleAge

LatestPrice(feed) ==
    [price      |-> IF feed.answer > 0 THEN feed.answer * NormalizationFactor ELSE 0,
     observedAt |-> feed.updatedAt,
     roundId    |-> feed.roundId]

FeedComplete(feed) ==
    /\ feed.answer > 0
    /\ feed.roundId > 0
    /\ feed.answeredInRound >= feed.roundId
    /\ feed.updatedAt > 0
    /\ FreshAt(feed.updatedAt)

ReadValidObservation(feed) ==
    /\ FeedComplete(feed)
    /\ LatestPrice(feed) \in Observations
    /\ FreshAt(LatestPrice(feed).observedAt)

InSequence(obs) ==
    /\ obs.observedAt >= accepted.observedAt
    /\ obs.roundId >= accepted.roundId
    /\ (obs.observedAt = accepted.observedAt \/ obs.roundId = accepted.roundId) => obs = accepted

DeviationExceeded(price) ==
    LET difference == IF price > accepted.price THEN price - accepted.price ELSE accepted.price - price
    IN  MulDivCeil(difference, BPS, accepted.price) > MaxOracleDeviationBps

\* Mutant: a call accepts a price while the oracle is halted.
RefreshDespiteHalt(feed) ==
    /\ ReadValidObservation(feed)
    /\ InSequence(LatestPrice(feed))
    /\ ~DeviationExceeded(LatestPrice(feed).price)
    /\ accepted' = LatestPrice(feed)
    /\ UNCHANGED oracleDeviationHalted

RefreshCurrentPrice(feed) ==
    /\ ~oracleDeviationHalted
    /\ ReadValidObservation(feed)
    /\ InSequence(LatestPrice(feed))
    /\ ~DeviationExceeded(LatestPrice(feed).price)
    /\ accepted' = LatestPrice(feed)
    /\ UNCHANGED oracleDeviationHalted
-----------------------------------------------------------------------------
(***************************************************************************)
(* The controls: pause, oracle synchronisation, oracle recovery, accrual.  *)
(***************************************************************************)
WhenNewRiskActive == ~newRiskPaused

PauseNewRisk ==
    /\ ~newRiskPaused
    /\ newRiskPaused' = TRUE
    /\ UNCHANGED <<accounting, positions, oracle, tokens, now>>

ResumeNewRisk ==
    /\ newRiskPaused
    /\ newRiskPaused' = FALSE
    /\ UNCHANGED <<accounting, positions, oracle, tokens, now>>

SyncOracle(feed) ==
    /\ ~oracleDeviationHalted
    /\ ReadValidObservation(feed)
    /\ InSequence(LatestPrice(feed))
    /\ IF DeviationExceeded(LatestPrice(feed).price)
       THEN oracleDeviationHalted' = TRUE /\ UNCHANGED accepted
       ELSE accepted' = LatestPrice(feed) /\ UNCHANGED oracleDeviationHalted
    /\ UNCHANGED <<accounting, positions, newRiskPaused, tokens, now>>

RecoverOracleDeviation(feed) ==
    /\ oracleDeviationHalted
    /\ ReadValidObservation(feed)
    /\ InSequence(LatestPrice(feed))
    /\ accepted' = LatestPrice(feed)
    /\ oracleDeviationHalted' = FALSE
    /\ UNCHANGED <<accounting, positions, newRiskPaused, tokens, now>>

\* What a call that accrues, and changes neither debt nor reserves beyond that, does to them.
Accrued(acc) ==
    /\ grossDebtAssets' = acc.gross
    /\ reservesAssets' = acc.reserves
    /\ lastAccruedAt' = acc.last
    /\ UNCHANGED <<badDebtAssets, totalDebtShares>>

\* Takes at most MaxAccrualChunks chunks, and may leave the accrual behind.
AccrueInterest ==
    /\ CanAccrue
    /\ Accrued(Accrue)
    /\ UNCHANGED <<cashAssets, totalSupplyShares, positions, oracle, newRiskPaused, tokens, now>>
-----------------------------------------------------------------------------
(***************************************************************************)
(* Lenders.                                                                *)
(***************************************************************************)
\* Mutant: an assignment where the code adds.
CreditOverwrites(balances, account, amount) == [balances EXCEPT ![account] = amount]

Credit(balances, account, amount) == [balances EXCEPT ![account] = @ + amount]
Debit(balances, account, amount) == [balances EXCEPT ![account] = @ - amount]

Supply(account, amount) ==
    LET acc == Accrue
        claimBefore == LpClaimAssets(acc)
        sharesMinted == IF totalSupplyShares = 0
                        THEN amount
                        ELSE MulDiv(amount, totalSupplyShares, claimBefore)
    IN  /\ amount # 0
        /\ AccruesToCurrent(acc)
        /\ claimBefore >= 0
        /\ totalSupplyShares # 0 => claimBefore # 0
        /\ sharesMinted # 0
        /\ debtTokenOf[account] >= amount
        /\ Accrued(acc)
        /\ cashAssets' = cashAssets + amount
        /\ totalSupplyShares' = totalSupplyShares + sharesMinted
        /\ supplySharesOf' = Credit(supplySharesOf, account, sharesMinted)
        /\ debtTokenOf' = Debit(debtTokenOf, account, amount)
        /\ UNCHANGED <<collateralAssetsOf, debtSharesOf, badDebtAssetsOf, oracle,
                       newRiskPaused, collateralTokenOf, now>>

\* The common end of withdraw and redeemAll.
PayLender(account, amount, sharesBurned, acc) ==
    /\ Accrued(acc)
    /\ cashAssets' = cashAssets - amount
    /\ totalSupplyShares' = totalSupplyShares - sharesBurned
    /\ supplySharesOf' = Debit(supplySharesOf, account, sharesBurned)
    /\ debtTokenOf' = Credit(debtTokenOf, account, amount)
    /\ UNCHANGED <<collateralAssetsOf, debtSharesOf, badDebtAssetsOf, oracle,
                   newRiskPaused, collateralTokenOf, now>>

Withdraw(account, amount) ==
    LET acc == Accrue
        claim == LpClaimAssets(acc)
        sharesBurned == MulDivCeil(amount, totalSupplyShares, claim)
    IN  /\ WhenNewRiskActive
        /\ amount # 0
        /\ AccruesToCurrent(acc)
        /\ amount <= cashAssets
        /\ totalSupplyShares # 0
        /\ claim > 0
        /\ sharesBurned # 0
        /\ sharesBurned <= supplySharesOf[account]
        /\ sharesBurned <= totalSupplyShares
        /\ PayLender(account, amount, sharesBurned, acc)

RedeemAll(account) ==
    LET acc == Accrue
        claim == LpClaimAssets(acc)
        sharesBurned == supplySharesOf[account]
        amount == IF sharesBurned = totalSupplyShares
                  THEN claim
                  ELSE MulDiv(sharesBurned, claim, totalSupplyShares)
    IN  /\ WhenNewRiskActive
        /\ AccruesToCurrent(acc)
        /\ sharesBurned # 0
        /\ claim >= 0
        /\ sharesBurned <= totalSupplyShares
        /\ amount # 0
        /\ amount <= cashAssets
        /\ PayLender(account, amount, sharesBurned, acc)
-----------------------------------------------------------------------------
(***************************************************************************)
(* Borrowers.                                                              *)
(***************************************************************************)
AddCollateral(account, amount) ==
    LET acc == Accrue
    IN  /\ amount # 0
        /\ AccruesToCurrent(acc)
        /\ collateralTokenOf[account] >= amount
        /\ Accrued(acc)
        /\ collateralAssetsOf' = Credit(collateralAssetsOf, account, amount)
        /\ collateralTokenOf' = Debit(collateralTokenOf, account, amount)
        /\ UNCHANGED <<cashAssets, totalSupplyShares, supplySharesOf, debtSharesOf,
                       badDebtAssetsOf, oracle, newRiskPaused, debtTokenOf, now>>

\* Mutant: the capacity is that of the collateral before the release.
ReleaseBeforeCheck(account, amount, feed) ==
    LET acc == Accrue
        debt == DebtQuoteAssets(account, acc.gross - badDebtAssets)
    IN  /\ WhenNewRiskActive
        /\ amount # 0
        /\ amount <= collateralAssetsOf[account]
        /\ AccruesToCurrent(acc)
        /\ RefreshCurrentPrice(feed)
        /\ debt <= BorrowCapacity(collateralAssetsOf[account], LatestPrice(feed).price)
        /\ Accrued(acc)
        /\ collateralAssetsOf' = Debit(collateralAssetsOf, account, amount)
        /\ collateralTokenOf' = Credit(collateralTokenOf, account, amount)
        /\ UNCHANGED <<cashAssets, totalSupplyShares, supplySharesOf, debtSharesOf,
                       badDebtAssetsOf, newRiskPaused, debtTokenOf, now>>

ReleaseCollateral(account, amount, feed) ==
    LET acc == Accrue
        remaining == collateralAssetsOf[account] - amount
        debt == DebtQuoteAssets(account, acc.gross - badDebtAssets)
    IN  /\ WhenNewRiskActive
        /\ amount # 0
        /\ amount <= collateralAssetsOf[account]
        /\ AccruesToCurrent(acc)
        /\ RefreshCurrentPrice(feed)
        /\ Quotable(account)
        /\ debt + badDebtAssetsOf[account] <= BorrowCapacity(remaining, LatestPrice(feed).price)
        /\ Accrued(acc)
        /\ collateralAssetsOf' = [collateralAssetsOf EXCEPT ![account] = remaining]
        /\ collateralTokenOf' = Credit(collateralTokenOf, account, amount)
        /\ UNCHANGED <<cashAssets, totalSupplyShares, supplySharesOf, debtSharesOf,
                       badDebtAssetsOf, newRiskPaused, debtTokenOf, now>>

Borrow(account, amount, feed) ==
    LET acc == Accrue
        performing == acc.gross - badDebtAssets
        debtBefore == DebtQuoteAssets(account, performing)
        debtSharesMinted == IF totalDebtShares = 0
                            THEN amount
                            ELSE MulDivCeil(amount, totalDebtShares, performing)
    IN  /\ WhenNewRiskActive
        /\ amount # 0
        /\ AccruesToCurrent(acc)
        /\ badDebtAssetsOf[account] = 0
        /\ amount <= cashAssets
        /\ RefreshCurrentPrice(feed)
        /\ Quotable(account)
        /\ acc.gross + amount <= MarketDebtCapAssets
        /\ debtBefore + amount <= BorrowerDebtCapAssets
        /\ debtBefore + amount <= BorrowCapacity(collateralAssetsOf[account], LatestPrice(feed).price)
        /\ totalDebtShares # 0 => performing # 0
        /\ grossDebtAssets' = acc.gross + amount
        /\ reservesAssets' = acc.reserves
        /\ lastAccruedAt' = acc.last
        /\ cashAssets' = cashAssets - amount
        /\ totalDebtShares' = totalDebtShares + debtSharesMinted
        /\ debtSharesOf' = Credit(debtSharesOf, account, debtSharesMinted)
        /\ debtTokenOf' = Credit(debtTokenOf, account, amount)
        /\ UNCHANGED <<badDebtAssets, totalSupplyShares, supplySharesOf, collateralAssetsOf,
                       badDebtAssetsOf, newRiskPaused, collateralTokenOf, now>>

\* _applyPerformingRepayment's split of a repayment: the shares it burns, the debt it reduces.
\* What it pays beyond the debt it reduces is dust, and goes to the reserves.
Repayment(account, amount, performing) ==
    IF amount = DebtQuoteAssets(account, performing)
    THEN [sharesBurned |-> debtSharesOf[account], reduced |-> amount]
    ELSE LET burned == MulDiv(amount, totalDebtShares, performing)
         IN  [sharesBurned |-> burned, reduced |-> MulDivCeil(burned, performing, totalDebtShares)]

RepaymentAccepted(account, amount, performing, acc) ==
    LET repayment == Repayment(account, amount, performing)
    IN  /\ Quotable(account)
        /\ DebtQuoteAssets(account, performing) # 0
        /\ amount <= DebtQuoteAssets(account, performing)
        /\ repayment.sharesBurned # 0
        /\ repayment.reduced <= amount
        /\ repayment.reduced <= acc.gross
        /\ repayment.sharesBurned <= totalDebtShares
        /\ repayment.sharesBurned <= debtSharesOf[account]

\* Mutant: repayment is refused while new risk is paused.
CanRepayWhenActive(account, amount, acc) ==
    /\ WhenNewRiskActive
    /\ amount # 0
    /\ AccruesToCurrent(acc)
    /\ badDebtAssetsOf[account] = 0
    /\ debtTokenOf[account] >= amount
    /\ RepaymentAccepted(account, amount, acc.gross - badDebtAssets, acc)

\* The conditions under which repay takes its performing branch and does not revert.
CanRepayPerforming(account, amount, acc) ==
    /\ amount # 0
    /\ AccruesToCurrent(acc)
    /\ badDebtAssetsOf[account] = 0
    /\ debtTokenOf[account] >= amount
    /\ RepaymentAccepted(account, amount, acc.gross - badDebtAssets, acc)

RepayPerforming(account, amount) ==
    LET acc == Accrue
        repayment == Repayment(account, amount, acc.gross - badDebtAssets)
    IN  /\ CanRepayPerforming(account, amount, acc)
        /\ cashAssets' = cashAssets + amount
        /\ grossDebtAssets' = acc.gross - repayment.reduced
        /\ reservesAssets' = acc.reserves + (amount - repayment.reduced)
        /\ lastAccruedAt' = acc.last
        /\ totalDebtShares' = totalDebtShares - repayment.sharesBurned
        /\ debtSharesOf' = Debit(debtSharesOf, account, repayment.sharesBurned)
        /\ debtTokenOf' = Debit(debtTokenOf, account, amount)
        /\ UNCHANGED <<badDebtAssets, totalSupplyShares, supplySharesOf, collateralAssetsOf,
                       badDebtAssetsOf, oracle, newRiskPaused, collateralTokenOf, now>>

\* The branch of repay for an account whose debt was recognized as bad.
CanRecoverBadDebt(account, amount, acc) ==
    /\ amount # 0
    /\ AccruesToCurrent(acc)
    /\ badDebtAssetsOf[account] # 0
    /\ debtSharesOf[account] = 0
    /\ amount <= badDebtAssetsOf[account]
    /\ debtTokenOf[account] >= amount
    /\ amount <= acc.gross
    /\ amount <= badDebtAssets

RecoverBadDebt(account, amount) ==
    LET acc == Accrue
    IN  /\ CanRecoverBadDebt(account, amount, acc)
        /\ cashAssets' = cashAssets + amount
        /\ grossDebtAssets' = acc.gross - amount
        /\ reservesAssets' = acc.reserves
        /\ lastAccruedAt' = acc.last
        /\ badDebtAssets' = badDebtAssets - amount
        /\ badDebtAssetsOf' = Debit(badDebtAssetsOf, account, amount)
        /\ debtTokenOf' = Debit(debtTokenOf, account, amount)
        /\ UNCHANGED <<totalSupplyShares, totalDebtShares, supplySharesOf, collateralAssetsOf,
                       debtSharesOf, oracle, newRiskPaused, collateralTokenOf, now>>

Repay(account, amount) == RepayPerforming(account, amount) \/ RecoverBadDebt(account, amount)
-----------------------------------------------------------------------------
(***************************************************************************)
(* Liquidation.  Anyone but the borrower repays part of an unhealthy       *)
(* position for collateral worth 5% more.  When that exhausts the          *)
(* collateral the debt left is recognized as bad in the same transaction.  *)
(***************************************************************************)
LiquidationThreshold(borrower, price) ==
    MulDiv(CollateralValueAssets(collateralAssetsOf[borrower], price), LiquidationThresholdBps, BPS)

\* The most a liquidator may repay: at most half of the debt, at most what the collateral covers.
RepaymentLimit(borrower, debt, price) ==
    LET collateralValue == CollateralValueAssets(collateralAssetsOf[borrower], price)
        closeLimit == MulDiv(debt, CloseFactorBps, BPS)
        coverageLimit == MulDivCeil(collateralValue, BPS, BPS + LiquidationBonusBps)
    IN  MinOf(debt, MinOf(closeLimit, coverageLimit))

CollateralSeized(borrower, amount, price) ==
    LET seizeValue == MulDivCeil(amount, BPS + LiquidationBonusBps, BPS)
    IN  MinOf(collateralAssetsOf[borrower], CollateralRequiredForValue(seizeValue, price))

\* The part of _quoteLiquidation that may refuse the liquidation.
LiquidationAccepted(borrower, amount, performing, price) ==
    LET debt == DebtQuoteAssets(borrower, performing)
    IN  /\ Quotable(borrower)
        /\ debt # 0
        /\ debt > LiquidationThreshold(borrower, price)
        /\ amount <= RepaymentLimit(borrower, debt, price)
        /\ CollateralSeized(borrower, amount, price) # 0

Liquidate(liquidator, borrower, amount, minCollateralOut, deadline, feed) ==
    LET acc == Accrue
        performing == acc.gross - badDebtAssets
        price == LatestPrice(feed).price
        seized == CollateralSeized(borrower, amount, price)
        repayment == Repayment(borrower, amount, performing)
        collateralLeft == collateralAssetsOf[borrower] - seized
        sharesLeft == debtSharesOf[borrower] - repayment.sharesBurned
        totalLeft == totalDebtShares - repayment.sharesBurned
        quoteLeft == Quote(sharesLeft, totalLeft, performing - repayment.reduced)
        exhausted == collateralLeft = 0 /\ sharesLeft # 0
        recognized == IF exhausted THEN quoteLeft ELSE 0
    IN  /\ borrower # liquidator
        /\ amount # 0
        /\ now <= deadline
        /\ AccruesToCurrent(acc)
        /\ RefreshCurrentPrice(feed)
        /\ LiquidationAccepted(borrower, amount, performing, price)
        /\ seized >= minCollateralOut
        /\ debtTokenOf[liquidator] >= amount
        /\ RepaymentAccepted(borrower, amount, performing, acc)
        /\ exhausted => sharesLeft <= totalLeft /\ quoteLeft # 0
        /\ cashAssets' = cashAssets + amount
        /\ grossDebtAssets' = acc.gross - repayment.reduced
        /\ reservesAssets' = acc.reserves + (amount - repayment.reduced)
        /\ lastAccruedAt' = acc.last
        /\ badDebtAssets' = badDebtAssets + recognized
        /\ totalDebtShares' = IF exhausted THEN totalLeft - sharesLeft ELSE totalLeft
        /\ debtSharesOf' = [debtSharesOf EXCEPT ![borrower] = IF exhausted THEN 0 ELSE sharesLeft]
        /\ badDebtAssetsOf' = Credit(badDebtAssetsOf, borrower, recognized)
        /\ collateralAssetsOf' = [collateralAssetsOf EXCEPT ![borrower] = collateralLeft]
        /\ debtTokenOf' = Debit(debtTokenOf, liquidator, amount)
        /\ collateralTokenOf' = Credit(collateralTokenOf, liquidator, seized)
        /\ UNCHANGED <<totalSupplyShares, supplySharesOf, newRiskPaused, now>>

\* A later block.
Tick(step) ==
    /\ now + step <= MaxTime
    /\ now' = now + step
    /\ UNCHANGED <<accounting, positions, oracle, newRiskPaused, tokens>>

(***************************************************************************)
(* Callers also pass the exact amounts the contract quotes: the debt that  *)
(* is left, and the most that a liquidation may repay.                     *)
(***************************************************************************)
CurrentDebt(account) == DebtQuoteAssets(account, Accrue.gross - badDebtAssets)

RepayAmounts(account) == Amounts \cup {CurrentDebt(account), badDebtAssetsOf[account]}

LiquidationAmounts(borrower, feed) ==
    Amounts \cup {RepaymentLimit(borrower, CurrentDebt(borrower), LatestPrice(feed).price)}

Next ==
    \/ PauseNewRisk
    \/ ResumeNewRisk
    \/ \E feed \in Feeds : SyncOracle(feed)
    \/ \E feed \in Feeds : RecoverOracleDeviation(feed)
    \/ AccrueInterest
    \/ \E account \in Accounts, amount \in Amounts : Supply(account, amount)
    \/ \E account \in Accounts, amount \in Amounts : Withdraw(account, amount)
    \/ \E account \in Accounts : RedeemAll(account)
    \/ \E account \in Accounts, amount \in CollateralAmounts : AddCollateral(account, amount)
    \/ \E account \in Accounts, amount \in CollateralAmounts, feed \in Feeds :
            ReleaseCollateral(account, amount, feed)
    \/ \E account \in Accounts, amount \in Amounts, feed \in Feeds :
            Borrow(account, amount, feed)
    \/ \E account \in Accounts : \E amount \in RepayAmounts(account) : Repay(account, amount)
    \/ \E liquidator \in Accounts, borrower \in Accounts, feed \in Feeds :
            \E amount \in LiquidationAmounts(borrower, feed),
               minCollateralOut \in MinCollateralOuts, deadline \in Deadlines :
                Liquidate(liquidator, borrower, amount, minCollateralOut, deadline, feed)
    \/ \E step \in TimeSteps : Tick(step)

Spec == Init /\ [][Next]_vars
-----------------------------------------------------------------------------
(***************************************************************************)
(* Properties.                                                             *)
(***************************************************************************)
Balances == [Accounts -> Nat]

\* Every quantity the contract keeps in an unsigned integer is one, and debt covers bad debt.
TypeOK ==
    /\ cashAssets \in Nat /\ grossDebtAssets \in Nat /\ reservesAssets \in Nat
    /\ badDebtAssets \in Nat /\ badDebtAssets <= grossDebtAssets
    /\ totalSupplyShares \in Nat /\ totalDebtShares \in Nat
    /\ lastAccruedAt \in Nat /\ now \in Nat /\ lastAccruedAt <= now
    /\ supplySharesOf \in Balances /\ collateralAssetsOf \in Balances
    /\ debtSharesOf \in Balances /\ badDebtAssetsOf \in Balances
    /\ accepted \in Observations
    /\ oracleDeviationHalted \in BOOLEAN /\ newRiskPaused \in BOOLEAN
    /\ debtTokenOf \in Balances /\ collateralTokenOf \in Balances

PerformingDebt == grossDebtAssets - badDebtAssets

(***************************************************************************)
(* A debt share never costs less than one unit: rounding in borrow, repay, *)
(* liquidate and bad-debt recognition never lets the shares outgrow the    *)
(* performing debt, so debt is zero exactly when no shares are left.       *)
(***************************************************************************)
PerformingCoversShares ==
    /\ totalDebtShares <= PerformingDebt
    /\ totalDebtShares = 0 => PerformingDebt = 0

(***************************************************************************)
(* The per-account ledgers add up to the totals the contract keeps beside  *)
(* them, and no token is created or lost: what the accounts do not hold is *)
(* the pool's cash and the deposited collateral.                           *)
(***************************************************************************)
LedgersReconcile ==
    /\ SumFunction(supplySharesOf) = totalSupplyShares
    /\ SumFunction(debtSharesOf) = totalDebtShares
    /\ SumFunction(badDebtAssetsOf) = badDebtAssets
    /\ cashAssets + SumFunction(debtTokenOf) = SumFunction(InitialDebtTokens)
    /\ SumFunction(collateralAssetsOf) + SumFunction(collateralTokenOf)
          = SumFunction(InitialCollateralTokens)

(***************************************************************************)
(* No account owes performing debt without collateral behind it, or beside *)
(* recognized bad debt: releaseCollateral and liquidate never leave a      *)
(* position that no liquidation can reach, and repay's refusal of an       *)
(* account with both kinds of debt never happens.                          *)
(***************************************************************************)
NoUnsecuredPerformingDebt ==
    \A a \in Accounts : debtSharesOf[a] # 0 => collateralAssetsOf[a] # 0 /\ badDebtAssetsOf[a] = 0

LpClaim == cashAssets + grossDebtAssets - reservesAssets - badDebtAssets

Recognized == IF badDebtAssets' > badDebtAssets THEN badDebtAssets' - badDebtAssets ELSE 0

ShareValueKept ==
    totalSupplyShares > 0 =>
        (LpClaim' + Recognized) * totalSupplyShares >= LpClaim * totalSupplyShares'

(***************************************************************************)
(* Lenders lose value only when bad debt is recognized, and no more than   *)
(* what is recognized: accrual, the rounding of every mint and burn, and   *)
(* the dust moved to the reserves never lower the value of a supply share. *)
(***************************************************************************)
LossOnlyByRecognition == [][ShareValueKept]_vars

NoOutflow ==
    /\ cashAssets' >= cashAssets
    /\ \A a \in Accounts :
          /\ debtSharesOf'[a] <= debtSharesOf[a]
          /\ collateralAssetsOf'[a] < collateralAssetsOf[a] => debtSharesOf'[a] < debtSharesOf[a]

(***************************************************************************)
(* While new risk is paused no cash leaves the pool, no debt share is      *)
(* minted, and collateral leaves only by a liquidation, which lowers the   *)
(* owner's debt.                                                           *)
(***************************************************************************)
PauseStopsOutflow == [][newRiskPaused => NoOutflow]_vars

PriceInOrder ==
    /\ accepted'.observedAt >= accepted.observedAt
    /\ accepted'.roundId >= accepted.roundId
    /\ DeviationExceeded(accepted'.price) => oracleDeviationHalted

TakesRisk ==
    \E a \in Accounts : \/ collateralAssetsOf'[a] < collateralAssetsOf[a]
                        \/ debtSharesOf'[a] > debtSharesOf[a]

PricedNow == ~oracleDeviationHalted /\ FreshAt(accepted'.observedAt)

(***************************************************************************)
(* Debt grows and collateral leaves only on a fresh price, never while the *)
(* oracle is halted; the accepted observation never goes back in time or   *)
(* in rounds; a move of more than 20% is only ever accepted by recovery    *)
(* from a halt.                                                            *)
(***************************************************************************)
PriceDiscipline == [][PriceInOrder /\ (TakesRisk => PricedNow)]_vars

DebtAfter(account) == Quote(debtSharesOf'[account], totalDebtShares', PerformingDebt')

CapacityAfter(account) == BorrowCapacity(collateralAssetsOf'[account], accepted'.price)

\* What one share costs after the step.
ShareCost == MulDivCeil(1, PerformingDebt', totalDebtShares')

WithinCapacity(account) ==
    /\ debtSharesOf'[account] > debtSharesOf[account] =>
          /\ DebtAfter(account) <= CapacityAfter(account) + ShareCost
          /\ DebtAfter(account) <= BorrowerDebtCapAssets + ShareCost
    /\ (collateralAssetsOf'[account] < collateralAssetsOf[account] /\ debtSharesOf'[account] = debtSharesOf[account]) =>
          DebtAfter(account) + badDebtAssetsOf'[account] <= CapacityAfter(account)

(***************************************************************************)
(* Borrowing and releasing collateral leave the account within its         *)
(* capacity at the price just accepted, and borrowing within the           *)
(* borrower's cap.  Both compare the debt before the mint plus the amount; *)
(* rounding the minted shares up can add what one share costs on top.      *)
(***************************************************************************)
CapacityHonored == [][\A a \in Accounts : WithinCapacity(a)]_vars

(***************************************************************************)
(* A debtor can always repay: once the accrual can catch up, a repayment   *)
(* of any amount that buys at least one share, and of exactly what is      *)
(* owed, is accepted whatever the pause, the oracle and the rounding of    *)
(* earlier calls did; no checked subtraction stands in the way.            *)
(***************************************************************************)
RepaymentAlwaysOpen ==
    LET acc == Accrue
        performing == acc.gross - badDebtAssets
    IN  AccruesToCurrent(acc) =>
            \A a \in Accounts :
                LET debt == DebtQuoteAssets(a, performing)
                IN  /\ \A amount \in 1 .. MinOf(debt, debtTokenOf[a]) :
                          amount = debt \/ amount * totalDebtShares >= performing
                              => CanRepayPerforming(a, amount, acc)
                    /\ \A amount \in 1 .. MinOf(badDebtAssetsOf[a], debtTokenOf[a]) :
                          CanRecoverBadDebt(a, amount, acc)

(***************************************************************************)
(* ADR-M2-005 defines lpClaimAssets as max(0, C + D - R - B): a value in   *)
(* every state.  The contract's checked subtraction has one only here.     *)
(***************************************************************************)
LpClaimHasValue == LpClaim >= 0

(***************************************************************************)
(* ADR-M2-005 says rounding up the collateral-coverage limit keeps         *)
(* zero-value collateral dust from blocking the recognition of bad debt:   *)
(* a position whose collateral is worth nothing can be liquidated.         *)
(***************************************************************************)
DustDoesNotBlockRecognition ==
    \A a \in Accounts :
        /\ AccruesToCurrent(Accrue)
        /\ debtSharesOf[a] # 0
        /\ CollateralValueAssets(collateralAssetsOf[a], accepted.price) = 0
        => \E amount \in 1 .. CurrentDebt(a) :
               LiquidationAccepted(a, amount, Accrue.gross - badDebtAssets, accepted.price)
=============================================================================
