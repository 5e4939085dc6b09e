-------------------------- MODULE SecuredPoolFacts --------------------------
(***************************************************************************)
(* What the accrual, the quotes and the repayments of the pool compute, from *)
(* the invariant alone.                                                    *)
(***************************************************************************)
EXTENDS SecuredPool, SecuredPoolMathProofs

(***************************************************************************)
(* The inductive invariant.  The share accounting needs the typing (debt   *)
(* covers bad debt, the clock is not behind the accrual); that collateral  *)
(* backs performing debt needs the share accounting, because a share that  *)
(* cost nothing would let releaseCollateral return the last of it; that    *)
(* no checked subtraction refuses a repayment needs the ledgers to add up  *)
(* to the totals.                                                          *)
(***************************************************************************)
IInv == /\ TypeOK
        /\ PerformingCoversShares
        /\ NoUnsecuredPerformingDebt
        /\ LedgersReconcile

AccrualStates == [gross : Nat, reserves : Nat, last : Nat]

\* What the accrual loop can reach: debt and reserves only grow, the reserves by no more than the debt.
Reached ==
    {s \in AccrualStates :
        /\ s.gross >= grossDebtAssets
        /\ s.reserves >= reservesAssets
        /\ s.gross - s.reserves >= grossDebtAssets - reservesAssets
        /\ s.last >= lastAccruedAt
        /\ s.last <= now}

\* One chunk of the accrual loop stays within what accrual can reach.
LEMMA ChunkStaysReached ==
    ASSUME TypeOK, NEW s \in Reached
    PROVE  AccrualChunk(s) \in Reached
<1>1. /\ s \in AccrualStates /\ s.gross \in Nat /\ s.reserves \in Nat /\ s.last \in Nat
      /\ s.gross >= grossDebtAssets /\ s.last <= now /\ s.last >= lastAccruedAt
      /\ s.reserves >= reservesAssets
      /\ s.gross - s.reserves >= grossDebtAssets - reservesAssets
  BY DEF Reached, AccrualStates
<1>2. CASE s.last >= now
  BY <1>2 DEF AccrualChunk
<1>3. CASE ~(s.last >= now)
  <2> DEFINE elapsed == MinOf(now - s.last, MaxAccrualChunk)
             performing == s.gross - badDebtAssets
             apr == BorrowAprBps(cashAssets, performing)
             interest == InterestAssets(performing, apr, elapsed)
             reserve == ReserveAssets(interest)
  <2>1. elapsed \in Nat /\ s.last + elapsed <= now
    BY <1>1, <1>3, ConfigurationAssumption DEF TypeOK, MinOf
  <2>2. performing \in Nat
    BY <1>1 DEF TypeOK
  <2>3. apr \in Nat
    BY <2>2, BorrowAprNat DEF TypeOK
  <2>4. interest \in Nat /\ reserve \in Nat /\ reserve <= interest
    BY <2>1, <2>2, <2>3, InterestSplit, Zenon
  <2>5. AccrualChunk(s) = [gross |-> s.gross + interest, reserves |-> s.reserves + reserve,
                           last |-> s.last + elapsed]
    BY <1>3 DEF AccrualChunk
  <2> HIDE DEF elapsed, interest, reserve
  <2> QED BY <1>1, <2>1, <2>4, <2>5 DEF Reached, AccrualStates, TypeOK
<1> QED BY <1>2, <1>3

\* The loop of _accrue is defined and ends in a state it can reach.
LEMMA LoopReached ==
    ASSUME TypeOK
    PROVE  AccrualLoop[MaxAccrualChunks] \in Reached
<1> DEFINE N == MaxAccrualChunks
           G == [s \in Reached |-> AccrualChunk(s)]
           Is(f) == f = [n \in 0 .. N |-> IF n = 0 THEN AccrualStart ELSE AccrualChunk(f[n - 1])]
<1>1. AccrualStart \in Reached
  BY DEF AccrualStart, Reached, AccrualStates, TypeOK
<1>2. G \in [Reached -> Reached]
  BY ChunkStaysReached
<1>3. N \in Nat
  BY ConfigurationAssumption
<1>4. PICK g \in [0 .. N -> Reached] : IsLoop(g, G, AccrualStart, N)
  <2> HIDE DEF G
  <2> QED BY <1>1, <1>2, <1>3, LoopExists
<1>5. \A n \in 0 .. N : g[n] = IF n = 0 THEN AccrualStart ELSE AccrualChunk(g[n - 1])
  <2>1. \A n \in 0 .. N : g[n] = IF n = 0 THEN AccrualStart ELSE G[g[n - 1]]
    BY <1>4 DEF IsLoop
  <2>2. \A n \in 0 .. N : n # 0 => n - 1 \in 0 .. N
    BY <1>3
  <2> QED BY <1>4, <2>1, <2>2
<1>6. Is(g)
  BY <1>4, <1>5, Zenon
<1>7. AccrualLoop = CHOOSE f : Is(f)
  BY Zenon DEF AccrualLoop
<1>8. Is(AccrualLoop)
  <2> HIDE DEF Is
  <2> QED BY <1>6, <1>7, Zenon
<1> DEFINE f == AccrualLoop
           S == {n \in Nat : n <= N => f[n] \in Reached}
<1>9. \A n \in 0 .. N : f[n] = IF n = 0 THEN AccrualStart ELSE AccrualChunk(f[n - 1])
  BY <1>8, Zenon
<1> HIDE DEF f, Is
<1>10. 0 \in S
  BY <1>1, <1>3, <1>9
<1>11. ASSUME NEW n \in Nat, n \in S PROVE n + 1 \in S
  <2> SUFFICES ASSUME n + 1 <= N PROVE f[n + 1] \in Reached
    OBVIOUS
  <2>1. f[n + 1] = AccrualChunk(f[n])
    BY <1>3, <1>9
  <2> QED BY <1>3, <1>11, <2>1, ChunkStaysReached
<1>12. Nat \subseteq S
  <2> HIDE DEF S
  <2> QED BY <1>10, <1>11, SetInduction
<1>13. N \in S
  BY <1>3, <1>12
<1> QED BY <1>3, <1>13 DEF f

\* What every call may rely on after accruing.
LEMMA AccrueReached ==
    ASSUME TypeOK
    PROVE  /\ Accrue \in Reached
           /\ grossDebtAssets = badDebtAssets => Accrue.gross = grossDebtAssets
<1>1. CASE grossDebtAssets - badDebtAssets = 0
  BY <1>1 DEF Accrue, AccrualStart, Reached, AccrualStates, TypeOK
<1>2. CASE grossDebtAssets - badDebtAssets # 0
  BY <1>2, LoopReached DEF Accrue, TypeOK
<1> QED BY <1>1, <1>2

\* _accrue: debt and reserves only grow, reserves by no more than debt, and shares stay covered.
LEMMA AccrueFacts ==
    ASSUME IInv
    PROVE  /\ Accrue.gross \in Nat /\ Accrue.reserves \in Nat /\ Accrue.last \in Nat
           /\ Accrue.last <= now
           /\ Accrue.gross >= grossDebtAssets
           /\ Accrue.reserves >= reservesAssets
           /\ Accrue.gross - Accrue.reserves >= grossDebtAssets - reservesAssets
           /\ Accrue.gross - badDebtAssets \in Nat
           /\ totalDebtShares <= Accrue.gross - badDebtAssets
           /\ totalDebtShares = 0 => Accrue.gross = badDebtAssets
<1>1. Accrue \in Reached /\ (grossDebtAssets = badDebtAssets => Accrue.gross = grossDebtAssets)
  BY AccrueReached DEF IInv
<1>2. /\ Accrue.gross \in Nat /\ Accrue.reserves \in Nat /\ Accrue.last \in Nat
      /\ Accrue.last <= now /\ Accrue.gross >= grossDebtAssets
      /\ Accrue.reserves >= reservesAssets
      /\ Accrue.gross - Accrue.reserves >= grossDebtAssets - reservesAssets
  BY <1>1 DEF Reached, AccrualStates
<1> QED BY <1>1, <1>2 DEF IInv, TypeOK, PerformingCoversShares, PerformingDebt

\* A quote is positive when there is a share, and what it leaves still covers the shares left.
LEMMA QuoteFacts ==
    ASSUME NEW shares \in Nat, NEW total \in Nat, NEW performing \in Nat,
           total <= performing, shares # 0 => total # 0
    PROVE  /\ Quote(shares, total, performing) \in Nat
           /\ shares # 0 => Quote(shares, total, performing) # 0
           /\ shares <= total =>
                /\ Quote(shares, total, performing) <= performing
                /\ total - shares <= performing - Quote(shares, total, performing)
                /\ shares # 0 /\ shares = total => Quote(shares, total, performing) = performing
<1>1. CASE shares = 0
  BY <1>1 DEF Quote
<1>2. CASE shares # 0 /\ shares = total
  BY <1>2 DEF Quote
<1>3. CASE shares # 0 /\ shares # total
  <2>1. Quote(shares, total, performing) = MulDivCeil(shares, performing, total)
    BY <1>3 DEF Quote
  <2>2. total \in Nat \ {0} /\ shares * performing # 0
    BY <1>3
  <2>3. /\ MulDivCeil(shares, performing, total) \in Nat
        /\ shares * performing <= MulDivCeil(shares, performing, total) * total
    BY <2>2, MulDivCeilBounds
  <2>4. MulDivCeil(shares, performing, total) # 0
    BY <2>2, <2>3
  <2>5. shares <= total => /\ MulDivCeil(shares, performing, total) <= performing
                           /\ total - shares <= performing - MulDivCeil(shares, performing, total)
    BY <2>2, CeilShare
  <2> QED BY <1>3, <2>1, <2>3, <2>4, <2>5
<1> QED BY <1>1, <1>2, <1>3

\* Shares minted for a new debt a, rounded up, cost at most a and one share more.
LEMMA QuoteAfterMint ==
    ASSUME NEW s \in Nat, NEW t \in Nat, NEW p \in Nat, NEW a \in Nat \ {0}, NEW m,
           s <= t, t <= p, t = 0 => p = 0, m = IF t = 0 THEN a ELSE MulDivCeil(a, t, p)
    PROVE  /\ m \in Nat \ {0}
           /\ MulDivCeil(1, p + a, t + m) \in Nat
           /\ Quote(s + m, t + m, p + a) <= Quote(s, t, p) + a + MulDivCeil(1, p + a, t + m)
<1> DEFINE c == MulDivCeil(1, p + a, t + m)
<1>1. m \in Nat \ {0}
  BY CeilMint
<1>2. c \in Nat /\ p + a <= c * (t + m)
  <2> DEFINE x == p + a
             y == t + m
  <2>1. x \in Nat /\ y \in Nat \ {0} /\ 1 * x = x
    BY <1>1
  <2> HIDE DEF x, y
  <2>2. MulDivCeil(1, x, y) \in Nat /\ 1 * x <= MulDivCeil(1, x, y) * y
    BY <2>1, MulDivCeilBounds
  <2> QED BY <2>1, <2>2 DEF x, y
<1> HIDE DEF c
<1>3. CASE s = t
  <2>1. Quote(s + m, t + m, p + a) = p + a
    BY <1>1, <1>3 DEF Quote
  <2>2. Quote(s, t, p) = p
    BY <1>3 DEF Quote
  <2> QED BY <1>1, <1>2, <2>1, <2>2 DEF c
<1>4. CASE s # t
  <2>1. t # 0 /\ p # 0
    BY <1>4
  <2>2. m = MulDivCeil(a, t, p) /\ a * t <= m * p /\ m * p < a * t + p
    BY <2>1, MulDivCeilBounds
  <2> DEFINE q == Quote(s, t, p)
  <2>3. q \in Nat /\ s * p <= q * t
    <3>1. CASE s = 0
      BY <3>1 DEF Quote
    <3>2. CASE s # 0
      BY <1>4, <2>1, <3>2, MulDivCeilBounds, Zenon DEF Quote
    <3> QED BY <3>1, <3>2
  <2>4. Quote(s + m, t + m, p + a) = MulDivCeil(s + m, p + a, t + m)
    BY <1>1, <1>4 DEF Quote
  <2> HIDE DEF q
  <2>5. MulDivCeil(s + m, p + a, t + m) <= q + a + c
    BY <1>1, <1>2, <2>1, <2>2, <2>3, MintedCost, Zenon
  <2> QED BY <1>1, <1>2, <2>4, <2>5 DEF q, c
<1> QED BY <1>3, <1>4

\* A quoted debt is a natural number, and an account with shares owes something.
LEMMA DebtQuoteFacts ==
    ASSUME IInv, NEW account \in Accounts, Quotable(account)
    PROVE  /\ DebtQuoteAssets(account, Accrue.gross - badDebtAssets) \in Nat
           /\ debtSharesOf[account] # 0 => DebtQuoteAssets(account, Accrue.gross - badDebtAssets) # 0
<1> DEFINE performing == Accrue.gross - badDebtAssets
<1>1. performing \in Nat /\ totalDebtShares <= performing
  BY AccrueFacts
<1>2. debtSharesOf[account] \in Nat /\ totalDebtShares \in Nat
  BY DEF IInv, TypeOK, Balances
<1>3. debtSharesOf[account] # 0 => totalDebtShares # 0
  BY DEF Quotable
<1> HIDE DEF performing
<1>4. /\ Quote(debtSharesOf[account], totalDebtShares, performing) \in Nat
      /\ debtSharesOf[account] # 0 => Quote(debtSharesOf[account], totalDebtShares, performing) # 0
  BY <1>1, <1>2, <1>3, QuoteFacts, Zenon
<1> QED BY <1>4 DEF DebtQuoteAssets, performing

\* An accepted repayment reduces the debt by no more than it is, and leaves the shares left covered.
LEMMA RepaymentFacts ==
    ASSUME TypeOK, NEW account \in Accounts, NEW amount \in Nat, NEW performing \in Nat, NEW acc,
           totalDebtShares <= performing,
           RepaymentAccepted(account, amount, performing, acc)
    PROVE  LET burned == Repayment(account, amount, performing).sharesBurned
               reduced == Repayment(account, amount, performing).reduced
           IN  /\ burned \in Nat /\ burned # 0 /\ burned <= totalDebtShares /\ burned <= debtSharesOf[account]
               /\ reduced \in Nat /\ reduced <= amount /\ reduced <= performing
               /\ totalDebtShares - burned <= performing - reduced
               /\ burned = totalDebtShares => reduced = performing
<1> DEFINE quote == DebtQuoteAssets(account, performing)
           burned == Repayment(account, amount, performing).sharesBurned
           reduced == Repayment(account, amount, performing).reduced
<1>1. /\ quote # 0 /\ burned # 0 /\ reduced <= amount /\ burned <= totalDebtShares
      /\ burned <= debtSharesOf[account]
      /\ debtSharesOf[account] # 0 => totalDebtShares # 0
  BY DEF RepaymentAccepted, Quotable
<1>2. debtSharesOf[account] \in Nat /\ totalDebtShares \in Nat
  BY DEF TypeOK, Balances
<1>3. CASE amount = quote
  <2>1. burned = debtSharesOf[account] /\ reduced = quote
    BY <1>3 DEF Repayment
  <2>2. quote = Quote(debtSharesOf[account], totalDebtShares, performing)
    BY DEF DebtQuoteAssets
  <2>3. debtSharesOf[account] # 0 /\ debtSharesOf[account] <= totalDebtShares
    BY <1>1, <2>1
  <2> HIDE DEF quote, burned, reduced
  <2>4. /\ quote \in Nat /\ quote <= performing
        /\ totalDebtShares - debtSharesOf[account] <= performing - quote
        /\ debtSharesOf[account] = totalDebtShares => quote = performing
    BY <1>1, <1>2, <2>2, <2>3, QuoteFacts, Zenon
  <2> QED BY <1>1, <1>2, <1>3, <2>1, <2>3, <2>4 DEF burned, reduced
<1>4. CASE amount # quote
  <2>1. burned = MulDiv(amount, totalDebtShares, performing)
    BY <1>4 DEF Repayment
  <2>2. reduced = MulDivCeil(burned, performing, totalDebtShares)
    BY <1>4 DEF Repayment
  <2>3. performing # 0
    <3> SUFFICES ASSUME performing = 0 PROVE FALSE
      OBVIOUS
    <3>1. totalDebtShares = 0 /\ debtSharesOf[account] = 0
      BY <1>1, <1>2
    <3> QED BY <1>1, <3>1 DEF DebtQuoteAssets, Quote
  <2>4. burned \in Nat
    BY <1>2, <2>1, <2>3, MulDivBounds, Zenon
  <2> HIDE DEF quote, burned, reduced
  <2>5. totalDebtShares # 0
    BY <1>1, <1>2, <2>4
  <2>6. /\ reduced \in Nat /\ reduced <= performing
        /\ totalDebtShares - burned <= performing - reduced
        /\ burned = totalDebtShares => reduced = performing
    BY <1>1, <1>2, <2>2, <2>4, <2>5, CeilShare
  <2> QED BY <1>1, <2>4, <2>6 DEF burned, reduced
<1> QED BY <1>3, <1>4

\* A call that only accrues keeps the debt accounting in order.
LEMMA AccruedKeepsCover ==
    ASSUME IInv, Accrued(Accrue), UNCHANGED now
    PROVE  /\ PerformingCoversShares'
           /\ grossDebtAssets' \in Nat /\ reservesAssets' \in Nat /\ badDebtAssets' \in Nat
           /\ totalDebtShares' \in Nat
           /\ lastAccruedAt' \in Nat /\ lastAccruedAt' <= now' /\ badDebtAssets' <= grossDebtAssets'
<1>1. /\ Accrue.gross \in Nat /\ Accrue.reserves \in Nat /\ Accrue.last \in Nat
      /\ Accrue.last <= now /\ Accrue.gross - badDebtAssets \in Nat
      /\ totalDebtShares <= Accrue.gross - badDebtAssets
      /\ totalDebtShares = 0 => Accrue.gross = badDebtAssets
  BY AccrueFacts
<1>2. /\ grossDebtAssets' = Accrue.gross /\ reservesAssets' = Accrue.reserves
      /\ lastAccruedAt' = Accrue.last /\ badDebtAssets' = badDebtAssets
      /\ totalDebtShares' = totalDebtShares /\ now' = now
  BY DEF Accrued
<1>3. badDebtAssets \in Nat /\ totalDebtShares \in Nat
  BY DEF IInv, TypeOK
<1>4. PerformingCoversShares'
  BY <1>1, <1>2, <1>3 DEF PerformingCoversShares, PerformingDebt
<1> QED BY <1>1, <1>2, <1>3, <1>4

\* Crediting a balance, and debiting what it covers, gives a balance.
LEMMA BalanceTypes ==
    ASSUME NEW balances \in Balances, NEW account \in Accounts, NEW amount \in Nat
    PROVE  /\ Credit(balances, account, amount) \in Balances
           /\ amount <= balances[account] => Debit(balances, account, amount) \in Balances
BY DEF Credit, Debit, Balances

\* Replacing a balance, crediting it and debiting it change the sum of the ledger by as much.
LEMMA LedgerSums ==
    ASSUME NEW balances \in Balances, NEW account \in Accounts, NEW amount \in Nat
    PROVE  /\ SumFunction(balances) \in Nat
           /\ balances[account] <= SumFunction(balances)
           /\ SumFunction([balances EXCEPT ![account] = amount])
                = SumFunction(balances) + amount - balances[account]
           /\ SumFunction(Credit(balances, account, amount)) = SumFunction(balances) + amount
           /\ amount <= balances[account] =>
                SumFunction(Debit(balances, account, amount)) = SumFunction(balances) - amount
<1>1. IsFiniteSet(Accounts) /\ balances \in [Accounts -> Nat]
  BY InputAssumption DEF Balances
<1>2. SumFunction(balances) \in Nat /\ balances[account] <= SumFunction(balances)
  BY <1>1, SumNat, EntryWithinSum
<1>3. \A v \in Nat : SumFunction([balances EXCEPT ![account] = v]) = SumFunction(balances) + v - balances[account]
  BY <1>1, SumUpdate, Zenon
<1>4. balances[account] \in Nat /\ balances[account] + amount \in Nat
  BY <1>1
<1>5. SumFunction(Credit(balances, account, amount)) = SumFunction(balances) + amount
  <2>1. Credit(balances, account, amount) = [balances EXCEPT ![account] = balances[account] + amount]
    BY DEF Credit
  <2>2. SumFunction([balances EXCEPT ![account] = balances[account] + amount])
          = SumFunction(balances) + (balances[account] + amount) - balances[account]
    BY <1>3, <1>4
  <2> QED BY <1>2, <1>4, <2>1, <2>2
<1>6. ASSUME amount <= balances[account]
      PROVE  SumFunction(Debit(balances, account, amount)) = SumFunction(balances) - amount
  <2>1. Debit(balances, account, amount) = [balances EXCEPT ![account] = balances[account] - amount]
    BY DEF Debit
  <2>2. balances[account] - amount \in Nat
    BY <1>4, <1>6
  <2>3. SumFunction([balances EXCEPT ![account] = balances[account] - amount])
          = SumFunction(balances) + (balances[account] - amount) - balances[account]
    BY <1>3, <2>2
  <2> QED BY <1>2, <1>4, <2>1, <2>3
<1> QED BY <1>2, <1>3, <1>5, <1>6

\* The same, for one ledger at a time.
LEMMA CreditSum ==
    ASSUME NEW balances \in Balances, NEW account \in Accounts, NEW amount \in Nat
    PROVE  SumFunction(Credit(balances, account, amount)) = SumFunction(balances) + amount
BY LedgerSums, Zenon

LEMMA DebitSum ==
    ASSUME NEW balances \in Balances, NEW account \in Accounts, NEW amount \in Nat, amount <= balances[account]
    PROVE  SumFunction(Debit(balances, account, amount)) = SumFunction(balances) - amount
BY LedgerSums, Zenon

LEMMA ReplacedSum ==
    ASSUME NEW balances \in Balances, NEW account \in Accounts, NEW amount \in Nat
    PROVE  SumFunction([balances EXCEPT ![account] = amount]) = SumFunction(balances) + amount - balances[account]
BY LedgerSums, Zenon

\* The ledgers of the pool and of the tokens are balances.
LEMMA Ledgers ==
    ASSUME IInv
    PROVE  \A ledger \in {supplySharesOf, collateralAssetsOf, debtSharesOf, badDebtAssetsOf, debtTokenOf,
                          collateralTokenOf} :
              /\ ledger \in Balances /\ SumFunction(ledger) \in Nat
              /\ \A a \in Accounts : ledger[a] \in Nat
<1>1. /\ supplySharesOf \in Balances /\ collateralAssetsOf \in Balances /\ debtSharesOf \in Balances
      /\ badDebtAssetsOf \in Balances /\ debtTokenOf \in Balances /\ collateralTokenOf \in Balances
  BY DEF IInv, TypeOK
<1>2. \A balances \in Balances : SumFunction(balances) \in Nat /\ \A a \in Accounts : balances[a] \in Nat
  <2> TAKE balances \in Balances
  <2>1. IsFiniteSet(Accounts) /\ balances \in [Accounts -> Nat]
    BY InputAssumption DEF Balances
  <2> QED BY <2>1, SumNat
<1> QED BY <1>1, <1>2

\* The refreshed price is an observation, and nothing is worth nothing at any price.
LEMMA RefreshedPrice ==
    ASSUME NEW feed, RefreshCurrentPrice(feed)
    PROVE  /\ accepted' \in Observations
           /\ oracleDeviationHalted' = oracleDeviationHalted
           /\ LatestPrice(feed).price \in Nat \ {0}
           /\ BorrowCapacity(0, LatestPrice(feed).price) = 0
<1>1. LatestPrice(feed) \in Observations /\ accepted' = LatestPrice(feed)
  BY DEF RefreshCurrentPrice, ReadValidObservation
<1>2. LatestPrice(feed).price \in Nat \ {0}
  BY <1>1 DEF Observations
<1> DEFINE price == LatestPrice(feed).price
<1> HIDE DEF price
<1>3. BorrowCapacity(0, price) = 0
  BY <1>2, ZeroProduct, ScaleAssumption, ConfigurationAssumption DEF BorrowCapacity, CollateralValueAssets, BPS, price
<1> QED BY <1>1, <1>2, <1>3 DEF RefreshCurrentPrice, price

\* The amounts that Next draws from the contract's own quotes are natural numbers.
LEMMA QuotedAmounts ==
    ASSUME IInv, NEW account \in Accounts, Quotable(account)
    PROVE  /\ RepayAmounts(account) \subseteq Nat
           /\ \A feed : LatestPrice(feed).price \in Nat
                           => LiquidationAmounts(account, feed) \subseteq Nat
<1>1. CurrentDebt(account) \in Nat
  BY DebtQuoteFacts DEF CurrentDebt
<1>2. badDebtAssetsOf[account] \in Nat /\ collateralAssetsOf[account] \in Nat
  BY DEF IInv, TypeOK, Balances
<1>3. Amounts \subseteq Nat
  BY InputAssumption
<1>4. RepayAmounts(account) \subseteq Nat
  BY <1>1, <1>2, <1>3 DEF RepayAmounts
<1>5. ASSUME NEW feed, LatestPrice(feed).price \in Nat
      PROVE  LiquidationAmounts(account, feed) \subseteq Nat
  <2> DEFINE price == LatestPrice(feed).price
             debt == CurrentDebt(account)
             collateralValue == CollateralValueAssets(collateralAssetsOf[account], price)
  <2> HIDE DEF price, debt
  <2>1. price \in Nat /\ debt \in Nat
    BY <1>1, <1>5 DEF price, debt
  <2>2. collateralValue \in Nat
    BY <1>2, <2>1, ScaleAssumption, MulDivBounds DEF CollateralValueAssets
  <2> HIDE DEF collateralValue
  <2>3. MulDiv(debt, CloseFactorBps, BPS) \in Nat
    BY <2>1, MulDivBounds DEF CloseFactorBps, BPS
  <2>4. MulDivCeil(collateralValue, BPS, BPS + LiquidationBonusBps) \in Nat
    BY <2>2, MulDivCeilBounds DEF BPS, LiquidationBonusBps
  <2>5. RepaymentLimit(account, debt, price) \in Nat
    BY <2>1, <2>3, <2>4 DEF RepaymentLimit, collateralValue, MinOf
  <2> QED BY <1>3, <2>5 DEF LiquidationAmounts, price, debt
<1> QED BY <1>4, <1>5

=============================================================================
