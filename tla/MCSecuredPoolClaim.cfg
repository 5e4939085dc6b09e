SPECIFICATION MCSpec
CONSTANTS
    alice = alice
    bob = bob
    MaxCalls = 8
    Rounds = {1, 2}
    Answers = {1, 10}
    UpdateTimes = {1, 4}
    Endowment = 21
    CollateralEndowment = 24
    Accounts <- MCAccounts
    Amounts = {14}
    CollateralAmounts = {24}
    Feeds <- MCFeeds
    InitialObservation <- MCObservation
    NormalizationFactor = 1
    MarketDebtCapAssets = 40
    BorrowerDebtCapAssets = 20
    LoanToValueBps = 7500
    MaxOracleAge = 3
    MaxOracleFutureSkew = 0
    MaxAccrualChunk = 3
    MaxAccrualChunks = 2
    InitialDebtTokens <- MCDebtTokens
    InitialCollateralTokens <- MCCollateralTokens
    MinCollateralOuts = {1}
    Deadlines = {4}
    StartTime = 1
    TimeSteps = {3}
    MaxTime = 4
    SecondsPerYear = 1
    PriceScale = 12
SYMMETRY Interchangeable
CONSTRAINT CallBound
INVARIANT LpClaimHasValue
