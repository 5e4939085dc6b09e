SPECIFICATION MCSpec
CONSTANTS
    alice = alice
    bob = bob
    MaxCalls = 8
    Rounds = {1}
    Answers = {10}
    UpdateTimes = {1}
    Endowment = 14
    CollateralEndowment = 2
    Accounts <- MCAccounts
    Amounts = {1, 6}
    CollateralAmounts = {2}
    Feeds <- MCFeeds
    InitialObservation <- MCObservation
    NormalizationFactor = 1
    MarketDebtCapAssets = 40
    BorrowerDebtCapAssets = 11
    LoanToValueBps = 7500
    MaxOracleAge = 3
    MaxOracleFutureSkew = 0
    MaxAccrualChunk = 1
    MaxAccrualChunks = 2
    InitialDebtTokens <- MCDebtTokens
    InitialCollateralTokens <- MCCollateralTokens
    MinCollateralOuts = {1}
    Deadlines = {4}
    StartTime = 1
    TimeSteps = {1, 3}
    MaxTime = 4
    SecondsPerYear = 1
    PriceScale = 1
SYMMETRY Interchangeable
CONSTRAINT CallBound
INVARIANTS
    PerformingCoversShares
    RepaymentAlwaysOpen
