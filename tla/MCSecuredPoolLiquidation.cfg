SPECIFICATION MCSpec
CONSTANTS
    alice = alice
    bob = bob
    MaxCalls = 8
    Rounds = {1, 2, 3}
    Answers = {7, 8, 10}
    UpdateTimes = {1, 2, 3}
    Endowment = 21
    CollateralEndowment = 24
    Accounts <- MCAccounts
    Amounts = {14}
    CollateralAmounts = {24}
    Feeds <- MCFeeds
    InitialObservation <- MCObservation
    NormalizationFactor = 1
    MarketDebtCapAssets = 40
    BorrowerDebtCapAssets = 20
    LoanToValueBps = 7500
    MaxOracleAge = 1
    MaxOracleFutureSkew = 1
    MaxAccrualChunk = 1
    MaxAccrualChunks = 2
    InitialDebtTokens <- MCDebtTokens
    InitialCollateralTokens <- MCCollateralTokens
    MinCollateralOuts = {0, 11}
    Deadlines = {2}
    StartTime = 1
    TimeSteps = {1, 2}
    MaxTime = 3
    SecondsPerYear = 1
    PriceScale = 12
SYMMETRY Interchangeable
CONSTRAINT CallBound
INVARIANTS
    LedgersReconcile
    NoUnsecuredPerformingDebt
PROPERTIES
    LossOnlyByRecognition
    PriceDiscipline
