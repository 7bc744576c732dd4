SPECIFICATION OneAtATime
CONSTANTS
    dca = dca
    exit = exit
    Strategies <- Both
    Dca <- OneDca
    Interval <- MCInterval
    MaxRuns <- MCMaxRuns
    Exit <- MCExit
    Expiry <- MCExpiry
    MinLead = 2
    Prices <- MCPrices
    HasPositions = TRUE
    MaxTicks = 2
    MaxTime = 7
INVARIANTS
    PendingMatchesStrategy
    RunsCountConsumed
PROPERTIES
    StoppedStaysInert
