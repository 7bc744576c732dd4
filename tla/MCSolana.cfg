SPECIFICATION Spec
CONSTRAINT DeletedApart
CONSTANTS
    dca = dca
    exit = exit
    other = other
    Strategies <- OneDca
    Dca <- OneDca
    Interval <- MCInterval
    MaxRuns <- MCMaxRuns
    Exit <- MCExit
    Expiry <- MCExpiry
    MinLead = 2
    Prices <- MCPrices
    HasPositions = FALSE
    MaxTicks = 1
    MaxTime = 1
    Full <- OneDca
    Evm <- NoStrategy
INVARIANTS
    DispatchTypeOK
    ConsumedMeansLanded
PROPERTIES
    StopFreezesExecution
    AutoSpec
