SPECIFICATION FairSpec
CONSTRAINTS
    Apart
    ExitDeleted
CONSTANTS
    dca = dca
    exit = exit
    other = other
    Strategies <- TwoExits
    Dca <- NoStrategy
    Interval <- MCInterval
    MaxRuns <- MCMaxRuns
    Exit <- MCExit
    Expiry <- MCExpiry
    MinLead = 0
    Prices <- MCPrices
    HasPositions = FALSE
    MaxTicks = 1
    MaxTime = 1
    Full <- OneExit
    Evm <- OneExit
INVARIANTS
    RestrictedNeverBroadcasts
    AtMostOneSwap
PROPERTIES
    ProposalsDecided
