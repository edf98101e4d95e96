SPECIFICATION SteadySpec
CONSTANTS
    None = None
    Unavailable = Unavailable
    Unknown = Unknown
    Readings <- MCReadings
    Prices <- MCPrices
    Values <- MCValues
    Ids = {id1}
    BareIds = {}
    Uuids = {u1}
    Nonsense = {}
    Dips = "level"
    MaxEpoch = 2
    Corruption = FALSE
    ReplaceInPlace = FALSE
PROPERTY ImplementsLedger
