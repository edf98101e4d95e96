SPECIFICATION OneLifeSpec
CONSTANTS
    None = None
    Unavailable = Unavailable
    Unknown = Unknown
    Readings <- MCSteps
    Prices <- MCPrices
    Values <- MCZero
    Ids = {id1}
    BareIds = {}
    Uuids = {u1}
    Nonsense <- MCNonsense
    Dips = "compound"
    MaxEpoch = 2
    Corruption = FALSE
    ReplaceInPlace = FALSE
INVARIANTS TypeOK NoDoubleCharge InStepWithSources
