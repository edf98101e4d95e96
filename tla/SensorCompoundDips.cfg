SPECIFICATION Spec
CONSTANTS
    None = None
    Unavailable = Unavailable
    Unknown = Unknown
    Readings <- MCSteps
    Prices <- MCOnePrice
    Values <- MCZero
    Ids = {id1}
    BareIds = {}
    Uuids = {u1}
    Nonsense <- MCDark
    Dips = "compound"
    MaxEpoch = 1
    Corruption = FALSE
    ReplaceInPlace = FALSE
PROPERTY DipAcrossRestartChargesNothing
