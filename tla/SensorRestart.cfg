SPECIFICATION Spec
CONSTANTS
    None = None
    Unavailable = Unavailable
    Unknown = Unknown
    Readings <- MCFewReadings
    Prices <- MCOnePrice
    Values <- MCZero
    Ids = {id1}
    BareIds = {}
    Uuids = {u1, u2}
    Nonsense <- MCNothing
    Dips = "level"
    MaxEpoch = 2
    Corruption = FALSE
    ReplaceInPlace = TRUE
INVARIANT NoDoubleCharge
SYMMETRY MCSymmetry
