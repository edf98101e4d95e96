SPECIFICATION Spec
CONSTANTS
    None = None
    Unavailable = Unavailable
    Unknown = Unknown
    Readings <- MCTwoReadings
    Prices <- MCOnePrice
    Values <- MCZero
    Ids = {id1, id2, id3}
    BareIds = {id3}
    Uuids = {u1, u2}
    Nonsense <- MCDark
    Dips = "none"
    MaxEpoch = 2
    Corruption = TRUE
    ReplaceInPlace = FALSE
INVARIANTS NoDoubleCharge BaselineIsThisMeters
PROPERTY EnergyWhileAwayIsCharged
SYMMETRY MCSymmetry
