SPECIFICATION MCFairSpec
CONSTANTS
    None = None
    NewEntry = NewEntry
    e1 = e1
    e2 = e2
    p1 = p1
    p2 = p2
    s1 = s1
    s2 = s2
    d1 = d1
    Entries = {e1, e2}
    PriceSensors = {p1, p2}
    EnergySensors = {s1, s2}
    Devices = {d1, d2}
    Flows = {f1}
    MaxAppliances = 2
    MaxChanges = 2
INVARIANTS TypeOK InForce
PROPERTIES FlowsKeepApart RenameFollowed SharingIsReported EveryChangeTakesEffect
CHECK_DEADLOCK FALSE
