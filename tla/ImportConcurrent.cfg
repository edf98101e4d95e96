SPECIFICATION MCFairSpec
CONSTANTS
    None = None
    Live = Live
    Calls = {c1, c2}
    Appliances = {a1}
    Requests <- MCRequests
    Kinds = {"ok"}
    Prices = {TRUE, FALSE}
    MonthStarts <- MCMonthStarts
    LiveFrom = 2
    Faults = {"drop"}
    MaxHour = 3
    MaxGen = 1
INVARIANTS TypeOK OneImportAtATime CutoverContinues
PROPERTIES NoSilentOverwrite NoStepBack ReturnMeansWritten BoundedReadsAreExact EveryCallReturns
CHECK_DEADLOCK FALSE
