SPECIFICATION Spec
CONSTANTS
    None = None
    Live = Live
    Calls = {c1, c2}
    Appliances = {a1}
    Requests <- MCOneRequest
    Kinds = {"ok"}
    Prices = {TRUE}
    MonthStarts <- MCMonthStarts
    LiveFrom = 2
    Faults = {}
    MaxHour = 2
    MaxGen = 2
INVARIANT OneImportAtATime
CHECK_DEADLOCK FALSE
