SPECIFICATION OneByOneSpec
CONSTANTS
    None = None
    Live = Live
    Calls = {c1, c2}
    Appliances = {a1, a2}
    Requests <- MCSelections
    Kinds = {"ok", "absent"}
    Prices = {TRUE}
    MonthStarts <- MCMonthStarts
    LiveFrom = 2
    Faults = {"drop", "retry"}
    MaxHour = 2
    MaxGen = 2
PROPERTIES NoSilentOverwrite NoStepBack ReturnMeansWritten EveryCallReturns
CHECK_DEADLOCK FALSE
