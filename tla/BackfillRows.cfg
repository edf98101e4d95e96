SPECIFICATION Spec
CONSTANTS
    None = None
    Infinite = Infinite
    ZeroTolerance = 1
    Meterings <- MCMeterings
    PriceRows <- MCPriceRows
    InitialCost = 7
    ExpectedHours = 3
    RangeCap = 1
INVARIANTS TypeOK LoopIsSeries EveryKwhAccounted FindingsAddUp
CHECK_DEADLOCK FALSE
