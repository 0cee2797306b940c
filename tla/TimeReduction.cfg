CONSTANTS
    Times <- ClockTimes
    Increases = {3, 100}
    Rate <- Rates
    Threshold = 4
    Window = 2
    Cap = 2
    MaxCalls = 3
    MaxNow = 3
SPECIFICATION FairReductionSpec
INVARIANTS
    HistorySorted
    LostOnlyToOverlap
PROPERTIES
    AloneTakesAtMostHalf
    CallsAreAnswered
