SPECIFICATION RecoveringSpec
CONSTANTS
    Callers = {c1}
    FlushCallers = {f1}
    Loop = loop
    Closer = closer
    Keys = {k1}
    Pairs = {}
    Other = other
    NoSeries = noSeries
    DedupCap = 1
    BufSize = 1
    MetricsFactor = 2
    PairCap = 1
    Operations = {"record", "invalid"}
    MaxCalls = 2
    PartialDelivery = FALSE
    CloseCalled = TRUE
INVARIANTS
    CloseDelivers
PROPERTIES
    CloseReportsDamage
    EventuallySettled
    CloseReturns
