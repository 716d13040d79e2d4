SPECIFICATION Spec
CONSTANTS
    EventCalls = {"e1", "e2"}
    MetricCalls = {"m1", "m2", "m3"}
    Closers = {"s1", "s2"}
    Batch <- MCBatch
    BufLines = 2
    ChunkSize = 2
    Nobody = "nobody"
INVARIANTS
    AckedLinesKept
    GaugeShowsNewest
PROPERTIES
    ContractSpec
CHECK_DEADLOCK FALSE
