SPECIFICATION Spec
CONSTANTS
    Callers = {c1, c2}
    FlushCallers = {f1}
    Loop = loop
    Closer = closer
    Keys = {k1, k2, k3}
    Pairs = {p1, p2}
    Other = other
    NoSeries = noSeries
    DedupCap = 1
    BufSize = 1
    MetricsFactor = 2
    PairCap = 1
    Operations = {"estimated", "provider", "gauge"}
    MaxCalls = 3
    PartialDelivery = FALSE
    CloseCalled = FALSE
SYMMETRY Symmetry
INVARIANTS
    TypeOK
    Accounting
    DropsCountedOnce
    OutcomesCountedOnce
    MemoryBounded
PROPERTIES
    LedgerSpec
