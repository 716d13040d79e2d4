SPECIFICATION FairSpec
CONSTANTS
    EventCalls = {e1, e2}
    MetricCalls = {m1}
    ShutdownCalls = {s1, s2}
    Free = free
    QueueSize = 2
    BatchSizes = {3}
INVARIANTS
    NilMeansDelivered
PROPERTIES
    QuietAfterShutdown
    ShutdownReturns
CHECK_DEADLOCK FALSE
