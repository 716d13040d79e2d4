SPECIFICATION Spec
CONSTANTS
    MaxEncodedBytes = 90
    TicksPerSecond = 1
    MaxDeadline = 1000
    NoDeadline = NoDeadline
    MaxDurationSeconds = 100000
    DnsLabels = {}
    LowerLabel <- NoLabels
    AgeBucketOrder <- MCBuckets
    AgeFloors <- MCFloors
    MinLookback = 2
    DefaultTopN = 10
    Hour = 2
    HoursPerWeek = 2
    Scale = 4
    BandFactor = 3
    Payments = {1, 2, 3, 4}
    FlowOf <- MCFlowOf
    CurrencyOf <- MCCurrencyOf
    AmountOf <- MCAmountOf
    CustomerOf <- MCCustomerOf
    Estimated = {3}
    Documents <- MCDocuments
    Requests <- MCRequests
    PageSize = 2
    Instants = {0, 4, 8, 10}
    Quiet = 8
    LossyStages = {"capture"}
    MaxRecords = 3
    MaxLate = 1
    MaxLost = 1
    MaxPublishes = 2
INVARIANTS
    WalkCountsOnce
    LossLowersCoverage
    ShortfallMatchesDemand
    RealizedBounds
    GaugeSettles
    SeverityIsTightest
CHECK_DEADLOCK FALSE
