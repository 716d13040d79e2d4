SPECIFICATION Spec
CONSTANTS
    Payments = {p1}
    Processes = {q1, q2}
    Amounts = {1, 2}
    Invoiced = {}
    MaxTime = 1
    MaxSteps = 3
    MaxRecords = 4
    MinLookback = 1
    StageIndex <- MCStageIndex
    Deadline <- MCDeadline
    LostOnBreach <- MCLost
    CustomerOf <- MCCustomerOf
    Floors <- MCFloors
    Thresholds <- MCThresholds
SYMMETRY Symmetry
INVARIANTS
    LossIsFailure
    PendingIsInFlight
    BacklogAgesLikeTheGauge
PROPERTIES
    RedeliveryChangesNothing
    LateEventsStayPut
CHECK_DEADLOCK FALSE
