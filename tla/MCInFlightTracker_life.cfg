SPECIFICATION FairSpec

CONSTANTS
    Workers = {w1}
    PublishCallers = {p1}
    Loop = loop
    Starters = {s1, s2}
    Keys = {m1, m2}
    ShardCount = 2
    ShardOf <- MCShardOf
    StageOf <- MCStageOf
    Registered <- BothStages
    Unregistered = "unregistered"
    Moneys <- OneMoney
    Instants = {0}
    MaxItems = 1
    MaxRefused = 2
    InvalidMoney = FALSE
    NoItem = NoItem
    NoOp = NoOp
    NoExponent = NoExponent
    Nobody = Nobody
    m1 = m1
    m2 = m2
    m3 = m3

PROPERTIES
    CloseReturns
    LeftMessagesLeaveGauges
