SPECIFICATION Spec

CONSTANTS
    Workers = {w1, w2}
    PublishCallers = {p1, p2}
    Loop = loop
    Starters = {}
    Keys = {m1, m2}
    ShardCount = 2
    ShardOf <- MCShardOf
    StageOf <- MCStageOf
    Registered <- BothStages
    Unregistered = "unregistered"
    Moneys <- TwoExponents
    Instants = {0, 5}
    MaxItems = 1
    MaxRefused = 1
    InvalidMoney = TRUE
    NoItem = NoItem
    NoOp = NoOp
    NoExponent = NoExponent
    Nobody = Nobody
    m1 = m1
    m2 = m2
    m3 = m3

INVARIANTS
    TypeOK
    BoundExact
    NoPlaceLeaked
    GaugesTruthful
PROPERTIES
    BacklogNeverYounger

SYMMETRY Symmetry
