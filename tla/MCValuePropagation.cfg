SPECIFICATION Spec
CONSTANTS
    MaxEncodedBytes = 90
    TicksPerSecond = 2
    MaxDeadline = 1000
    NoDeadline = NoDeadline
    NaN = NaN
    MaxDurationSeconds = 100000
    DnsLabels = {"shop", "com", "api", "evil"}
    LowerLabel <- MCLower
    Documents <- MCDocuments
    Entries <- MCEntries
    Hooks <- MCHooks
    Hosts <- MCHosts
    ExtraLines <- MCExtraLines
    Messages <- MCMessages
    Outcomes <- MCOutcomes
    MaxMembers = 4
    MaxHops = 3
INVARIANTS
    NothingLeaks
    ValueArrives
    RecognisedIsStamped
    MessageUnambiguous
CHECK_DEADLOCK FALSE
