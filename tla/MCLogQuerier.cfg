SPECIFICATION Spec
CONSTANTS
    Entries <- MCEntries
    Queries <- MCQueries
    KnownLabels = {"flow", "currency", "entity"}
    MaxRows = 2
    Resolution = 2
    Second = 4
INVARIANT AnswerWhole
PROPERTY QueryReturns
CHECK_DEADLOCK FALSE
