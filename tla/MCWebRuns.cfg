SPECIFICATION Spec
CONSTANTS
    Sockets = {a, b}
    Pages = {v}
    Asks <- MCAsks
    FixedFile <- MCFixedFile
    Workers = 2
    Severities = {2, 3}
    MaxRecords = 2
INVARIANTS RunsOwnConfig ClientSeesOwnRun
PROPERTY RequestsEnd
CHECK_DEADLOCK FALSE
