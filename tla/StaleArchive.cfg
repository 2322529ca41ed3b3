SPECIFICATION Spec
CONSTANTS
    r1 = r1
    r2 = r2
    Requests <- TwoRequests
    NoRequest = none
    Ops <- ArchiveOps
    MaxCancels = 1
PROPERTY OnlyTerminalRunsAreArchived
