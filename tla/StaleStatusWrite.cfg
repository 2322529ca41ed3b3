SPECIFICATION Spec
CONSTANTS
    r1 = r1
    r2 = r2
    Requests <- TwoRequests
    NoRequest = none
    Ops <- StatusOps
    MaxCancels = 1
PROPERTY OnlyReactivateLeavesCancelled
