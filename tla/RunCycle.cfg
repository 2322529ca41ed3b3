SPECIFICATION TimelySpec
CONSTANTS
    r1 = r1
    r2 = r2
    Requests <- TwoRequests
    NoRequest = none
    Ops <- AllOps
    MaxCancels = 2
SYMMETRY RequestSymmetry
INVARIANTS CancelledHasSnapshot ArchivedRunsHaveEnded
PROPERTY FollowsCycle
