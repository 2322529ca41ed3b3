SPECIFICATION MCSpec
CONSTANTS
    r1 = r1
    r2 = r2
    Runs = {r1, r2}
    Characters = {1, 2}
    Starts = {0, 1, 2}
    MinGap = 2
    Requests = {p1, p2}
    NoRequest = none
    Movable = {r2}
    MaxRequests = 3
SYMMETRY RequestSymmetry
INVARIANTS NoDoubleBooking  OverwritesWhatItSaw
PROPERTIES KeepsBookings StartedLineupStays
CHECK_DEADLOCK FALSE
