SPECIFICATION FairSyncSpec
CONSTANTS
    r1 = r1
    Requests <- OneRequest
    NoRequest = none
    Ops <- ScopeOps
    MaxCancels = 1
    MaxEdits = 1
    MaxChannels = 1
    MaxPeriods = 1
    MaxFaults = 0
PROPERTIES
    ArchivingDeletesTheChannel
