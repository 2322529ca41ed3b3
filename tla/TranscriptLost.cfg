SPECIFICATION SyncSpec
CONSTANTS
    r1 = r1
    Requests <- OneRequest
    NoRequest = none
    Ops <- RestoreOps
    MaxCancels = 1
    MaxEdits = 0
    MaxChannels = 1
    MaxPeriods = 2
    MaxFaults = 0
PROPERTIES
    RearchiveWritesANewTranscript
