SPECIFICATION SyncSpec
CONSTANTS
    r1 = r1
    Requests <- OneRequest
    NoRequest = none
    Ops <- CycleOps
    MaxCancels = 2
    MaxEdits = 0
    MaxChannels = 2
    MaxPeriods = 2
    MaxFaults = 1
INVARIANTS
    SyncTypeOK
    PendingCancelIsCurrent
    OneCycleMessagePending
    SentWasPosted
    DuplicatesNeedALostAnswer
    ChannelsAreTracked
    
PROPERTIES
    CyclesAreAnnounced
    SettledIsFinal
