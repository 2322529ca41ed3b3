SPECIFICATION FairSyncSpec
CONSTANTS
    r1 = r1
    Requests <- OneRequest
    NoRequest = none
    Ops <- EditOps
    MaxCancels = 1
    MaxEdits = 1
    MaxChannels = 1
    MaxPeriods = 1
    MaxFaults = 1
PROPERTIES
    AnnouncementsSettle
    ArchivedChannelIsRetired
