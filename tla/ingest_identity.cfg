\* Two process creations whose type number is in event_id.
SPECIFICATION FairSpec
CONSTANTS
    None = None
    Junk = Junk
    NoId = NoId
    Raws <- SysmonSample
    Keys <- KeysOfRaws
    Ids <- IdsOfRaws
    Sources = {"sysmon"}
    Telemetry <- Encoded
    Allowed <- Lateness
    Wait = 1
    TTL = 3
    MaxTime = 3
    MaxSent = 1
    MaxCopies = 3
INVARIANT DuplicatesCameBefore
CHECK_DEADLOCK FALSE
