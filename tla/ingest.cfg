\* A prompt source, and a slow one in the flat format, one message and three copies.
SPECIFICATION FairSpec
CONSTANTS
    None = None
    Junk = Junk
    NoId = NoId
    Raws <- Sample
    Keys <- KeysOfRaws
    Ids <- IdsOfRaws
    Sources = {"sysmon", "yara"}
    Telemetry <- Encoded
    Allowed <- Lateness
    Wait = 1
    TTL = 3
    MaxTime = 3
    MaxSent = 1
    MaxCopies = 3
INVARIANTS AtMostOnce PromptTogether WeighedOnce HashesMeet
PROPERTY WindowsFire
CHECK_DEADLOCK FALSE
