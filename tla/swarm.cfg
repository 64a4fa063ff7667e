\* Windows of up to five events of one address.
SPECIFICATION Spec
CONSTANTS
    None = None
    Junk = Junk
    Raises = Raises
    CacaoKey = CacaoKey
    LongNames = {"long"}
    LongAgents <- LongAgentSample
    Resolution = 500
    MaxDecided = 5
    MaxAssorted = 3
    Inputs <- ReportLists
    Keys <- KeySample
INVARIANTS ConflictBounded AgreementIsProduct MitigationNeedsTwo   AttributionAddsUp
PROPERTY Corroborated
CHECK_DEADLOCK FALSE
