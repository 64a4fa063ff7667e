\* Three pivots on two levels, two follow-ups each, one inference at a time.
SPECIFICATION FairSpec
CONSTANTS
    MaxDepth = 2
    MaxWidth = 2
    Slots = 1
    MaxFollowUps = 2
    HasConsumer = TRUE
    MaxPivots = 3
INVARIANTS BudgetsExact Lineage
PROPERTY PivotsEnd
\* a watcher without frames has nothing to do
CHECK_DEADLOCK FALSE
