\* Playbooks of up to two steps, one frame waiting, one instance or more.
SPECIFICATION FairSpec
CONSTANTS
    MaxSteps = 2
    MaxQueue = 1
    MaxRuns = 1
INVARIANTS EntryTruthful
PROPERTIES ActsOnceInOrder ReturnsToSocket
