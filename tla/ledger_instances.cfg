\* Three threads, two of them through one instance, and a dashboard.
SPECIFICATION TailSpec
CONSTANTS
    t1 = t1
    t2 = t2
    t3 = t3
    w1 = w1
    w2 = w2
    Threads = {t1, t2, t3}
    Instances = {w1, w2}
    InstanceOf <- MixedInstance
    NoThread = NoThread
    MaxReports = 1
    MaxRows = 2
    SeedPage = 1
    Page = 2
SYMMETRY SymPairs
INVARIANTS ChainOrder ConsensusComplete TailFollows
\* the bound MaxRows ends every behaviour: no job starts on a full ledger
CHECK_DEADLOCK FALSE
