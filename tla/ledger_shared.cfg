\* Two threads through one LedgerWriter, frames of up to two reports.
SPECIFICATION Spec
CONSTANTS
    t1 = t1
    t2 = t2
    t3 = t3
    w1 = w1
    w2 = w2
    Threads = {t1, t2}
    Instances = {w1}
    InstanceOf <- SharedInstance
    NoThread = NoThread
    MaxReports = 2
    MaxRows = 3
PROPERTY Refines
\* the bound MaxRows ends every behaviour: no job starts on a full ledger
CHECK_DEADLOCK FALSE
