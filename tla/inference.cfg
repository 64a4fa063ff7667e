\* Two debates, on two threads of one process, and a pivot of another.
SPECIFICATION FairSpec
CONSTANTS
    None = None
    Junk = Junk
    Nobody = Nobody
    Callers = {"d1", "d2", "p1"}
    Debates = {"d1", "d2"}
    Processes = {"narrator", "watcher"}
    Home <- HomeOf
    Script <- ScriptOf
    Answers <- AnswersOf
    Objects <- ObjectsOf
    Workers <- Threads
    Permits = 1
INVARIANTS ReadsBeginning HigherOfBoth
PROPERTIES Refines LockReturns DebatesEnd
CHECK_DEADLOCK FALSE
