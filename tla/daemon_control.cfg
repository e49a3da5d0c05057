\* One or two threads, two process ids.
CONSTANTS
    t1 = t1
    t2 = t2
    Threads <- MCThreads
    Pids = {p1, p2}
    NoPid = NoPid
    Scenarios <- MCScenarios
    MaxSlow = 1
SPECIFICATION FairControl
INVARIANTS LockTells OwnAnswer
PROPERTIES CallsReturn NeedServed ProcessLives
