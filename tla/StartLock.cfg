\* Two processes with one call each, crashes, failed writes and stale files.
CONSTANTS
    c1 = c1
    c2 = c2
    p1 = p1
    p2 = p2
    Callers = {c1, c2}
    Processes = {p1, p2}
    ProcessOf <- TwoProcesses
    Absent = Absent
    Unreadable = Unreadable
SPECIFICATION LockFairSpec
INVARIANTS
    MutualExclusionUnlessStolen
PROPERTIES AcquisitionEnds DeadOwnerReclaimed
CHECK_DEADLOCK FALSE
