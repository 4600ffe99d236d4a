\* Every plan of three steps, every loaded status, reports with and without errors.
CONSTANTS
    Steps = {s1, s2, s3}
    s1 = s1
    s2 = s2
    s3 = s3
    Evidence = {}
    Errors = {"x"}
    Times = {1, 2}
    None = None
    MaxAttempts = 2
SYMMETRY AnyStep
SPECIFICATION Spec
INVARIANTS
    WorkRevealedExactly
    BlockedByCompensation
PROPERTIES
    DeadEndsAreFinal
CHECK_DEADLOCK FALSE
