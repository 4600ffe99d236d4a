\* Two attempts of the three, two runs of one session.
CONSTANTS
    MaxAttempts = 2
    MaxRuns = 2
SPECIFICATION FairSpec
INVARIANTS
    CommittedWhatPassed
    CallsBounded
PROPERTIES
    RunEnds
CHECK_DEADLOCK FALSE
