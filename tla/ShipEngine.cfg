\* Two tasks, independent, in a chain, in a circle or one of them stuck, and a path that one
\* must preserve: up to three invocations, a crash and a person who sets a task back.
CONSTANTS
    Tasks = {t1, t2}
    t1 = t1
    t2 = t2
    Missing = Missing
    Plans <- SomePlans
    Paths = {p1}
    p1 = p1
    Preserve <- AllButFirst
    Idle = Idle
    MaxWrites = 2
    MaxCrashes = 1
    MaxFlips = 1
    MaxInvocations = 3
SPECIFICATION MCSpec
INVARIANTS DoneAfterDependencies  AttemptsBounded PreserveKept
PROPERTIES ShipEnds
CHECK_DEADLOCK FALSE
