\* Two tabs edit, delete and fetch while the agent resolves and the daemon may die; or one
\* tab, rounds, an approval, a torn write and a reload.
CONSTANTS
    Tabs = {t1, t2}
    Pins = {p1}
    t1 = t1
    t2 = t2
    p1 = p1
    r1 = r1
    Author <- AllOfOne
    Statuses = {"open", "resolved"}
    Replies = {r1}
    Verdicts = {"approved"}
    Absent = Absent
    Torn = Torn
    Emptied = Emptied
    Nothing = Nothing
    MaxEdits = 2
    MaxFetches = 1
    MaxRounds = 2
    MaxDeletes = 1
    MaxCrashes = 1
    MaxTears = 1
    MaxReloads = 1
SPECIFICATION MCSpec
INVARIANTS KeptOrTold EveryRoundOnce
PROPERTIES ContributionsKept EditsArrive
CHECK_DEADLOCK FALSE
