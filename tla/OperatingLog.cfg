\* A few entries more on an empty log and on logs of a cycle under review.
CONSTANTS
    None = None
    Events <- AnyEvents
    EventIds = {e1, e2}
    e1 = e1
    e2 = e2
    MaxEvents = 14
    MaxMore = 2
    Cycles = {c1, c2}
    Findings = {f1}
    Decisions = {d1}
    Gaps = {g1}
    Routes = {r1}
    Specs = {s1}
    Outcomes = {o1}
    Digests = {"a", "b"}
    Grades = {1, 2}
    c1 = c1
    c2 = c2
    f1 = f1
    d1 = d1
    g1 = g1
    r1 = r1
    s1 = s1
    o1 = o1
SYMMETRY Alike
SPECIFICATION MCSpec
INVARIANTS
    ResumedAsReplayed
    DamageNoticed
    AppliedAsApproved
    WorkIsAccepted
PROPERTIES
    SensitivityNeverLowered
CHECK_DEADLOCK FALSE
