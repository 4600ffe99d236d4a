\* Two participants, every combination of reports.
CONSTANTS
    Participants = {p1, p2}
    p1 = p1
    p2 = p2
    Digests = {"d1", "d2"}
    Unknown = Unknown
    Named = {p1, p2}
SYMMETRY AnyParticipant
SPECIFICATION ReleaseSpec
INVARIANTS
    NextActionDerivable
PROPERTY NoWayBack
CHECK_DEADLOCK FALSE
