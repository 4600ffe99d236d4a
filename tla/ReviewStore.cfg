\* Two sessions with up to two waiting writes each and an import, crashes and one
\* theft of the lock included.
CONSTANTS
    ReviewIds = {"r1"}
    Digests = {"d1", "d2"}
    Verdicts = {"pending", "approved", "changes"}
    PinIds = {"p1"}
    Shapes = {"box"}
    Contents = {"open"}
    ReplyIds = {"a"}
    Texts = {"x"}
    Times = {1, 2}
    NoPin = NoPin
    NoEntry = NoEntry
    Sessions = {s1, s2}
    s1 = s1
    s2 = s2
    i1 = i1
    Imports = {i1}
    Submissions <- TwoReviews
    MaxQueue = 2
    Server = Server
    MaxSources = 1
    MaxThefts = 1
    NoDigest = NoDigest
    NoLedger = NoLedger
    Nobody = Nobody
    Orphan = Orphan
SPECIFICATION FairSpec
INVARIANTS
    AcknowledgedReviewsKept
PROPERTIES
    StoreKeepsReviews
    WritesAnswered
CHECK_DEADLOCK FALSE
