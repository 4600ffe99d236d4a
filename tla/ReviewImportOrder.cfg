CONSTANTS
    ReviewIds = {"r1", "r2"}
    Digests = {"d1", "d2"}
    Verdicts = {"pending", "approved", "changes"}
    PinIds = {"p1"}
    Shapes = {"box", "moved"}
    Contents = {"open", "done"}
    ReplyIds = {"a", "b"}
    Texts = {"x", "y"}
    Times = {1, 2, 3}
    NoPin = NoPin
    NoEntry = NoEntry
    Revisions <- MCRevisions
SPECIFICATION OrderSpec
INVARIANTS
    SameRevisionsSameLedger
    MergedRevisionsKept
    RefusalsJustified
