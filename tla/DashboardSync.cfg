\* Two items, a page, three steps of writing, one lost connection or watch.
CONSTANTS
    Items = {a, b}
    Pages = {p}
    a = a
    b = b
    p = p
    MaxWrites = 3
    MaxDrops = 1
SPECIFICATION FairSpec
INVARIANTS
    ServedIsBuilt
    PageInStep
PROPERTIES
    PagesFollow
CHECK_DEADLOCK FALSE
