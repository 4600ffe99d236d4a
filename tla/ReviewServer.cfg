\* Two reviews, of one process and of two, and one kind of disturbance: a request of
\* a page, processes that die, or a fault that may repeat itself.
CONSTANTS
    Calls = {c1, c2}
    Procs = {p1, p2}
    c1 = c1
    c2 = c2
    p1 = p1
    p2 = p2
    Hosts <- MCHosts
    Page = Page
    None = None
    MaxVisits = 1
    MaxFaults = 1
SPECIFICATION FairSpec
INVARIANTS
    SessionsServed
    SessionsFound
PROPERTIES
    StartsEnd
    EmptyServersEnd
CHECK_DEADLOCK FALSE
