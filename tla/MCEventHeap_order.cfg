SPECIFICATION FairSpec
CONSTANTS
    p1 = p1
    p2 = p2
    p3 = p3
    p4 = p4
    q = q
    Progs = {p1, p2, p3, p4}
    Qt = q
    Order <- Four
    Quantum = 2
    MaxStart = 3
    MaxSleep = 2
    MaxFraction = 1
    AllocGrain = 2
    MayReset = TRUE
INVARIANTS
    HeapSound
PROPERTIES
    ImplementsQueue
    EventsHappen
