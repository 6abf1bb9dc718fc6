\* The four policies: perf with late starts, exits at any time and respawns, the
\* three fair ones with every program there from the start.
CONSTANTS
    a = a
    b = b
    c = c
    d = d
    Slots = {a, b, c, d}
    Workloads <- FourPolicies
    Late <- LatePerf
    Short <- ShortPerf
    Exits = 1
    Rest = 0
    Cycles = 1000
    Target <- Targets
    Rate <- Rates
    Need <- One
    MaxCores = 3
    Bw <- Heavy
    Llc <- Two
    BwLimit = 9
    BwReserve = 1
    BwSlack = 0
    LlcLimit = 3
    LlcSlack = 1
SPECIFICATION FairSpec
INVARIANTS
    ChoiceSound
    WaitBound
    AloneMeasured
    SortedByProgress
PROPERTIES
    NoIdleCore
    LeastServedRuns
    MixedOnlyIfNeeded
    AllServed
