\* Two slots and whatever their shells do, under the fairness of the executor.
CONSTANTS
    s1 = s1
    s2 = s2
    Slots = {s1, s2}
    Shells <- AnyMix
    Work <- ThreeEach
    Retired = {1, 2}
    Respawnable = 1
    MonitorFactor = 1
SPECIFICATION FairSpec
INVARIANTS
    TypeOK
    ProgsLeftExact
    AtMostOneFinalization
    StopMeansNothingLeft
    OnlyGangRuns
    MonitorHasProgram
    RunningExact
    NoLostChild
PROPERTIES
    KilledForGood
    ImplementsLifecycle
    Termination
