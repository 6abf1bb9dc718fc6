\* Shells that fork their program: a killed one is counted off twice.
CONSTANTS
    s1 = s1
    s2 = s2
    Slots = {s1, s2}
    Shells <- AllFork
    Work <- TwoEach
    Retired = {1, 2}
    Respawnable = 0
    MonitorFactor = 1
SPECIFICATION Spec
INVARIANT
    ExitComplete
