\* A killed program is reaped although its hash entry is gone.
CONSTANTS
    s1 = s1
    s2 = s2
    Slots = {s1, s2}
    Shells <- AllExec
    Work <- TwoEach
    Retired = {1, 2}
    Respawnable = 0
    MonitorFactor = 1
SPECIFICATION Spec
INVARIANT
    ReapedPidKnown
