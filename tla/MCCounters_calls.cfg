\* Three cpus, for the gangs of the two programs side by side.
SPECIFICATION Spec
CONSTANTS
    p1 = p1
    p2 = p2
    Progs = {p1, p2}
    Cpus = {0, 1, 2}
    CoresNeeded <- MCCoresNeeded
    EnergyMod = 3
    EnergyAtStart = 2
    MaxWork = 2
INVARIANTS
    BillExact
    OffcoreExact
PROPERTY
    RetdExact
