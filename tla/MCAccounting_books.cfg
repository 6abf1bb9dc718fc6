\* A program of one core and one of two; the executor exits when no slot is
\* left, so a run may end.
SPECIFICATION Spec
CONSTANTS
    s1 = s1
    s3 = s3
    Slots = {s1, s3}
    Cores = 2
    CpusNr = 3
    CoresNeeded <- MCCoresNeeded
    Work = 2
    RespawnAbove = 0
    MaxTime = 5
INVARIANTS
    ClockExact
    TotalsAgree
    ChargedOwn
CHECK_DEADLOCK FALSE
