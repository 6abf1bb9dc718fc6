SPECIFICATION FairSpec
CONSTANTS
    s1 = s1
    s2 = s2
    s3 = s3
    Slots = {s1, s2, s3}
    One = 2
    Times <- Mixed
    MaxRekills = 2
    MaxExtra = 1
    MaxPrinted = 2
INVARIANTS
    LeftExact
    FilesUsedWhileOpen
    ExitComplete
    TimesReached
PROPERTY
    Termination
