\* Three programs, of which one may be started again.
SPECIFICATION FairSpec
CONSTANTS
    p1 = p1
    p2 = p2
    p3 = p3
    Progs = {p1, p2, p3}
    GangSize = 1
    FdsNr = 64
    Prompt = TRUE
    Respawns = 2
    Configs <- MCConfigs
    Registered <- MCRegistered
    MayFail = {p2}
    MayKill = {p1}
INVARIANTS
    HandshakeSound
    IdsSound
    OneRequest
PROPERTIES
    StartsEnd
    RequestAnswered
