\* Two programs under linux, of which one reaches its target.
SPECIFICATION Spec
CONSTANTS
    p1 = p1
    p2 = p2
    p3 = p3
    Progs = {p1, p2}
    GangSize = 2
    FdsNr = 64
    Prompt = TRUE
    Respawns = 0
    Configs <- MCLinux
    Registered <- MCRegistered
    MayFail = {}
    MayKill = {p1}
INVARIANT
    HandleNamesProgram
