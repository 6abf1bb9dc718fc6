\* fair: a program that ends while it is being measured.
CONSTANTS
    a = a
    b = b
    c = c
    d = d
    Slots = {a, b, c}
    Workloads <- JustFair
    Late = {}
    Short <- ShortA
    Exits = 1
    Rest = 0
    Cycles = 1000
    Target <- Targets
    Rate <- Rates
    Need <- One
    MaxCores = 2
    Bw <- Heavy
    Llc <- Two
    BwLimit = 9
    BwReserve = 1
    BwSlack = 0
    LlcLimit = 3
    LlcSlack = 1
SPECIFICATION Spec
INVARIANT
    DivisionDefined
