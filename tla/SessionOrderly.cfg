SPECIFICATION Spec
CONSTANTS
    p1 = p1
    p2 = p2
    f1 = f1
    Procs = {p1, p2}
    Prints = {f1}
    Ops = {"login", "refresh", "signout", "remove"}
    SignOuts = 1
    MaxVersion = 1
    MaxSessions = 1
    MaxRows = 1
    MaxDevices = 2
    Faults = {"save"}
SYMMETRY Symmetry
INVARIANTS
    IInv
    TokensEnd
