SPECIFICATION Spec
CONSTANTS
    p1 = p1
    p2 = p2
    f1 = f1
    Procs = {p1, p2}
    Prints = {f1}
    Ops = {"login", "signout"}
    SignOuts = 2
    MaxVersion = 2
    MaxSessions = 2
    MaxRows = 0
    MaxDevices = 0
    Faults = {}
INVARIANTS
    TokensEnd
SYMMETRY Symmetry
