SPECIFICATION FairSpec
CONSTANTS
    p1 = p1
    f1 = f1
    f2 = f2
    Procs = {p1}
    Prints = {f1, f2}
    Ops = {"login", "refresh", "signout", "remove"}
    SignOuts = 1
    MaxVersion = 2
    MaxSessions = 2
    MaxRows = 2
    MaxDevices = 2
    Faults = {"call", "save"}
INVARIANTS
    
    DevicesBounded
PROPERTIES
    EveryRequestEnds
    StoredCleared
