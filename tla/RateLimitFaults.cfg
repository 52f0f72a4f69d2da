SPECIFICATION Spec
CONSTANTS
    p1 = p1
    p2 = p2
    Procs = {p1, p2}
    Tokens = {1, 2}
    Senders = {{1, 2}}
    Limit <- IpOnly
    Window = 1
    FailWindow = 1
    Steps <- OneStep
    Mode = "enforce"
    Faults = {"crash", "reject"}
    MaxHits = 1
SYMMETRY Symmetry
INVARIANTS
    IInv
    LimitHolds
    BlockedNeverServed
