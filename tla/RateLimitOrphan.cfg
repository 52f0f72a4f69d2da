SPECIFICATION FairSpec
CONSTANTS
    p1 = p1
    Procs = {p1}
    Tokens = {1, 2}
    Senders = {{1}}
    Limit <- IpOnly
    Window = 1
    FailWindow = 1
    Steps <- NoSteps
    Mode = "enforce"
    Faults = {"crash"}
    MaxHits = 3
PROPERTIES
    LimitLifts
