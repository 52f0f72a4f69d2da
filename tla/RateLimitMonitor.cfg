SPECIFICATION FairSpec
CONSTANTS
    p1 = p1
    Procs = {p1}
    Tokens = {1, 2}
    Senders = {{1}}
    Limit <- IpOnly
    Window = 1
    FailWindow = 2
    Steps <- LateSteps
    Mode = "monitor"
    Faults = {"lose"}
    MaxHits = 3
INVARIANTS
    MonitorServes
    KeysExpire
PROPERTIES
    BlockNeverShortened
    BlockEarned
    LimitLifts
    EveryRequestAnswered
