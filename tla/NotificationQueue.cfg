SPECIFICATION FairSpec
CONSTANTS
    p1 = p1
    p2 = p2
    n1 = n1
    t1 = t1
    t2 = t2
    Mail = Mail
    None = None
    Procs = {p1, p2}
    Ids = {n1}
    Tokens = {t1, t2}
    Attempts = 3
    MaxStalled = 1
    MaxCrashes = 1
    Faults = {"send", "call", "stall"}
CHECK_DEADLOCK FALSE
INVARIANTS
    IInv
    StatusTrue
    MailsBounded
    TokensBounded
PROPERTIES
    StatusFinal
    JobEnds
    StatusSettles
