SPECIFICATION FairSpec
CONSTANTS
    p1 = p1
    a = a
    Procs = {p1}
    Types = {a}
    Ops = {"create", "resend", "verify"}
    Callers = {FALSE, TRUE}
    MaxOtps = 2
    MaxNow = 2
    Limit = 1
    Attempts = 2
    OtpTtl = 1
    Hold = 1
    Day = 2
    Faults = TRUE
INVARIANTS
    Inductive
    LiveCodesBounded
    AttemptBudget
    AcceptedOnce
    LimitedWhileHeld
PROPERTIES
    ExpiredIsFinal
    ExpiredCleared
    EveryRequestEnds
