SPECIFICATION Spec
CONSTANTS
    p1 = p1
    p2 = p2
    a = a
    Procs = {p1, p2}
    Types = {a}
    Ops = {"create", "verify"}
    Callers = {FALSE}
    MaxOtps = 3
    MaxNow = 0
    Limit = 2
    Attempts = 2
    OtpTtl = 1
    Hold = 1
    Day = 1
    Faults = FALSE
SYMMETRY Symmetry
INVARIANTS
    Inductive
    GuessesBounded
