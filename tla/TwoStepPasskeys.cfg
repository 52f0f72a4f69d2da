SPECIFICATION Spec
CONSTANTS
    p1 = p1
    p2 = p2
    k1 = k1
    Procs = {p1, p2}
    Ops = {"update", "askreg", "askauth", "add", "sign"}
    Kinds = {"AUTHENTICATOR"}
    Creds = {k1}
    Solo = {"promote", "sign"}
    MaxMethods = 0
    MaxChallenges = 2
    MaxCount = 1
    Faults = {"call", "lose", "crash"}
SYMMETRY Symmetry
INVARIANTS
    IInv
PROPERTIES
    ImplementsOneTime
    
