SPECIFICATION Spec
CONSTANTS
    p1 = p1
    p2 = p2
    p3 = p3
    i1 = i1
    NoId = NoId
    Procs = {p1, p2, p3}
    Ids = {i1}
    Ops = {"register", "google", "login", "reset", "recover", "patch", "delete"}
    Faults = {"save", "call", "crash"}
SYMMETRY Symmetry
INVARIANTS
    IInv
    RegisteredIsComplete
    FirstLoginActivates
PROPERTIES
    ImplementsLifecycle
