SPECIFICATION Spec
CONSTANTS
    p1 = p1
    p2 = p2
    k1 = k1
    Procs = {p1, p2}
    Ops = {"create", "update", "delete", "code", "askreg", "add"}
    Kinds = {"AUTHENTICATOR", "PASSKEYS"}
    Creds = {k1}
    Solo = {"promote", "sign"}
    MaxMethods = 1
    MaxChallenges = 1
    MaxCount = 0
    Faults = {"call"}
SYMMETRY Symmetry
INVARIANTS
    OnePrimary
