\* Two sessions on two files, and one with every fault.
SPECIFICATION Spec
CONSTANTS
    Sessions = {s1, s2}
    Paths = {p, q}
    MaxRevision = 3
    Scenarios <- RecoveryScenarios
    Absent = Absent
    Damaged = Damaged
    None = None
SYMMETRY SessionSymmetry
INVARIANTS
    TypeOK
    NoWorkLost
    OneOwner
PROPERTY
    NoLostUpdate
