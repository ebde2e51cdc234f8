\* A pending cleanup of one session against the recovery of another.
SPECIFICATION Spec
CONSTANTS
    Sessions = {s1, s2}
    Paths = {p, q}
    MaxRevision = 2
    Scenarios <- CleanupScenarios
    Absent = Absent
    Damaged = Damaged
    None = None
INVARIANT
    ExclusiveBranch
