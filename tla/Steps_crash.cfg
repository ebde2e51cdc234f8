SPECIFICATION Spec
CONSTANTS
    MaxRevisionId = 4
    UndoLimit = 2
    Snapshots = {s1}
    Programs = {q1}
    Names = {n1}
    Sides = {d1, d2}
    StepRoom = 3
    Budget = 9
    None = None
    Torn = Torn
INVARIANT NoStepAfterUnreadable
PROPERTY ImplementsAtomicCheckpoint
