\* One window, what can happen around it, and what must happen.
SPECIFICATION Spec
CONSTANTS
    MaxHistory = 2
    MaxSettings = 1
    Home = p
    Paths = {p, q}
    Lockless = {p}
    Scenarios = {{"write", "published", "clear", "settings"},
                 {"outside", "elsewhere"}, {"clear", "elsewhere"},
                 {"write", "published", "nolocks", "settings"},
                 {"nolocks", "elsewhere"},
                 {"write", "panic"}, {"drawings"}}
    Absent = Absent
    Foreign = Foreign
    None = None
CHECK_DEADLOCK FALSE
INVARIANTS
    TypeOK
    CleanMeansSaved
    EditsOnDisk
    OwnsRecoveryBranch
    ClosingLosesNoEdit
PROPERTIES
    SaveEnds
    DeferredCloseAnswered
