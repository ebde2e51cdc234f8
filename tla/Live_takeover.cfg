\* Clients take a window over from each other while their requests run.
SPECIFICATION Spec
CONSTANTS
    Clients = {a1, a2}
    Conns = {c1, c2}
    MaxRequests = 2
    MaxEpoch = 2
    MaxDocuments = 1
    QueueCapacity = 2
    Scenarios = {{"edit", "read", "slow", "launched"},
                 {"program", "disconnect", "launched"},
                 {"program", "slow"},
                 {"program", "gone"},
                 {"drawings", "slow", "user"},
                 {"drawings", "slow", "open"},
                 {"drawings", "gone"},
                 {"sheet", "slow", "open"},
                 {"sheet", "gone"}}
    None = None
SYMMETRY ClientSymmetry
INVARIANTS
    ToldTruth
    SettingsPutBack
    AttachedIsReal
PROPERTY
    RevokedStaysRevoked
CHECK_DEADLOCK FALSE
