\* Two calls, each a body or a batch of pairs, of one pooled worker.
SPECIFICATION Spec
CONSTANTS
    Platforms = {"linux", "windows", "macos"}
    CallKinds = {"body", "pairs"}
    MaxCalls = 2
    MaxDeaths = 1
    MaxStarts = 1
    Cancels = TRUE
INVARIANTS
    ReplyIsOwn
    BatchIsWhole
    IdleIsClean
PROPERTIES
    RepeatedOnce
    CallEnds
CHECK_DEADLOCK FALSE
