\* One body of one worker that never dies: its mesh is asked for again all the same.
SPECIFICATION Spec
CONSTANTS
    Platforms = {"linux"}
    CallKinds = {"body"}
    MaxCalls = 1
    MaxDeaths = 0
    MaxStarts = 1
    Cancels = FALSE
PROPERTIES
    RepeatsOnlyLost
CHECK_DEADLOCK FALSE
