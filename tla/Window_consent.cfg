\* Settings change between the consent and the close it allows.
SPECIFICATION Spec
CONSTANTS
    MaxHistory = 1
    MaxSettings = 1
    Home = p
    Paths = {p}
    Lockless = {}
    Scenarios = {{"settings"}}
    Absent = Absent
    Foreign = Foreign
    None = None
CHECK_DEADLOCK FALSE
INVARIANT ConsentCoversVisibleWork
