\* A job that may return, panic, run late or wait for the flag.
SPECIFICATION Spec
CONSTANT
    MaxProgress = 2
INVARIANTS
    TypeOK
    OneResult
    ToldWhy
PROPERTIES
    NoValueAfterCancel
    TaskEnds
CHECK_DEADLOCK FALSE
