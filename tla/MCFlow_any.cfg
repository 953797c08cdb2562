\* Any program, with run-time errors, both builds.  A trap stops the process.
SPECIFICATION Spec
CONSTANTS
    obj = obj
    null = null
    Constructs <- AllConstructs
    Instances <- OneObject
    NoInstance = null
    MaxStack = 3
    MaxChain = 4
    Structured = FALSE
    Faults = TRUE
    Builds = {"debug", "release"}
INVARIANTS TypeOK ScopesNest SavedIntact PanicIffSignal
CHECK_DEADLOCK FALSE
