\* Programs without run-time errors whose signals are raised in statement position, debug build.
SPECIFICATION FairSpec
CONSTANTS
    obj = obj
    null = null
    Constructs <- AllConstructs
    Instances <- OneObject
    NoInstance = null
    MaxStack = 4
    MaxChain = 12
    Structured = TRUE
    Faults = FALSE
    Builds = {"debug"}
INVARIANTS NeverTraps
PROPERTIES SignalStopsEvaluation ImplementsControl SignalCaught
