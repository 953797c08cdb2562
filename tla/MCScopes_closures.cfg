\* Functions that are arguments of functions, no run-time errors.
SPECIFICATION Spec
CONSTANTS
    x = x
    y = y
    Inside <- FunctionArguments
    Names = {x}
    Natives <- None
    Faults = FALSE
    Builds = {"debug", "release"}
    MaxStack = 4
    MaxScopes = 4
    MaxParams = 1
    MaxTrash = 2
    MaxCount = 4
INVARIANTS NoDanglingLookup
CHECK_DEADLOCK FALSE
