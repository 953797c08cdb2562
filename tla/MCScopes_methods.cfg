\* Methods of types and instances, no run-time errors in operands.  The exit stops the process.
SPECIFICATION Spec
CONSTANTS
    x = x
    y = y
    Inside <- Methods
    Names = {x, y}
    Natives <- None
    Faults = FALSE
    Builds = {"debug", "release"}
    MaxStack = 4
    MaxScopes = 7
    MaxParams = 0
    MaxTrash = 2
    MaxCount = 5
INVARIANTS CountsCoverHandles StrongCountsExact MethodScopesAlive OnlyCyclesLeak AssertionsHold
CHECK_DEADLOCK FALSE
CONSTRAINT OneInstance
SYMMETRY BothNames
