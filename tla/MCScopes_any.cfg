\* Any program, with run-time errors.  A trap or the exit stops the process.
SPECIFICATION Spec
CONSTANTS
    x = x
    y = y
    Inside <- AnyProgram
    Names = {x}
    Natives <- None
    Faults = TRUE
    Builds = {"debug", "release"}
    MaxStack = 3
    MaxScopes = 4
    MaxParams = 1
    MaxTrash = 2
    MaxCount = 3
INVARIANTS TypeOK CountsCoverHandles StrongCountsExact AssertionsHold
CHECK_DEADLOCK FALSE
