\* A builtin type with one native function, no run-time errors.  The exit stops the process.
SPECIFICATION Spec
CONSTANTS
    x = x
    y = y
    Inside <- NativeMethods
    Names = {x}
    Natives <- OneNative
    Faults = FALSE
    Builds = {"debug", "release"}
    MaxStack = 3
    MaxScopes = 5
    MaxParams = 0
    MaxTrash = 2
    MaxCount = 4
INVARIANTS CountsCoverHandles StrongCountsExact
CHECK_DEADLOCK FALSE
CONSTRAINT OneLiteral
