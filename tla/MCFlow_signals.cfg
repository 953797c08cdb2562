\* A break in an operand, in a block.
SPECIFICATION Spec
CONSTANTS
    obj = obj
    null = null
    Constructs = {"binary", "block", "if", "break"}
    Instances <- OneObject
    NoInstance = null
    MaxStack = 4
    MaxChain = 6
    Structured = FALSE
    Faults = FALSE
    Builds = {"debug"}
PROPERTY SignalsPropagate
CHECK_DEADLOCK FALSE
