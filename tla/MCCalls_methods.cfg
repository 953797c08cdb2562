\* Methods whose parameter has the name of a field.
SPECIFICATION Spec
CONSTANTS
    Names = {"x", "y"}
    Values = {fits, other}
    Fitting = {fits}
    Typed = {"x"}
    Usual = fits
    Params <- TwoAndField
    Fields = {"x"}
    Instances = 1
    MaxCalls = 2
PROPERTY LocalThenInstance
CONSTRAINT MostlyUsual
CHECK_DEADLOCK FALSE
