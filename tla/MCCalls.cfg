\* Calls end where a check fails.
SPECIFICATION Spec
CONSTANTS
    Names = {"x", "y"}
    Values = {fits, other}
    Fitting = {fits}
    Typed = {"x"}
    Usual = fits
    Params <- TwoAndOne
    Fields = {"x"}
    Instances = 1
    MaxCalls = 2
INVARIANTS TypeOK TypesEnforced ArgumentsAreTheCallers
PROPERTY DefaultsKept
CONSTRAINT MostlyUsual
CHECK_DEADLOCK FALSE
