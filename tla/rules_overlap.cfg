SPECIFICATION Spec
CONSTANTS
    o1 = o1
    o2 = o2
    Operators = {o1, o2}
    Settings <- SomeSettings
    Messages <- SomeMessages
    MaxRules = 3
    MaxEdits = 3
    MaxFailures = 2
    MaxStops = 1
SYMMETRY OperatorSymmetry
INVARIANTS RuleTypeOK DecidedByOneConfiguration LoneReloadShowsTable
