SPECIFICATION Spec
CONSTANTS
    o1 = o1
    o2 = o2
    Operators = {o1, o2}
    Settings <- SomeSettings
    Messages <- SomeMessages
    MaxRules = 2
    MaxEdits = 2
    MaxFailures = 0
    MaxStops = 0
INVARIANTS ReloadShowsTable
