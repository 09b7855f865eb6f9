SPECIFICATION Spec
CONSTANTS
    Operators = {1, 2}
    Orders = {1, 2}
    Base = 2
    MaxCategories = 4
    Evaluators = {1, 2}
    Knowledge <- SomeKnowledge
    NegativeCases <- SomeNegatives
    Requests <- SomeRequests
    InitialCases <- SomeTables
    Found <- SomeAnswers
    Targets = {0, 1, 9}
    DefaultTarget = 2
    MaxTarget = 3
    MaxOperations = 2
    MaxEvalFailures = 1
INVARIANTS TreeIsSound ListingIsPreorder SeedReportsTable ListedRunsAreWhole QualityExplainsFailures
CHECK_DEADLOCK FALSE
