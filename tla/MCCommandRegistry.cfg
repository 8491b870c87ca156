SPECIFICATION Spec
CONSTANTS
    Declarations <- MCDeclarations
    MaxDeclarations = 5
    Orders <- MCOrders
INVARIANTS OffersTheClosure ConflictsAreReal EveryFunctionRuns
CHECK_DEADLOCK FALSE
