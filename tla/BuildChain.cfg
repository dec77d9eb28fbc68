SPECIFICATION FairSpec
CONSTANTS
    a = a
    b = b
    c = c
    Missing = Missing
    Packages = {a, b, c}
    Recipes <- AllRecipes
    Finals = {c}
    MaxJobs = 2
    Unknown = {Missing}
    Junk = Junk
INVARIANTS
    PlainIsDep
    CompilesOnDeps
    CircularIsReal
    CheckedIsAcyclic
    ChainIsOrdered
CHECK_DEADLOCK FALSE
PROPERTIES
    Completes
