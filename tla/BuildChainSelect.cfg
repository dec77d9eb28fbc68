SPECIFICATION FairSpec
CONSTANTS
    a = a
    b = b
    c = c
    Missing = Missing
    Packages = {a, b, c}
    Recipes <- SelectRecipes
    Finals = {}
    MaxJobs = 2
    Unknown = {Missing}
    Junk = Junk
INVARIANTS
    SelectedIsDep
CHECK_DEADLOCK FALSE
