SPECIFICATION Spec
CONSTANTS
    None = None
    NoFile = NoFile
    Numbers <- MCNumbers
    IsExpr <- WellFormed
    NamesIn <- Symbols
    Eval <- ExprValue
    EntriesBelow <- SubEntries
    Projects <- LoadProjects
INVARIANTS
    SaveIsOffered
CHECK_DEADLOCK FALSE
