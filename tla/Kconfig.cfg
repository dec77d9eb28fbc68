SPECIFICATION FairSpec
CONSTANTS
    None = None
    NoFile = NoFile
    Numbers <- MCNumbers
    IsExpr <- WellFormed
    NamesIn <- Symbols
    Eval <- ExprValue
    EntriesBelow <- SubEntries
    Projects <- MCProjects
INVARIANTS
    TypeOK
    DependencyKept
    RecursionIsCycle
    ValuesCurrent
    ChoiceOne
    WithinDeps
    ChangeableIsReached
    ReadBack
    MinimalBack
    UnsavedKnown
    ChangesAreTouched
PROPERTIES
    StoreImplemented
    ProgramImplemented
    SessionImplemented
    ProgramEnds
CHECK_DEADLOCK FALSE
