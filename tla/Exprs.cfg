CONSTANTS
    Sym <- MCSym
    SymType <- MCType
    ConstSym <- MCConst
    StrOrder <- MCStrings
    NumberOf <- MCNumber
    Conditions <- MCConditions
    Others <- MCOthers
    Env <- MCEnv
    MaxSize = 3
SPECIFICATION Spec
INVARIANTS
    SimplifyingKeepsValue
    EqualMeansSameValue
    SubmenuTestsAreSound
    PrintedReadsBack
CHECK_DEADLOCK FALSE
