CONSTANTS
    Sym <- MCSym
    SymType <- MCType
    ConstSym <- MCConst
    StrOrder <- MCStrings
    NumberOf <- MCNumber
    ModulesSym = "MODULES"
    ChoiceSyms = {"C"}
    Optional = {}
    Entries <- MCEntries
    Blocks <- MCBlocks
    SymOrder <- MCOrder
    Env <- MCEnv
    MaxEntries = 3
SPECIFICATION Spec
INVARIANTS
    ConditionsAsEnclosed
    TreeKeepsFiles
    SubmenusHideTogether
    RecursionReported
CHECK_DEADLOCK FALSE
