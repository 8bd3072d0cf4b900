CONSTANTS
    Sym <- MCSym
    SymType <- MCType
    ConstSym <- MCConst
    StrOrder <- MCStrings
    NumberOf <- MCNumber
    ModulesSym = "MODULES"
    ChoiceSyms = {"C"}
    Optional = {}
    SymOrder <- MCOrder
    Format <- MCFormat
    tree <- MCTree
    Files <- MCFiles
    Seeds <- MCSeeds
    Picks <- MCPicks
    Answers = {"1", "2"}
    Plans <- MCPlans
    MaxEdits = 1
    MaxCrashes = 1
SPECIFICATION Spec
INVARIANTS
    SavedReadsBack
    CacheIsCurrent
    ChoiceHasOne
    AskedEverything
PROPERTIES
    FilesInOrder
CHECK_DEADLOCK FALSE
