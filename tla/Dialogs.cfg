CONSTANTS
    Sym <- MCSym
    SymType <- MCType
    ConstSym <- MCConst
    StrOrder <- MCStrings
    NumberOf <- MCNumber
    ModulesSym = "MODULES"
    ChoiceSyms = {"C"}
    Optional = {}
    SymOrder <- MCOrder
    Format <- MCFormat
    tree <- MCTree
    Symbols <- SymbolsAfter
    Tristates = {"T", "C", "X", "Z", "G"}
    Strings = {"I"}
    NewSyms <- NewSymbols
    ConfRead <- Read
    ConfWrite <- WriteConfig
    SymCalc <- Calc
    SymCanBe <- CanSetTristate
    SymSetTristate <- SetTristate
    SymToggle <- ToggleTristate
    SymStringCanBe <- StringWithinRange
    SymSetString <- SetString
    MenuItems <- Built
    ChoiceItems <- ListedValues
    JumpTargets <- Jumps
    FirstConfig <- MCConfig
    Names <- MCNames
    Unwritable = {"gone"}
    Answers = {"2", "x"}
    Width <- MCWidth
    HelpLines = 2
    Results <- MCResults
    Sizes = {9, 17, 21}
    ListHeight = 6
    BoxWidth = 2
    MaxLen = 2
    MaxDepth = 2
    MaxEdits = 1
    MaxChanges = 2
SPECIFICATION Spec
INVARIANTS
    ScreenIsTrue
    EndsSaved
PROPERTIES
    CursorKept
CHECK_DEADLOCK FALSE
