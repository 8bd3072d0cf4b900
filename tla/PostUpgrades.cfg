SPECIFICATION Spec
CONSTANTS
    Versions = {1, 2, 3, 4}
    Installed = 2
    Scripts <- MCScripts
    EarlyUpgrades = FALSE
INVARIANTS RecordKept BootedUpToDate
PROPERTIES OrderKept
