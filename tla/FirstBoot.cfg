SPECIFICATION FairSpec
CONSTANTS
    Backups = {b1, b2}
    Tarball = TRUE
    Overlay = FALSE
    HoldSeconds = 2
    MaxCuts = 2
    MaxResets = 1
INVARIANTS LostOnlyInWindows ResetErasesUserData
PROPERTIES DefaultsNeverOverUserData ResetTakesEffect
