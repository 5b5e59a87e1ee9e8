SPECIFICATION StartupSpec
CONSTANTS
    IDs <- MCIDs
    Names <- MCNames
    MaxRank = 3
    wine_compatibility_mode = FALSE
    null = null
    disabled_error = disabled_error
    invalid_error = invalid_error
    Inputs <- MCInputs
\* the startup ends
CHECK_DEADLOCK FALSE
INVARIANTS
    StartupTypeOK
    EachFileOnce
    DirectoryPrecedence
    BestTranslation
    ShownWhereItSays
