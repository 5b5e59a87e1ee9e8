SPECIFICATION MenuSpec
CONSTANTS
    n1 = n1
    n2 = n2
    n3 = n3
    id1 = id1
    id2 = id2
    id3 = id3
    Names = {n1, n2, n3}
    Cut <- MCCut
    FirstLine <- MCFirstLine
    EndsReading = {n3}
    IDs = {id1, id2, id3}
    lookup_by_ID <- MCLookup
    null = null
    BufferLines = 1
    MaxV0Lines = 2
    MaxCount = 3
    MaxCrashes = 2
    Sorted <- MCSorted
    Folded <- CaseSensitive
    exclude_generic = TRUE
    prune = TRUE
    no_exec = FALSE
    wait_on = TRUE
\* abort(), or a log that the constructor refuses, ends the program
CHECK_DEADLOCK FALSE
INVARIANTS
    MenuTypeOK
    NamesDistinct
    SavedIsRestored
    AllOrNothing
    MenuComplete
    HistoryInMenu
PROPERTIES
    ImplementsUsageLog
    UsedNamesKept
