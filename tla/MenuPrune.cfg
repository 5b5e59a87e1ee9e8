SPECIFICATION MenuSpec
CONSTANTS
    n1 = n1
    n2 = n2
    n3 = n3
    id1 = id1
    id2 = id2
    id3 = id3
    Names = {n1, n2, n3}
    Cut <- MCCut
    FirstLine <- MCFirstLine
    EndsReading = {n3}
    IDs = {id1, id2, id3}
    lookup_by_ID <- MCLookup
    null = null
    BufferLines = 1
    MaxV0Lines = 2
    MaxCount = 3
    MaxCrashes = 0
    Sorted <- MCSorted
    Folded <- CaseSensitive
    exclude_generic = FALSE
    prune = TRUE
    no_exec = FALSE
    wait_on = FALSE
\* without --wait-on the program ends after the first menu
CHECK_DEADLOCK FALSE
INVARIANTS
    PruneRemovesAll
