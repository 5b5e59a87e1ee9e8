SPECIFICATION LiveSpec
CONSTANTS
    x = x
    y = y
    IDs = {a}
    Names = {x, y}
    MaxRank = 1
    wine_compatibility_mode = TRUE
    null = null
    disabled_error = disabled_error
    invalid_error = invalid_error
    Contents <- AllContents
    SubdirIDs = {}
    FsOps = {"IN_MODIFY", "IN_DELETE", "IN_MOVED_TO", "IN_MOVED_FROM"}
    QuietStart = TRUE
    QueueSize = 3
    MaxChanges = 5
\* once the file system is quiet and the changes are applied, nothing happens
CHECK_DEADLOCK FALSE
INVARIANTS
    LiveTypeOK
    NothingStale
PROPERTIES
    FollowsDisk
