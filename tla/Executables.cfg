SPECIFICATION I3Spec
CONSTANTS
    Inputs <- MCInputs
    Replies <- MCReplies
    SocketPaths = {"killed", "status", "empty", "no_newline", "too_long", "usable"}
\* a choice is executed once
CHECK_DEADLOCK FALSE
INVARIANTS
    TypeOK
    RunsTheCommand
    CustomTermAssembled
    UserArgumentsPassed
    I3GetsCommand
    NeverWaitsForMore
    ReportedTruthfully
PROPERTIES
    ValidNeverThrows
    SplitsLikeShell
    ExpandsOnlyExec
    QueryResolved
