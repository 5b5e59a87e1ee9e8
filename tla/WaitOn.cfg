SPECIFICATION Spec
CONSTANTS
    w1 = w1
    w2 = w2
    w3 = w3
    Writers = {w1, w2, w3}
    Byte <- ThirdQuits
    is_i3 = FALSE
\* with all requests made, the daemon waits in poll()
CHECK_DEADLOCK FALSE
INVARIANTS
    TypeOK
    WaitsForChildren
PROPERTIES
    AppsReaped
    HangupCleared
    AlwaysPolls
