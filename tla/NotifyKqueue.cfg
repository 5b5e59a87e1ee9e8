SPECIFICATION Spec
CONSTANTS
    NDirs = 2
    Files = {f, g}
    MaxFs = 3
INVARIANTS
    TypeOK
PROPERTIES
    ImplementsChangeFeed
    ThreadCatchesUp
    ReadableIsServed
