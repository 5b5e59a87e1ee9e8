SPECIFICATION Spec
CONSTANTS
    NDirs = 2
    Files = {f}
    MaxFs = 3
INVARIANTS
    FdReadable
