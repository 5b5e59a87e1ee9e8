SPECIFICATION Spec
CONSTANTS
    IDs = {a, b}
    Names = {x, y}
    MaxRank = 1
    wine_compatibility_mode = FALSE
    null = null
    disabled_error = disabled_error
    invalid_error = invalid_error
SYMMETRY Symmetry
\* abort() ends the program
CHECK_DEADLOCK FALSE
INVARIANTS
    NeverAborts
