CONSTANTS
    Roots = {r1, r2}
    NULL = NULL
SPECIFICATION Spec
SYMMETRY Symmetry
INVARIANTS
    TrustsOnlyGiven
    ConfigComplete
PROPERTIES
    FailureChangesNothing
