CONSTANTS
    Foreign = {0, 7012, 7121}
    Lens = {0, 1, 3, 4, 5, 7}
    TextLen = 4
    UsizeBits = 3
SPECIFICATION Spec
INVARIANTS
    VerdictReported
    TextTellsError
    
