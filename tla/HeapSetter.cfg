CONSTANTS
    Cells = {c1, c2}
    Default = Default
    DefaultMap = DefaultMap
    TypeType = TypeType
    TypeDef = TypeDef
    NULL = NULL
    AnySetter = TRUE
    Programs <- MCPointers
SYMMETRY Symmetry
SPECIFICATION Spec
INVARIANT
    NeverBelowCyclicCount
