CONSTANTS
    Cells = {c1, c2, c3, c4}
    Default = Default
    DefaultMap = DefaultMap
    TypeType = TypeType
    TypeDef = TypeDef
    NULL = NULL
    AnySetter = FALSE
    Programs <- MCPrograms
SYMMETRY Symmetry
SPECIFICATION Spec
INVARIANTS
    TypeOK
    
    NoDangling
    
    
