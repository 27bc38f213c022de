SPECIFICATION Spec
CONSTANTS
    Pages = {1, 2, 3}
    Writers = {w1, w2}
    MaxWrites = 3
    SealValues = {1}
    NoOne = NoOne
INVARIANTS
    TypeOK
    PinsMatchDirty
PROPERTIES
    TmpfsRefined
