CONSTANTS
    Writers = {w1}
    Readers = {r1}
    Keys = {4096, 262144}
    Values = {v1, v2}
    Tables = {0, 1}
    TableOf <- AsBuiltTableOf
    HomeOf <- AsBuiltHomeOf
    ReadTableOf <- AsBuiltReadTableOf
    ReadHomeOf <- AsBuiltReadHomeOf
    Size = 48
    UninitKeys = {0}
    None = None
    Uninit = Uninit
SPECIFICATION Spec
INVARIANTS
    FoundAfterFill
CHECK_DEADLOCK FALSE
