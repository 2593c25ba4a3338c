SPECIFICATION PartsSpec
CONSTANTS
    Words <- AllWords
    Offsets <- EditOffsets
    Imms = {0, 65535}
    Codes = {0, 31}
    Conds = {1, 14}
    LogX = 4
INVARIANTS
    TypeOK
    TreeAgrees
    Complete
    OperandsReadBack
    AssembleKeepsImm
    RefusedOnlyUnencodable
    KeyIsImm
CHECK_DEADLOCK FALSE
