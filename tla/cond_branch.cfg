SPECIFICATION PartsSpec
CONSTANTS
    Words <- FewWords
    Offsets = {0}
    Imms = {}
    Codes = {}
    Conds = {}
    LogX = 4
INVARIANTS
    CondBranchByRow
CHECK_DEADLOCK FALSE
