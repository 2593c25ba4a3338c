CONSTANTS
    Readers = {r1, c1}
    Compiled = {c1}
    Pages = {1, 2, 65537}
    Ptes = {v1, v2}
    NoPte = NoPte
    JunkPtes = {NoPte, v1, v2}
    TableOf <- BuiltTableOf
    SlotOf <- BuiltSlotOf
    TlbIndexOf <- BuiltTlbIndexOf
    Serial = FALSE
    AddrWidth = 36
    Fresh = Fresh
    Miss = Miss
SPECIFICATION Spec
SYMMETRY Permutable
PROPERTIES
    ImplementsAddressSpace
