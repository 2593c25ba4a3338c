CONSTANTS
    Readers = {r1, c1}
    Compiled = {c1}
    Pages = {1, 2, 4097, 65537}
    Ptes = {v1, v2}
    NoPte = NoPte
    JunkPtes = {NoPte, v1, v2}
    TableOf <- BuiltTableOf
    SlotOf <- BuiltSlotOf
    TlbIndexOf <- BuiltTlbIndexOf
    Serial = TRUE
    AddrWidth = 48
    Fresh = Fresh
    Miss = Miss
SPECIFICATION Spec
SYMMETRY Permutable
INVARIANTS
    TypeOK
    TlbCoherent
PROPERTIES
    ImplementsAddressSpace
