CONSTANTS
    Threads = {t1, t2}
    Sources = {4, 8}
    Lengths = {1, 2, 3}
    StubLengths = {1}
    Alignments = {4}
    MaxSize = 2
    MaxBuffer = 7
    DispatcherCount = 7
    FirstOffset = 2
    JunkOffsets = {0}
    MaxOffset = 10
    MaxAllocs = 8
    None = None
SPECIFICATION Spec
SYMMETRY Permutable
INVARIANTS
    PublishedCodeIntact
CHECK_DEADLOCK FALSE
