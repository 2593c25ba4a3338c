SPECIFICATION Spec
CONSTANTS
    Regs <- AllRegs
    MaxOps = 2
    CtxPtr = CtxPtr
    TlsPtr = TlsPtr
    HostSp = HostSp
    LowSp = LowSp
    Junk = Junk
    Flags = Flags
    RetAddr = RetAddr
    New = New
CHECK_DEADLOCK FALSE
INVARIANTS
    TypeOK
    Recoverable
PROPERTIES
    ImplementsGuest
