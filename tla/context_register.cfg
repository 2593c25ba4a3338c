SPECIFICATION Spec
CONSTANTS
    Regs <- AllRegs
    MaxOps = 1
    CtxPtr = CtxPtr
    TlsPtr = TlsPtr
    HostSp = HostSp
    LowSp = LowSp
    Junk = Junk
    Flags = Flags
    RetAddr = RetAddr
    New = New
CHECK_DEADLOCK FALSE
INVARIANTS
    ContextWhileUsed
