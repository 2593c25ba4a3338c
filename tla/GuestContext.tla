---------------------------- MODULE GuestContext ----------------------------
(***************************************************************************)
(* The instructions that DBI::A64::Context (dbi_context_arm64.cc) and      *)
(* QuickContext (context_new.cc) emit around and for guest instructions,   *)
(* executed one at a time: they borrow a register for the address of the   *)
(* CPUContext, keep the guest's value of it there, and give it back.       *)
(*                                                                         *)
(* A Context is of one kind:                                               *)
(*   "NoMemTrace"    x16 is borrowed for each operation (LoadContext)      *)
(*   "WithMemTrace"  x16 always holds the address, the guest's x16 is in   *)
(*                   the CPUContext                                        *)
(*   "Quick"         x17 is borrowed (LoadContextPtr)                      *)
(*                                                                         *)
(* The instructions are those of a build without VIXL's assertions.  A     *)
(* thread stops at an instruction that faults: one that accesses memory    *)
(* through an sp that is not a multiple of 16, or the CPUContext through a *)
(* register that does not hold its address.                                *)
(***************************************************************************)
EXTENDS Integers, Sequences

CONSTANTS
    Regs,           \* codes of the general registers
    MaxOps,         \* bound: operations of one run
    CtxPtr, TlsPtr, \* addresses of the CPUContext and of the host's TLS
    HostSp,         \* top of host_stack_
    LowSp,          \* the low 32 bits of the guest's sp
    Junk,           \* memory and slots nobody has written
    Flags,          \* NZCV
    RetAddr,        \* what Bl leaves in the link register
    New             \* a value the guest computes, a guest address

ASSUME RegsAssumption == {0, 1, 16, 17, 30} \subseteq Regs /\ Regs \subseteq 0..30
ASSUME MaxOpsAssumption == MaxOps \in Nat

VARIABLES
    kind,       \* the class of the Context
    m,          \* the machine: registers, q0, sp, stack and CPUContext
    code,       \* the emitted instructions still to be executed
    seen,       \* what the guest saw when they began
    op,         \* the operation they are emitted for
    mode,       \* "guest", "fault" or "undefined"
    ops         \* operations begun

vars == <<kind, m, code, seen, op, mode, ops>>

LR == 30
CTX == IF kind = "Quick" THEN 17 ELSE 16    \* reg_ctx_, context_reg
TMP0 == IF kind = "Quick" THEN 16 ELSE 17   \* reg_forward_

\* Words of the CPUContext (cpu_arm64.h): the general registers, and these at
\* their offset in bytes, divided by 8.
SP == 31
PC == 32
PSTATE == 33
TPIDR == 103
TPIDRRO == 104
HOST_SP == 105
SUSPEND == 109
FORWARD == 110
FORWARD_EXT == 111
TMP_LR == 112
Words == Regs \cup {SP, PC, PSTATE, TPIDR, TPIDRRO, HOST_SP, SUSPEND, FORWARD,
                   FORWARD_EXT, TMP_LR}

\* Bytes of the guest's stack, relative to its sp between operations; below
\* it is what LoadContext and signal handlers may write.
StackSlots == {-16, -8, 0, 8}

(***************************************************************************)
(* Instructions, and what they do to the machine.                          *)
(***************************************************************************)
Ins(name, r, w) == [name |-> name, r |-> r, w |-> w]
Str(r, w) == Ins("str", r, w)
Ldr(r, w) == Ins("ldr", r, w)
Mov(r, val) == Ins("mov", r, val)

\* Offsets of 16 bytes that one load or store can encode: multiples of 16, and
\* those up to 255.
Encodable(w) == w % 2 = 0 \/ 8 * w <= 255

\* A Register made by its default constructor: VIXL encodes a load or store
\* of it as one of q0, 16 bytes (StoreOpFor), and a move of it as one of w0.
\* If the offset cannot be encoded, it goes through VIXL's first scratch
\* register, x16, of which nobody has told VIXL that it may be CTX.
NoReg(name, w) ==
    IF Encodable(w) THEN <<Ins(name, 0, w)>>
    ELSE <<Mov(16, 8 * w), Ins(name, 0, w)>>

StrNoReg(w) == NoReg("strq", w)
LdrNoReg(w) == NoReg("ldrq", w)

UsesContext(i) == i.name \in {"str", "ldr", "strq", "ldrq", "stm"}
UsesStack(i) == i.name \in {"push", "pop"}
Faults(i) ==
    \/ UsesContext(i) /\ m.x[CTX] # CtxPtr
    \/ UsesStack(i) /\ m.sp % 16 # 0

Exec(s, i) ==
    CASE i.name = "str" -> [s EXCEPT !.ctx[i.w] = s.x[i.r]]
      [] i.name = "ldr" -> [s EXCEPT !.x[i.r] = s.ctx[i.w]]
      [] i.name = "strq" -> [s EXCEPT !.ctx[i.w] = s.q[1], !.ctx[i.w + 1] = s.q[2]]
      [] i.name = "ldrq" -> [s EXCEPT !.q = <<s.ctx[i.w], s.ctx[i.w + 1]>>]
      [] i.name = "stm" ->
           [s EXCEPT !.ctx = [w \in Words |-> IF w \in i.r THEN s.x[w] ELSE s.ctx[w]]]
      [] i.name = "push" -> [s EXCEPT !.sp = @ - 8, !.stack[s.sp - 8] = s.x[i.r]]
      [] i.name = "pop" -> [s EXCEPT !.sp = @ + 8, !.x[i.r] = s.stack[s.sp]]
      [] i.name = "ldtls" -> [s EXCEPT !.x[i.r] = CtxPtr]
      [] i.name = "mov" -> [s EXCEPT !.x[i.r] = i.w]

(***************************************************************************)
(* The sequences.                                                          *)
(***************************************************************************)
\* Mrs, and the load of the slot of the TLS that holds the address.
MrsTls == <<Mov(CTX, TlsPtr), Ins("ldtls", CTX, 0)>>

\* A plausible mistake: what has been pushed stays on the stack.
LoadContextBug ==
    IF kind = "WithMemTrace" THEN <<>>
    ELSE <<Ins("push", CTX, 0)>> \o MrsTls \o <<Str(TMP0, TMP0), Ldr(TMP0, TMP0)>>

LoadContext ==
    IF kind = "WithMemTrace" THEN <<>>
    ELSE <<Ins("push", CTX, 0)>>
         \o MrsTls
         \o <<Str(TMP0, TMP0), Ins("pop", TMP0, 0), Str(TMP0, CTX), Ldr(TMP0, TMP0)>>

ClearContext == IF kind = "WithMemTrace" THEN <<>> ELSE <<Ldr(CTX, CTX)>>

\* WrapContext<0> and WrapContext<1>: GetTmpRegisters stops one register
\* short, so that the last temporary is a Register never assigned, and its
\* slot is that of code 0.
Wrap0(body) == LoadContext \o body \o ClearContext

\* A plausible mistake: the temporary is not kept.
Wrap1Bug(body) == LoadContext \o body \o LdrNoReg(0) \o ClearContext
Wrap1(body) == LoadContext \o StrNoReg(0) \o body \o LdrNoReg(0) \o ClearContext

LoadFromContext(r, w) ==
    IF r = CTX THEN Wrap1(LdrNoReg(w) \o StrNoReg(r)) ELSE Wrap0(<<Ldr(r, w)>>)

SavePc(pc) == <<Mov(TMP0, pc), Str(TMP0, PC)>>

\* A plausible mistake: TMP0 is not given back.
AfterDispatchBug(pc) == Wrap0(SavePc(pc))
AfterDispatch(pc) == Wrap0(SavePc(pc) \o <<Ldr(TMP0, TMP0)>>)

\* BeforeDispatch, the target in TMP0, AfterDispatch.
Dispatch(pc) == <<Str(TMP0, TMP0), Mov(TMP0, New)>> \o AfterDispatch(pc)

\* SaveContextFull(), n = 30, and SaveContextCallerSaved(), n = 20, up to the
\* load of HOST_SP, whose offset cannot be encoded for 16 bytes: the thread
\* stops there, if LoadContext has not stopped it.
Saved(n) == {r \in Regs : r < n} \ {CTX}
SaveContext(n) ==
    LoadContext
    \o StrNoReg(0) \o <<Ins("stm", Saved(n), 0), Str(LR, TMP_LR)>>
    \o <<Mov(0, Flags), Str(0, PSTATE)>>                   \* Mrs(tmp[0].W(), NZCV)
    \o <<Mov(0, LowSp)>> \o StrNoReg(SP)                   \* PushSp(tmp[0])
    \o LdrNoReg(HOST_SP)                                   \* PopSp(tmp[0], HOST_SP)

\* A plausible mistake: the link register is not kept for Bl.
CallStubBug(n) == <<Mov(LR, RetAddr)>> \o SaveContext(n)
CallStub(n) == <<Str(LR, LR), Mov(LR, RetAddr)>> \o SaveContext(n)

\* CallSvc(0): a Mov of 0 to the unassigned temporary emits nothing.
CallSvc ==
    LoadContext \o StrNoReg(0) \o StrNoReg(FORWARD) \o LdrNoReg(0) \o CallStub(30)

\* What follows Bl is left out: the stub does not come back.
CheckSuspend(r) == <<Ldr(r, SUSPEND), Ins("cbz", r, 0)>> \o CallStub(30)
CheckSpec == <<Ins("tbz", 0, 0)>> \o CallStub(20)

(***************************************************************************)
(* Operations                                                              *)
(***************************************************************************)
Op(name, r, w) == [name |-> name, r |-> r, w |-> w]

\* Registers an instruction copied or a constant may go to: with memory
\* tracing nothing rewrites instructions that use x16.
Free == IF kind = "WithMemTrace" THEN Regs \ {CTX} ELSE Regs

OpsOf(k) ==
    CASE k = "NoMemTrace" ->
           [name : {"ReadTPIDR"}, r : Regs, w : {TPIDR, TPIDRRO}]
           \cup [name : {"Emit"}, r : Free, w : {New}]
           \cup {Op("AfterDispatch", 0, New), Op("CallSvc", 0, 0)}
      [] k = "WithMemTrace" ->
           [name : {"ReadTPIDR"}, r : Regs, w : {TPIDR, TPIDRRO}]
           \cup [name : {"Emit"}, r : Free, w : {New}]
           \cup [name : {"CheckSuspend"}, r : Free, w : {0}]
           \cup {Op("Dispatch", 0, New), Op("CallSvc", 0, 0), Op("CheckSpec", 0, 0)}
      [] k = "Quick" ->
           [name : {"Emit"}, r : Free, w : {New}] \cup {Op("Hook", 0, 0)}

Sequence(o) ==
    CASE o.name = "ReadTPIDR" -> LoadFromContext(o.r, o.w)
      [] o.name = "Emit" -> <<Mov(o.r, o.w)>>
      [] o.name = "AfterDispatch" -> AfterDispatch(o.w)
      [] o.name = "Dispatch" -> Dispatch(o.w)
      [] o.name = "CallSvc" -> CallSvc
      [] o.name = "CheckSuspend" -> CheckSuspend(o.r)
      [] o.name = "CheckSpec" -> CheckSpec
      [] o.name = "Hook" -> LoadContext \o ClearContext

\* GetTmpRegisters<0> stores registers into an array of none.
Undefined(o) ==
    \/ o.name = "ReadTPIDR" /\ o.r # CTX
    \/ o.name \in {"AfterDispatch", "Dispatch"}

(***************************************************************************)
(* What the guest sees.                                                    *)
(***************************************************************************)
View ==
    [x |-> IF kind = "WithMemTrace" THEN [m.x EXCEPT ![CTX] = m.ctx[CTX]] ELSE m.x,
     q |-> m.q, sp |-> m.sp,
     stack |-> [a \in {0, 8} |-> m.stack[a]],
     pc |-> m.ctx[PC]]

Init ==
    /\ kind \in {"NoMemTrace", "WithMemTrace", "Quick"}
    /\ m = [x |-> [r \in Regs |-> IF kind = "WithMemTrace" /\ r = CTX THEN CtxPtr ELSE 100 + r],
            q |-> <<200, 201>>,
            sp |-> 0,
            stack |-> [a \in StackSlots |-> IF a < 0 THEN Junk ELSE 300 + a],
            ctx |-> [w \in Words |->
                       CASE w = HOST_SP -> HostSp
                         [] w = SUSPEND -> 0
                         [] w \in {TPIDR, TPIDRRO} -> 400 + w
                         [] w = CTX /\ kind = "WithMemTrace" -> 100 + w
                         [] OTHER -> Junk]]
    /\ code = <<>> /\ seen = View /\ op = Op("none", 0, 0)
    /\ mode = "guest" /\ ops = 0

Begin ==
    /\ mode = "guest" /\ code = <<>> /\ ops < MaxOps
    /\ \E o \in OpsOf(kind) :
         /\ op' = o
         /\ \/ code' = Sequence(o) /\ UNCHANGED mode
            \/ Undefined(o) /\ mode' = "undefined" /\ UNCHANGED code
    /\ seen' = View
    /\ ops' = ops + 1
    /\ UNCHANGED <<kind, m>>

\* The instructions that branch: the rest is skipped, or not.
Taken(i) == (i.name = "cbz" /\ m.x[i.r] = 0) \/ i.name = "tbz"
NotTaken(i) == (i.name = "cbz" /\ m.x[i.r] # 0) \/ i.name = "tbz"

Step ==
    /\ mode = "guest" /\ code # <<>>
    /\ LET i == Head(code)
       IN \/ Taken(i) /\ code' = <<>> /\ UNCHANGED <<m, mode>>
          \/ NotTaken(i) /\ code' = Tail(code) /\ UNCHANGED <<m, mode>>
          \/ Faults(i) /\ mode' = "fault" /\ UNCHANGED <<m, code>>
          \/ /\ i.name \notin {"cbz", "tbz"} /\ ~Faults(i)
             /\ m' = Exec(m, i) /\ code' = Tail(code) /\ UNCHANGED mode
    /\ UNCHANGED <<kind, seen, op, ops>>

\* A signal handler runs on the stack in use, below sp.
Signal ==
    /\ mode = "guest" /\ m.sp \in StackSlots
    /\ m' = [m EXCEPT !.stack = [a \in StackSlots |-> IF a < m.sp THEN Junk ELSE m.stack[a]]]
    /\ UNCHANGED <<kind, code, seen, op, mode, ops>>

\* Called by another thread.
SetSuspendFlag ==
    /\ mode = "guest"
    /\ \E flag \in {0, 1} : m' = [m EXCEPT !.ctx[SUSPEND] = flag]
    /\ UNCHANGED <<kind, code, seen, op, mode, ops>>

Next == Begin \/ Step \/ Signal \/ SetSuspendFlag

Spec == Init /\ [][Next]_vars

(***************************************************************************)
(* Properties                                                              *)
(***************************************************************************)
Values == Int \cup {CtxPtr, TlsPtr, HostSp, LowSp, Junk, Flags, RetAddr, New}

\* Registers and CPUContext stay what they are, and the guest's stack never
\* carries more than the one word that LoadContext borrows.
TypeOK ==
    /\ kind \in {"NoMemTrace", "WithMemTrace", "Quick"}
    /\ m.x \in [Regs -> Values] /\ m.ctx \in [Words -> Values]
    /\ m.q \in Values \X Values
    /\ m.stack \in [StackSlots -> Values]
    /\ m.sp \in (IF code = <<>> THEN {0} ELSE {-8, 0})
    /\ mode \in {"guest", "fault", "undefined"}
    /\ ops \in 0..MaxOps

\* What each operation that comes to its end leaves of the guest, whatever it
\* borrows: refinement of GuestMachine.
Guest == INSTANCE GuestMachine WITH
    Sysregs <- {TPIDR, TPIDRRO},
    SysVal <- LAMBDA w : 400 + w,
    Vals <- {New, 0, 1},
    Pcs <- {New},
    guest <- IF mode = "guest" /\ code = <<>> THEN View ELSE seen
ImplementsGuest == Guest!GuestSpec

\* Whatever a sequence borrows, and wherever it stops: what the guest had in a
\* register is there, in the register's slot or in the word pushed.  Left out
\* are registers that the operation is to change and CheckSuspend's temporary.
Target == IF op.name \in {"ReadTPIDR", "Emit", "CheckSuspend"} THEN {op.r} ELSE {}
Recoverable ==
    code # <<>> =>
      /\ \A r \in Regs \ Target :
           \/ seen.x[r] \in {m.x[r], m.ctx[r]}
           \/ m.sp < 0 /\ seen.x[r] = m.stack[m.sp]
      /\ seen.q \in {m.q, <<m.ctx[0], m.ctx[1]>>}

\* "Need keep CTX_REG" (dbi_context_arm64.cc:630): no emitted access to the
\* CPUContext goes through a register that does not hold its address.
ContextWhileUsed ==
    mode = "guest" /\ code # <<>> /\ UsesContext(Head(code)) => m.x[CTX] = CtxPtr

\* "it must be aligned to 16 bytes on entry" (macro-assembler-aarch64.h:809):
\* nothing is pushed or popped while sp is not.
StackAligned ==
    mode = "guest" /\ code # <<>> /\ UsesStack(Head(code)) => m.sp % 16 = 0
=============================================================================
