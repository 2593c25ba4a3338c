---------------------------- MODULE GuestMachine ----------------------------
(***************************************************************************)
(* What the code generated around guest instructions promises: of the      *)
(* guest's registers, its stack and its pc, one translated operation       *)
(* changes only what the operation is for, or the thread stops.            *)
(* GuestContext implements it.                                             *)
(***************************************************************************)
CONSTANTS
    Regs,       \* codes of the general registers
    Sysregs,    \* thread registers an instruction may read
    SysVal(_),  \* what they hold
    Vals,       \* values an instruction may put into a register
    Pcs         \* guest addresses a dispatch may record

VARIABLE guest  \* [x, q, sp, stack, pc] as the guest sees them

Write(r, val) == guest' = [guest EXCEPT !.x[r] = val]

\* MRS of a thread register; an instruction copied or a constant moved in.
ReadSysreg == \E r \in Regs, w \in Sysregs : Write(r, SysVal(w))
WriteRegister == \E r \in Regs, val \in Vals : Write(r, val)
RecordPc == \E pc \in Pcs : guest' = [guest EXCEPT !.pc = pc]

GuestSpec == [][ReadSysreg \/ WriteRegister \/ RecordPc]_guest
=============================================================================
