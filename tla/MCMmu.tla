------------------------------- MODULE MCMmu -------------------------------
(* Instances of Mmu for TLC, with the numbers of the code.                 *)
EXTENDS Mmu, TLC

CONSTANT AddrWidth      \* addr_width_
PageBits == 12          \* PAGE_BITS
TlbBits  == 16          \* the TLB of an MMU

(* all_page_bits is the BitRange of an address from PageBits to            *)
(* sizeof(AddrType) - AddrWidth - 1.  Bitmask shifts by the difference,    *)
(* which is negative; the shift instruction takes it modulo 64.            *)
MaskBits == (8 * 64 + 8 - AddrWidth - PageBits) % 64
PteBits  == (AddrWidth - PageBits) \div 2

KeptPage(p) == IF MaskBits >= 30 THEN p ELSE p % 2^MaskBits

BuiltTableOf    == [p \in Pages |-> KeptPage(p) \div 2^PteBits]
BuiltSlotOf     == [p \in Pages |-> KeptPage(p)]
BuiltTlbIndexOf == [p \in Pages |-> p % 2^TlbBits]

Permutable == Permutations(Ptes)
============================================================================
