------------------------------ MODULE A64Word ------------------------------
(***************************************************************************)
(* Instruction words, their fields and the instruction table               *)
(* (instruction_fields.h, fields_table.inl, instruction_table.*,           *)
(* instructions_table_all.inl, base/marcos.h).  A word is the set of the   *)
(* bits that are 1.  Loads and stores are not in this table: the decoder   *)
(* that is modelled does not reach them.                                   *)
(***************************************************************************)
EXTENDS Integers, Sequences, FiniteSetsExt

Word == SUBSET (0..31)

\* Bit b of a word, and the number that the 32 bits from b on stand for.
Bit(w, b) == IF b \in w THEN 1 ELSE 0
Bits2(w, b) == Bit(w, b) + 2 * Bit(w, b + 1)
Bits4(w, b) == Bits2(w, b) + 4 * Bits2(w, b + 2)
Bits8(w, b) == Bits4(w, b) + 16 * Bits4(w, b + 4)
Bits16(w, b) == Bits8(w, b) + 256 * Bits8(w, b + 8)
Bits32(w, b) == Bits16(w, b) + 65536 * Bits16(w, b + 16)

\* The bits lo to hi of a word as a number, and a number as bits lo to hi;
\* a negative number is taken in two's complement.
Bits(w, lo, hi) == Bits32(w \cap (lo..hi), lo)
OfNumber(v, lo, hi) == {b \in lo..hi : (v \div 2^(b - lo)) % 2 = 1}

\* A plausible mistake: the sign is taken from the bit above.
SignExtendBug(v, size) ==
    LET low == v % 2^(size + 1)
    IN IF low >= 2^size THEN low - 2^(size + 1) ELSE low

\* SignExtend<s32, size> and TruncateSTo<size>.
SignExtend(v, size) ==
    LET low == v % 2^size
    IN IF low >= 2^(size - 1) THEN low - 2^size ELSE low

TruncateSTo(v, size) == v % 2^size

\* fields_table.inl, first and last bit of the fields that are used.
Fields ==
    [cond |-> <<0, 3>>, instr_type_1 |-> <<25, 28>>,
     sys_bch_op0 |-> <<29, 31>>, sys_bch_op1 |-> <<22, 25>>,
     bch_cond_type |-> <<22, 22>>, bch_ucond_opc |-> <<21, 24>>,
     bch_ucond_op2 |-> <<16, 20>>, bch_ucond_op3 |-> <<10, 15>>,
     bch_ucond_op4 |-> <<0, 4>>, bch_ucond_offset |-> <<0, 25>>,
     bch_cond_offset |-> <<5, 23>>, exp_gen_ll |-> <<0, 1>>,
     system_register |-> <<5, 19>>, o0 |-> <<19, 19>>,
     dp_imm |-> <<10, 21>>, dp_type |-> <<23, 25>>,
     addsub_imm_update_flag |-> <<29, 29>>,
     addsub_imm_update_sub |-> <<30, 30>>,
     addsub_imm_update_64bit |-> <<30, 30>>,
     mov_imm_opc |-> <<29, 30>>, mov_imm_hw |-> <<21, 22>>,
     adr_page |-> <<31, 31>>, hw |-> <<21, 22>>, opc |-> <<29, 30>>,
     shift |-> <<22, 23>>, sf |-> <<31, 31>>, Rt |-> <<0, 4>>,
     Rd |-> <<0, 4>>, Rn |-> <<5, 9>>, immlo |-> <<29, 30>>,
     immhi |-> <<5, 23>>, imms |-> <<10, 15>>, immr |-> <<16, 21>>,
     imm16 |-> <<5, 20>>, N |-> <<22, 22>>]

Get(w, f) == Bits(w, Fields[f][1], Fields[f][2])
Put(w, f, v) ==
    LET lo == Fields[f][1]  hi == Fields[f][2]
    IN (w \ (lo..hi)) \cup OfNumber(v, lo, hi)

\* The values of the fields imm16 and system_register.
Imm16 == 0..65535
SysRegs == 0..32767

\* A row of the table: an opcode, its type and the bits of its mask string
\* that are not x, with bit 31 the first character, as <<lo, hi, value>>.
Row(op, type, fixed) == [op |-> op, type |-> type, fixed |-> fixed]

Table == <<
    Row("B_cond", "Branches", {<<24, 31, 84>>, <<4, 4, 0>>}),
    Row("BR", "Branches", {<<10, 31, 3508160>>, <<0, 4, 0>>}),
    Row("BLR", "Branches", {<<10, 31, 3510208>>, <<0, 4, 0>>}),
    Row("RET", "Branches", {<<10, 31, 3512256>>, <<0, 4, 0>>}),
    Row("ERET", "Branches", {<<10, 31, 3516352>>, <<0, 9, 992>>}),
    Row("DRPS", "Branches", {<<10, 31, 3518400>>, <<0, 9, 992>>}),
    Row("B", "Branches", {<<26, 31, 5>>}),
    Row("BL", "Branches", {<<26, 31, 37>>}),
    Row("CBZ", "Branches", {<<24, 30, 52>>}),
    Row("CBNZ", "Branches", {<<24, 30, 53>>}),
    Row("TBZ", "Branches", {<<24, 31, 54>>}),
    Row("TBNZ", "Branches", {<<24, 31, 55>>}),
    Row("SVC", "ExpGen", {<<20, 31, 3392>>, <<0, 4, 1>>}),
    Row("HVC", "ExpGen", {<<20, 31, 3392>>, <<0, 4, 2>>}),
    Row("SMC", "ExpGen", {<<20, 31, 3392>>, <<0, 4, 3>>}),
    Row("BRK", "ExpGen", {<<20, 31, 3394>>, <<0, 4, 0>>}),
    Row("HLT", "ExpGen", {<<20, 31, 3396>>, <<0, 4, 0>>}),
    Row("DCPS1", "ExpGen", {<<20, 31, 3402>>, <<0, 4, 1>>}),
    Row("DCPS2", "ExpGen", {<<20, 31, 3402>>, <<0, 4, 2>>}),
    Row("DCPS3", "ExpGen", {<<20, 31, 3402>>, <<0, 4, 3>>}),
    Row("MRS", "System", {<<20, 31, 3411>>}),
    Row("MSR_imm", "System", {<<19, 31, 6816>>, <<12, 15, 4>>, <<0, 4, 31>>}),
    Row("MSR_reg", "System", {<<20, 31, 3409>>}),
    Row("NOP", "System", {<<10, 31, 3489992>>, <<0, 9, 31>>}),
    Row("YIELD", "System", {<<10, 31, 3489992>>, <<0, 9, 63>>}),
    Row("ADR", "PCRelAdr", {<<31, 31, 0>>, <<24, 28, 16>>}),
    Row("ADRP", "PCRelAdr", {<<31, 31, 1>>, <<24, 28, 16>>}),
    Row("ADD_imm", "AddSubImmediate", {<<23, 30, 34>>}),
    Row("ADDS_imm", "AddSubImmediate", {<<23, 30, 98>>}),
    Row("SUB_imm", "AddSubImmediate", {<<23, 30, 162>>}),
    Row("SUBS_imm", "AddSubImmediate", {<<23, 30, 226>>}),
    Row("MOVN", "MovWide", {<<23, 30, 37>>}),
    Row("MOVZ", "MovWide", {<<23, 30, 165>>}),
    Row("MOVK", "MovWide", {<<23, 30, 229>>}),
    Row("AND_imm", "LogicalImmediate", {<<23, 30, 36>>}),
    Row("ORR_imm", "LogicalImmediate", {<<23, 30, 100>>}),
    Row("EOR_imm", "LogicalImmediate", {<<23, 30, 164>>}),
    Row("ANDS_imm", "LogicalImmediate", {<<23, 30, 228>>}),
    Row("SBFM", "LogicalImmediate", {<<23, 30, 38>>}),
    Row("BFM", "LogicalImmediate", {<<23, 30, 102>>}),
    Row("UBFM", "LogicalImmediate", {<<23, 30, 166>>}),
    Row("EXTR", "LogicalImmediate", {<<23, 30, 39>>, <<21, 21, 0>>})>>

Opcodes == {Table[i].op : i \in DOMAIN Table}
RowOf == [op \in Opcodes |-> CHOOSE r \in {Table[i] : i \in DOMAIN Table} : r.op = op]

\* The word has the bits of the row, as the row is written.
Matches(w, row) == \A f \in row.fixed : Bits(w, f[1], f[2]) = f[3]

\* ParseMaskValuePair puts character i of the mask string at bit i.
Mirror(w) == {31 - b : b \in w}
Test(w, row) == Matches(Mirror(w), row)
OpcodeBits(op) == Mirror(UNION {OfNumber(f[3], f[1], f[2]) : f \in RowOf[op].fixed})

\* DecodeOpCode: the first row of the type that fits.  For type Invalid the
\* whole table is searched, whose first entry, INVALID, has an empty mask.
DecodeOpCode(w, type) ==
    LET hits == {i \in DOMAIN Table : Table[i].type = type /\ Test(w, Table[i])}
    IN IF type = "Invalid" \/ hits = {} THEN "INVALID" ELSE Table[Min(hits)].op
============================================================================
