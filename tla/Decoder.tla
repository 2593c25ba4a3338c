------------------------------ MODULE Decoder ------------------------------
(***************************************************************************)
(* FastBranchDecoder and the instruction objects (instruction_decode.cc,   *)
(* decodes/decode_system_branch.cc, decodes/decode_data_process_imm.cc,    *)
(* instruction_aarch64.cc).  One instruction word in memory is decoded     *)
(* into an object, the object is edited through its setters, and Assemble  *)
(* writes it over the word.                                                *)
(***************************************************************************)
EXTENDS A64Word

CONSTANTS
    Words,      \* the words memory may hold at first
    Offsets,    \* arguments of SetOffset
    Imms,       \* arguments of SetImm
    Codes,      \* codes of the registers the setters are given
    Conds       \* arguments of SetCond

ASSUME WordsAssumption == Words \subseteq Word
ASSUME ArgumentsAssumption ==
    /\ Offsets \subseteq Int /\ Offsets # {}
    /\ Imms \subseteq Imm16
    /\ Codes \subseteq 0..31
    /\ Conds \subseteq 0..15

VARIABLES
    word,       \* *pc_, the instruction in memory
    instr,      \* the object Decode returned, or Null
    step        \* "fetched", "decoded" or "assembled"

vars == <<word, instr, step>>

Null == [class |-> "null"]

XREG(code) == [x |-> TRUE, code |-> code]
WREG(code) == [x |-> FALSE, code |-> code]
Reg(is64, code) == IF is64 THEN XREG(code) ELSE WREG(code)

(***************************************************************************)
(* The decode tree: the class of the object and its opcode; None where the *)
(* code returns nullptr, UN_DECODED where it does not set an opcode.       *)
(***************************************************************************)
Object(class, op) == [class |-> class, op |-> op]
None == Object("null", "INVALID")

\* A plausible mistake: the bits after the register are not looked at.
DecodeBranchRegBug(w) ==
    LET opc == Get(w, "bch_ucond_opc")
    IN CASE opc = 0 -> Object("Branches", "BR")
         [] opc = 1 -> Object("Branches", "BLR")
         [] opc = 2 -> Object("Branches", "RET")
         [] OTHER -> None

DecodeBranchReg(w) ==
    LET opc == Get(w, "bch_ucond_opc")
    IN CASE \/ Get(w, "bch_ucond_op2") # 31
            \/ Get(w, "bch_ucond_op3") # 0
            \/ Get(w, "bch_ucond_op4") # 0 -> None
         [] OTHER ->
              CASE opc = 0 -> Object("Branches", "BR")
                [] opc = 1 -> Object("Branches", "BLR")
                [] opc = 2 -> Object("Branches", "RET")
                [] opc = 4 /\ Get(w, "Rn") = 31 -> Object("Branches", "ERET")
                [] opc = 5 /\ Get(w, "Rn") = 31 -> Object("Branches", "DRPS")
                [] OTHER -> None

DecodeSystemAndBranch(w) ==
    LET op0 == Get(w, "sys_bch_op0")
        op1 == Get(w, "sys_bch_op1")
    IN CASE op0 = 2 ->
              IF Get(w, "bch_cond_type") = 1 \/ 4 \in w \/ 24 \in w
              THEN None ELSE Object("Branches", "B_cond")
         [] op0 = 6 /\ op1 > 7 -> DecodeBranchReg(w)
         [] op0 = 6 /\ op1 < 4 -> Object("ExpGen", "UN_DECODED")
         [] op0 = 6 /\ op1 = 4 -> Object("System", "UN_DECODED")
         [] op0 \in {0, 4} -> Object("Branches", IF 31 \in w THEN "BL" ELSE "B")
         [] op0 \in {1, 5} /\ op1 < 8 ->
              Object("Branches", IF 24 \in w THEN "CBNZ" ELSE "CBZ")
         [] op0 \in {1, 5} /\ op1 >= 8 ->
              Object("Branches", IF 24 \in w THEN "TBNZ" ELSE "TBZ")
         [] OTHER -> None

\* A plausible mistake: every second shift is refused.
DecodeMovWideBug(w) ==
    IF Get(w, "mov_imm_hw") % 2 = 1 \/ Get(w, "mov_imm_opc") = 1 THEN None
    ELSE Object("MovWide",
                <<"MOVN", "none", "MOVZ", "MOVK">>[Get(w, "mov_imm_opc") + 1])

DecodeMovWide(w) ==
    LET opc == Get(w, "mov_imm_opc")
        is64 == Get(w, "addsub_imm_update_64bit") = 1
    IN IF (~is64 /\ Get(w, "mov_imm_hw") > 1) \/ opc = 1 THEN None
       ELSE Object("MovWide", <<"MOVN", "none", "MOVZ", "MOVK">>[opc + 1])

\* A plausible mistake: the ranges of a 32 bit field are not checked.
DecodeBitFieldBug(w) ==
    IF Get(w, "opc") = 3 THEN None
    ELSE Object("BitField", <<"SBFM", "BFM", "UBFM">>[Get(w, "opc") + 1])

DecodeBitField(w) ==
    LET opc == Get(w, "opc")
    IN IF \/ Get(w, "sf") # Get(w, "N")
          \/ opc = 3
          \/ Get(w, "sf") = 0 /\ (Get(w, "immr") > 31 \/ Get(w, "imms") > 31)
       THEN None
       ELSE Object("BitField", <<"SBFM", "BFM", "UBFM">>[opc + 1])

DecodeDPImm(w) ==
    LET type == Get(w, "dp_type")
        opc == Get(w, "opc")
    IN CASE type \in {0, 1} ->
              Object("PCRelAdr", IF Get(w, "adr_page") = 1 THEN "ADRP" ELSE "ADR")
         [] type \in {2, 3} ->
              IF Get(w, "shift") > 1 THEN None
              ELSE Object("AddSubImmediate",
                          <<"ADD_imm", "ADDS_imm", "SUB_imm", "SUBS_imm">>[opc + 1])
         [] type = 4 ->
              IF Get(w, "sf") # 1 /\ Get(w, "N") = 1 THEN None
              ELSE Object("LogicalImmediate",
                          <<"AND_imm", "ORR_imm", "EOR_imm", "ANDS_imm">>[opc + 1])
         [] type = 5 -> DecodeMovWide(w)
         [] type = 6 -> DecodeBitField(w)
         [] type = 7 ->
              IF Get(w, "sf") = 1 /\ opc = 0 /\ Get(w, "o0") = 0
              THEN Object("Extract", "EXTR") ELSE None

\* The switch of FastBranchDecoder::Decode.  DecodeDPReg returns nullptr, and
\* its case falls through.
Tree(w) ==
    LET type == Get(w, "instr_type_1")
    IN CASE type \in {8, 9} -> DecodeDPImm(w)
         [] type \in {5, 13, 10, 11} -> DecodeSystemAndBranch(w)
         [] OTHER -> None


(***************************************************************************)
(* Disassemble: the set of the operands an object of this class may hold   *)
(* afterwards, empty where the code returns false.                         *)
(***************************************************************************)
\* DECODE_OFFSET and ENCODE_OFFSET.
DecodeOffset(w, f, bits, ext) == SignExtend(Get(w, f) * 2^ext, bits + ext)
EncodeOffset(offset, bits, ext) == TruncateSTo(offset \div 2^ext, bits)

\* GetLogicalImmediate, as the one of the 64 bit values that N, imms and immr
\* stand for: runs of S + 1 ones in elements of 2^length bits, rotated by R.
Ones == <<>>
LogicalImmediate(w) ==
    LET size == 64 * Get(w, "N") + 63 - Get(w, "imms")
        length == Max({k \in 0..6 : 2^k <= size \/ k = 0})
        S == Get(w, "imms") % 2^length
    IN IF S = 2^length - 1 THEN Ones
       ELSE <<length, S, Get(w, "immr") % 2^length>>

BranchOperands(op, w) ==
    CASE op = "B_cond" ->
           {[cond |-> Get(w, "cond"), link |-> FALSE,
             offset |-> DecodeOffset(w, "bch_cond_offset", 19, 2)]}
      [] op \in {"B", "BL"} ->
           {[link |-> op = "BL",
             offset |-> DecodeOffset(w, "bch_ucond_offset", 26, 2)]}
      [] op \in {"CBZ", "CBNZ"} ->
           {[rt |-> XREG(Get(w, "Rt")), link |-> FALSE,
             offset |-> DecodeOffset(w, "bch_ucond_offset", 26, 2)]}
      [] op \in {"BR", "BLR"} ->
           {[rn |-> XREG(Get(w, "Rn")), link |-> op = "BLR"]}
      [] op = "RET" -> {[link |-> FALSE]}
      [] OTHER -> {}

SystemOperands(op, w) ==
    IF op \in {"MRS", "MSR_imm", "MSR_reg"}
    THEN {[rt |-> XREG(Get(w, "Rd")), system_register |-> Get(w, "system_register")]}
    ELSE {<<>>}

\* offset_ <<= A64_PAGE_SIZE shifts 64 bits by 8192: any value may result.
PCRelOperands(op, w) ==
    LET imm == Get(w, "immhi") * 4 + Get(w, "immlo")
    IN {[backup |-> w, offset |-> IF op = "ADR" THEN SignExtend(imm, 21) ELSE o] :
          o \in Offsets}

AddSubOperands(w) ==
    LET is64 == Get(w, "addsub_imm_update_64bit") = 1
    IN {[is_sub |-> Get(w, "addsub_imm_update_sub") = 1,
         update_flag |-> Get(w, "addsub_imm_update_flag") = 1,
         imm |-> Get(w, "dp_imm") * (IF Get(w, "shift") = 1 THEN 4096 ELSE 1),
         rd |-> Reg(is64, Get(w, "Rd")), rn |-> Reg(is64, Get(w, "Rn"))]}

Operands(class, op, w) ==
    CASE class = "Branches" -> BranchOperands(op, w)
      [] class = "ExpGen" -> {[imm |-> Get(w, "imm16")]}
      [] class = "System" -> SystemOperands(op, w)
      [] class = "PCRelAdr" -> PCRelOperands(op, w)
      [] class = "AddSubImmediate" -> AddSubOperands(w)
      [] class = "MovWide" ->
           {[rd |-> Reg(Get(w, "addsub_imm_update_64bit") = 1, Get(w, "Rd")),
             imm |-> Get(w, "imm16"), shift |-> Get(w, "hw") * 16]}
      [] class = "LogicalImmediate" ->
           {[rd |-> Reg(Get(w, "sf") = 1, Get(w, "Rd")),
             logical |-> LogicalImmediate(w)]}
      [] class = "BitField" ->
           {[R |-> Get(w, "immr"), S |-> Get(w, "imms"),
             rd |-> Reg(Get(w, "sf") = 1, Get(w, "Rd")),
             rn |-> Reg(Get(w, "sf") = 1, Get(w, "Rn"))]}
      [] class = "Extract" -> {[backup |-> w]}
      [] OTHER -> {}

\* InstrA64BitField::Disassemble ends without a return: its caller may see
\* either result.
MayRefuse(class) == class = "BitField"

(***************************************************************************)
(* Assemble: the word that is left in memory.                              *)
(***************************************************************************)
PutReg(w, f, reg) == Put(w, f, reg.code)

AssembledBranch(op, o) ==
    LET w == OpcodeBits(op)
    IN CASE op = "B_cond" ->
              Put(Put(w, "cond", o.cond),
                  "bch_cond_offset", EncodeOffset(o.offset, 19, 2))
         [] op \in {"B", "BL"} ->
              Put(w, "bch_ucond_offset", EncodeOffset(o.offset, 26, 2))
         [] op \in {"CBZ", "CBNZ"} ->
              Put(PutReg(w, "Rt", o.rt),
                  "bch_cond_offset", EncodeOffset(o.offset, 19, 2))
         [] op \in {"BR", "BLR"} -> PutReg(w, "Rn", o.rn)
         [] OTHER -> w

AssembledAddSub(op, o) ==
    LET s == Put(OpcodeBits(op), "addsub_imm_update_sub", IF o.is_sub THEN 1 ELSE 0)
        b == Put(s, "addsub_imm_update_64bit", IF o.rd.x THEN 1 ELSE 0)
        f == Put(b, "addsub_imm_update_flag", IF o.update_flag THEN 1 ELSE 0)
    IN PutReg(PutReg(f, "Rd", o.rd), "Rn", o.rn)

AssembledMovWide(op, o) ==
    LET w == Put(Put(OpcodeBits(op), "imm16", o.imm), "hw", o.shift \div 16)
    IN Put(PutReg(w, "Rd", o.rd), "sf", IF o.rd.x THEN 1 ELSE 0)

\* IsImmLogical refuses all ones, when the opcode has been written already.
AssembledLogical(op, o) ==
    LET w == OpcodeBits(op)
        length == o.logical[1]
        imms == ((-(2^(length + 1))) % 64) + o.logical[2]
    IN IF o.logical = Ones THEN w
       ELSE PutReg(Put(Put(Put(w, "N", IF length = 6 THEN 1 ELSE 0),
                           "imms", imms), "immr", o.logical[3]), "Rd", o.rd)

AssembledBitField(op, o) ==
    LET w == Put(Put(OpcodeBits(op), "immr", o.R), "imms", o.S)
    IN PutReg(PutReg(Put(w, "sf", IF o.rd.x THEN 1 ELSE 0), "Rd", o.rd), "Rn", o.rn)

Assembled(i) ==
    LET o == i.operands
    IN CASE i.class = "Branches" -> AssembledBranch(i.op, o)
         [] i.class = "ExpGen" -> Put(OpcodeBits(i.op), "imm16", o.imm)
         [] i.class = "System" ->
              IF "rt" \notin DOMAIN o THEN OpcodeBits(i.op)
              ELSE Put(PutReg(OpcodeBits(i.op), "Rd", o.rt),
                       "system_register", o.system_register)
         [] i.class \in {"PCRelAdr", "Extract"} -> o.backup
         [] i.class = "AddSubImmediate" -> AssembledAddSub(i.op, o)
         [] i.class = "MovWide" -> AssembledMovWide(i.op, o)
         [] i.class = "LogicalImmediate" -> AssembledLogical(i.op, o)
         [] i.class = "BitField" -> AssembledBitField(i.op, o)

(***************************************************************************)
(* The life of an instruction.                                             *)
(***************************************************************************)
Init == word \in Words /\ instr = Null /\ step = "fetched"

\* FastBranchDecoder::Decode.
Decode ==
    /\ step # "decoded"
    /\ LET tree == Tree(word)
           op == IF tree.op = "UN_DECODED" THEN DecodeOpCode(word, tree.class)
                 ELSE tree.op
       IN \/ /\ op # "INVALID"
             /\ \E o \in Operands(tree.class, op, word) :
                  instr' = [class |-> tree.class, op |-> op, operands |-> o]
          \/ /\ \/ op = "INVALID"
                \/ Operands(tree.class, op, word) = {}
                \/ MayRefuse(tree.class)
             /\ instr' = Null
    /\ step' = "decoded"
    /\ UNCHANGED word

Set(name, v) ==
    /\ step = "decoded"
    /\ instr # Null
    /\ name \in DOMAIN instr.operands
    /\ instr' = [instr EXCEPT !.operands[name] = v]
    /\ UNCHANGED <<word, step>>

SetOffset == \E offset \in Offsets : Set("offset", offset)
SetCond == \E cond \in Conds : Set("cond", cond)
SetImm ==
    /\ instr # Null /\ instr.class \in {"ExpGen", "MovWide"}
    /\ \E imm \in Imms : Set("imm", imm)

\* SetRt, SetRn and SetRd; the width of the register is not changed.
SetReg ==
    \E name \in {"rt", "rn", "rd"}, code \in Codes :
        /\ instr # Null /\ name \in DOMAIN instr.operands
        /\ instr.class = "AddSubImmediate" => name = "rd"
        /\ Set(name, [instr.operands[name] EXCEPT !.code = code])

Assemble ==
    /\ step = "decoded"
    /\ instr # Null
    /\ word' = Assembled(instr)
    /\ step' = "assembled"
    /\ UNCHANGED instr

Next == Decode \/ SetOffset \/ SetCond \/ SetImm \/ SetReg \/ Assemble

Spec == Init /\ [][Next]_vars

(***************************************************************************)
(* Properties                                                              *)
(***************************************************************************)
Decoded(op) == step = "decoded" /\ instr # Null /\ instr.op = op
DecodedAs(class) == step = "decoded" /\ instr # Null /\ instr.class = class

Register == [x : BOOLEAN, code : 0..31]

\* The object is one that the decoder makes, with operands in their ranges.
TypeOK ==
    /\ word \in Word
    /\ step \in {"fetched", "decoded", "assembled"}
    /\ instr # Null =>
         /\ instr.op \in Opcodes \cup {"none"}
         /\ \A n \in DOMAIN instr.operands :
              LET v == instr.operands[n]
              IN CASE n = "cond" -> v \in 0..15
                   [] n \in {"rt", "rn", "rd"} -> v \in Register
                   [] n = "shift" -> v \in {0, 16, 32, 48}
                   [] n \in {"R", "S"} -> v \in 0..(IF instr.operands.rd.x THEN 63 ELSE 31)
                   [] n = "logical" -> v = Ones \/ v[2] < 2^v[1] - 1
                   [] n = "system_register" -> v \in SysRegs
                   [] OTHER -> TRUE

\* What the tree answers agrees with the instruction table: the word has the
\* bits of the opcode's row.  Left out is where it does not: words of data
\* processing (register), which fall through to the branches, B.cond
\* (CondBranchByRow), opcodes that come from the mirrored table, and extracts,
\* where the tree looks at bit 19 instead of 21.
TreeAgrees ==
    step = "decoded" /\ instr # Null =>
      \/ Matches(word, RowOf[instr.op])
      \/ Get(word, "instr_type_1") \in {5, 13}
      \/ instr.op \in {"B_cond", "EXTR"}
      \/ instr.class \in {"ExpGen", "System"}

\* The rows every word of which is decoded, and as that row.  MOVN is not one:
\* DecodeMovWide takes bit 30 for the width, which is 0 in every word of MOVN,
\* and refuses those with an hw of 2 or 3, of an X register too.
CompleteRows ==
    {"B", "BL", "BR", "BLR", "RET", "CBZ", "CBNZ", "ADR", "ADRP", "ADD_imm",
     "ADDS_imm", "SUB_imm", "SUBS_imm", "MOVZ", "MOVK"}
Complete ==
    step = "decoded" =>
      \A op \in CompleteRows : Matches(word, RowOf[op]) => Decoded(op)

\* Disassemble of what Assemble wrote gives the operands of the object, edited
\* or not, as far as Assemble writes them and they fit in their fields.
WrittenOperands(i) ==
    CASE i.op \in {"CBZ", "CBNZ"} -> {"rt"}
      [] i.class = "AddSubImmediate" -> {"is_sub", "update_flag", "rd", "rn"}
      [] i.class \in {"PCRelAdr", "Extract"} -> {}
      [] i.class = "LogicalImmediate" /\ i.operands.logical = Ones -> {}
      [] OTHER -> DOMAIN i.operands
Fits(i, n) ==
    CASE n = "offset" ->
           LET bound == 2^(IF i.op = "B_cond" THEN 20 ELSE 27)
           IN i.operands.offset % 4 = 0 /\ i.operands.offset \in -bound..bound - 1
      [] OTHER -> TRUE
OperandsReadBack ==
    step = "assembled" =>
      \E o \in Operands(instr.class, instr.op, word) :
        \A n \in WrittenOperands(instr) :
          Fits(instr, n) =>
            IF n \in {"rt", "rn", "rd"} THEN o[n].code = instr.operands[n].code
            ELSE o[n] = instr.operands[n]

\* "1xxx - Unallocated", "0xxx - Conditional branch (immediate)"
\* (decode_system_branch.cc:19): just the words of the row of B.cond are
\* decoded as conditional branches.
CondBranchByRow ==
    step = "decoded" => (Decoded("B_cond") <=> Matches(word, RowOf["B_cond"]))
============================================================================
