----------------------------- MODULE LogicalImm -----------------------------
(***************************************************************************)
(* The immediates of logical instructions (instruction_aarch64.cc:         *)
(* GetLogicalImmediate, IsImmLogical, InstrA64LogicalImm), for registers   *)
(* of XRegSize bits; the code has LogX = 6.  All arithmetic is unsigned,   *)
(* of XRegSize bits.                                                       *)
(***************************************************************************)
EXTENDS Integers, FiniteSetsExt

CONSTANT LogX      \* at least 2

XRegSize == 2^LogX
WRegSize == XRegSize \div 2
Modulus == 2^XRegSize
Values == 0..Modulus - 1

VARIABLES
    sf,         \* sf of the instruction
    fields,     \* its N, imms and immr
    is_x,       \* rd_ is an X register
    imm,        \* imm_
    step        \* "fetched", "decoded", "assembled" or "refused"

vars == <<sf, fields, is_x, imm, step>>

Fields == [N : 0..1, imms : 0..XRegSize - 1, immr : 0..XRegSize - 1]

\* The for loop of GetLogicalImmediate, and 63 - CountLeadingZeros.
Log2(v) == Max({0} \cup {k \in 0..XRegSize : 2^k <= v})

\* Copies of an element, side by side: as in the table multipliers[], a product
\* with the number that has a 1 at the start of each.
Repeat(elem, size) == elem * ((Modulus - 1) \div (2^size - 1))

\* A plausible mistake: the element is not repeated.
GetLogicalImmediateBug(f) ==
    LET length == Log2(XRegSize * f.N + XRegSize - 1 - f.imms)
        esize == 2^length
        R == f.immr % esize
        welem == 2^((f.imms % esize) + 1) - 1
    IN IF R = 0 THEN welem
       ELSE welem \div 2^R + ((welem * 2^(esize - R)) % 2^esize)

\* Another: the rotation is not reduced to the element.
GetLogicalImmediateRotateBug(f) ==
    LET length == Log2(XRegSize * f.N + XRegSize - 1 - f.imms)
        esize == 2^length
        R == f.immr
        welem == 2^((f.imms % esize) + 1) - 1
        rotated == IF R = 0 THEN welem
                   ELSE welem \div 2^R + ((welem * 2^((esize - R) % XRegSize)) % 2^esize)
    IN Repeat(rotated, esize)

GetLogicalImmediate(f) ==
    LET length == Log2(XRegSize * f.N + XRegSize - 1 - f.imms)
        esize == 2^length
        R == f.immr % esize
        welem == 2^((f.imms % esize) + 1) - 1
        rotated == IF R = 0 THEN welem
                   ELSE welem \div 2^R + ((welem * 2^(esize - R)) % 2^esize)
    IN Repeat(rotated, esize)

LowestSetBit(v) == IF v = 0 THEN 0 ELSE Max({2^k : k \in {k \in 0..XRegSize : v % 2^k = 0}})

CountLeadingZeros(v) == XRegSize - 1 - Log2(v)

\* A plausible mistake: the size of the register is left out.
IsPowerOf2Bug(v) == \E k \in 0..LogX - 1 : v = 2^k
IsPowerOf2(v) == \E k \in 0..XRegSize : v = 2^k

Refused == [N |-> 0, imms |-> -1, immr |-> -1]

\* The even one of a value and its complement, as an X register has it: a W
\* register's is doubled.
Doubled(v, x) ==
    LET positive == IF v % 2 = 1 THEN Modulus - 1 - v ELSE v
        low == positive % 2^WRegSize
    IN IF x THEN positive ELSE low * 2^WRegSize + low

\* The distance of two runs of ones is the size of the element; a is where the
\* first begins, c where the second does, if there is one.
Size(a, c) ==
    IF c # 0 THEN CountLeadingZeros(a) - CountLeadingZeros(c) ELSE XRegSize

\* The value is copies of an element with one run of ones, from a up to b.
Accepted(value, a, b, c) ==
    /\ a # 0 /\ IsPowerOf2(Size(a, c))
    /\ ~((b - a) % Modulus >= 2^Size(a, c))
    /\ value = Repeat((b - a) % Modulus, Size(a, c)) % Modulus

Answer(negate, a, b, c) ==
    LET clz_a == CountLeadingZeros(a)
        clz_b == IF b = 0 THEN -1 ELSE CountLeadingZeros(b)
        d == Size(a, c)
    IN [N |-> IF c = 0 THEN 1 ELSE 0,
        imms |-> ((-(2 * d)) % XRegSize)
                   + (IF negate THEN d - (clz_a - clz_b) ELSE clz_a - clz_b) - 1,
        immr |-> ((IF negate THEN clz_b ELSE clz_a) + 1) % d]

IsImmLogical(v, x) ==
    LET value == Doubled(v, x)
        a == LowestSetBit(value)
        b == LowestSetBit((value + a) % Modulus)
        c == LowestSetBit((value + a - b) % Modulus)
    IN IF Accepted(value, a, b, c) THEN Answer(v % 2 = 1, a, b, c) ELSE Refused

(***************************************************************************)
(* The object: decoded, given another immediate, assembled.                *)
(***************************************************************************)
Init ==
    /\ fields \in Fields
    /\ sf \in fields.N..1       \* DecodeLogicalImm
    /\ is_x = FALSE
    /\ imm = 0
    /\ step = "fetched"

Disassemble ==
    /\ step \in {"fetched", "assembled"}
    /\ imm' = GetLogicalImmediate(fields)
    /\ is_x' = (sf = 1)
    /\ step' = "decoded"
    /\ UNCHANGED <<sf, fields>>

\* The caller's argument is not taken from the instruction, so that one
\* instruction of each width stands for all.
SetImm ==
    /\ step = "decoded"
    /\ fields = [N |-> 0, imms |-> 0, immr |-> 0]
    /\ imm = GetLogicalImmediate(fields)
    /\ imm' \in Values
    /\ UNCHANGED <<sf, fields, is_x, step>>

\* The opcode is written first and takes the place of the word, sf and all;
\* sf is not written again.  An X object that is disassembled from what it
\* assembled has become a W object.
Opcode == [N |-> 0, imms |-> 0, immr |-> 0]

Assemble ==
    /\ step = "decoded"
    /\ sf' = 0
    /\ LET f == IsImmLogical(imm, is_x)
       IN IF f = Refused THEN step' = "refused" /\ fields' = Opcode
          ELSE step' = "assembled" /\ fields' = f
    /\ UNCHANGED <<is_x, imm>>

Next == Disassemble \/ SetImm \/ Assemble

Spec == Init /\ [][Next]_vars

(***************************************************************************)
(* Properties                                                              *)
(***************************************************************************)
TypeOK ==
    /\ sf \in 0..1
    /\ fields \in Fields
    /\ is_x \in BOOLEAN
    /\ imm \in Values
    /\ step \in {"fetched", "decoded", "assembled", "refused"}

\* What the register holds of a value.
Seen(v) == IF is_x THEN v ELSE v % 2^WRegSize

\* The fields that Assemble writes stand for the immediate of the object.
AssembleKeepsImm ==
    step = "assembled" => Seen(GetLogicalImmediate(fields)) = Seen(imm)

\* The values that some fields stand for, other than all ones: GetLogical-
\* Immediate answers that for fields that stand for nothing.
Encodable(x) ==
    {IF x THEN GetLogicalImmediate(f) ELSE GetLogicalImmediate(f) % 2^WRegSize :
       f \in {f \in Fields : x \/ f.N = 0}}
      \ {IF x THEN Modulus - 1 ELSE 2^WRegSize - 1}

\* Two encodings stand for the same immediate just if they agree in the size
\* of the element, the number of ones and the rotation within the element, or
\* are both all ones.  The module Decoder represents immediates so.
Key(f) ==
    LET length == Log2(XRegSize * f.N + XRegSize - 1 - f.imms)
        S == f.imms % 2^length
    IN IF S = 2^length - 1 THEN <<>> ELSE <<length, S, f.immr % 2^length>>
KeyIsImm ==
    step = "fetched" =>
      \A f \in Fields :
        Key(f) = Key(fields) <=> GetLogicalImmediate(f) = GetLogicalImmediate(fields)
=============================================================================
