--------------------------- MODULE Decoder_proofs ---------------------------
(***************************************************************************)
(* What holds of the fields of every instruction word and of the rows of   *)
(* the instruction table, and then of the decoder, for every word of 32    *)
(* bits and any arguments of the setters: its objects are well-formed, it  *)
(* agrees with the instruction table and finds the rows it should, and     *)
(* what Assemble writes is read back.                                      *)
(***************************************************************************)
EXTENDS Decoder, WellFoundedInduction, TLAPS

(* The number that a field of a given width stands for, at any place.      *)
LEMMA FieldOfWidth ==
    ASSUME NEW w, NEW b \in Nat, NEW hi \in Nat
    PROVE  /\ hi = b => Bits(w, b, hi) = Bit(w, b)
           /\ hi = b + 1 => Bits(w, b, hi) = Bits2(w, b)
           /\ hi = b + 2 => Bits(w, b, hi) = Bits2(w, b) + 4 * Bit(w, b + 2)
           /\ hi = b + 3 => Bits(w, b, hi) = Bits4(w, b)
           /\ hi = b + 4 => Bits(w, b, hi) = Bits4(w, b) + 16 * Bit(w, b + 4)
           /\ hi = b + 5 => Bits(w, b, hi) = Bits4(w, b) + 16 * Bits2(w, b + 4)
           /\ hi = b + 6 => Bits(w, b, hi) = Bits8(w, b) - 128 * Bit(w, b + 7)
           /\ hi = b + 7 => Bits(w, b, hi) = Bits8(w, b)
           /\ hi = b + 14 => Bits(w, b, hi) = Bits8(w, b) + 256 * (Bits4(w, b + 8) + 16 * (Bits2(w, b + 12) + 4 * Bit(w, b + 14)))
           /\ hi = b + 15 => Bits(w, b, hi) = Bits16(w, b)
           /\ hi = b + 21 =>
                 Bits(w, b, hi) = Bits16(w, b) + 65536 * (Bits4(w, b + 16) + 16 * Bits2(w, b + 20))
<1> USE DEF Bits, Bits32, Bits16, Bits8, Bits4, Bits2, Bit
<1>1. hi = b => Bits(w, b, hi) = Bit(w, b)
  BY SMT
<1>2. hi = b + 1 => Bits(w, b, hi) = Bits2(w, b)
  BY SMT
<1>3. hi = b + 2 => Bits(w, b, hi) = Bits2(w, b) + 4 * Bit(w, b + 2)
  BY SMT
<1>4. hi = b + 3 => Bits(w, b, hi) = Bits4(w, b)
  BY SMT
<1>5. hi = b + 4 => Bits(w, b, hi) = Bits4(w, b) + 16 * Bit(w, b + 4)
  BY SMT
<1>6. hi = b + 5 => Bits(w, b, hi) = Bits4(w, b) + 16 * Bits2(w, b + 4)
  BY SMT
<1>7. hi = b + 6 => Bits(w, b, hi) = Bits8(w, b) - 128 * Bit(w, b + 7)
  BY SMT
<1>8. hi = b + 7 => Bits(w, b, hi) = Bits8(w, b)
  BY SMT
<1>9. hi = b + 14 => Bits(w, b, hi) = Bits8(w, b) + 256 * (Bits4(w, b + 8) + 16 * (Bits2(w, b + 12) + 4 * Bit(w, b + 14)))
  BY SMT
<1>10. hi = b + 15 => Bits(w, b, hi) = Bits16(w, b)
  BY SMT
<1>11. hi = b + 21 => Bits(w, b, hi) = Bits16(w, b) + 65536 * (Bits4(w, b + 16) + 16 * Bits2(w, b + 20))
  BY SMT
<1> HIDE DEF Bits, Bits32, Bits16, Bits8, Bits4, Bits2, Bit
<1> QED BY <1>1, <1>2, <1>3, <1>4, <1>5, <1>6, <1>7, <1>8, <1>9, <1>10, <1>11

(* The fields that the decode tree and the objects compare or keep.        *)
LEMMA SmallFields ==
    ASSUME NEW w
    PROVE
      /\ Get(w, "cond") = Bits4(w, 0)
      /\ Get(w, "instr_type_1") = Bits4(w, 25)
      /\ Get(w, "sys_bch_op0") = Bits2(w, 29) + 4 * Bit(w, 31)
      /\ Get(w, "sys_bch_op1") = Bits4(w, 22)
      /\ Get(w, "bch_cond_type") = Bit(w, 22)
      /\ Get(w, "bch_ucond_opc") = Bits4(w, 21)
      /\ Get(w, "bch_ucond_op2") = Bits4(w, 16) + 16 * Bit(w, 20)
      /\ Get(w, "bch_ucond_op3") = Bits4(w, 10) + 16 * Bits2(w, 14)
      /\ Get(w, "bch_ucond_op4") = Bits4(w, 0) + 16 * Bit(w, 4)
      /\ Get(w, "o0") = Bit(w, 19)
      /\ Get(w, "dp_type") = Bits2(w, 23) + 4 * Bit(w, 25)
      /\ Get(w, "addsub_imm_update_flag") = Bit(w, 29)
      /\ Get(w, "addsub_imm_update_sub") = Bit(w, 30)
      /\ Get(w, "addsub_imm_update_64bit") = Bit(w, 30)
      /\ Get(w, "mov_imm_opc") = Bits2(w, 29)
      /\ Get(w, "mov_imm_hw") = Bits2(w, 21)
      /\ Get(w, "adr_page") = Bit(w, 31)
      /\ Get(w, "hw") = Bits2(w, 21)
      /\ Get(w, "opc") = Bits2(w, 29)
      /\ Get(w, "shift") = Bits2(w, 22)
      /\ Get(w, "sf") = Bit(w, 31)
      /\ Get(w, "Rt") = Bits4(w, 0) + 16 * Bit(w, 4)
      /\ Get(w, "Rd") = Bits4(w, 0) + 16 * Bit(w, 4)
      /\ Get(w, "Rn") = Bits4(w, 5) + 16 * Bit(w, 9)
      /\ Get(w, "immlo") = Bits2(w, 29)
      /\ Get(w, "N") = Bit(w, 22)
      /\ Get(w, "imms") = Bits4(w, 10) + 16 * Bits2(w, 14)
      /\ Get(w, "immr") = Bits4(w, 16) + 16 * Bits2(w, 20)
<1>1. /\ Get(w, "cond") = Bits4(w, 0)
      /\ Get(w, "instr_type_1") = Bits4(w, 25)
      /\ Get(w, "sys_bch_op0") = Bits2(w, 29) + 4 * Bit(w, 31)
      /\ Get(w, "sys_bch_op1") = Bits4(w, 22)
      /\ Get(w, "bch_cond_type") = Bit(w, 22)
      /\ Get(w, "bch_ucond_opc") = Bits4(w, 21)
      /\ Get(w, "bch_ucond_op2") = Bits4(w, 16) + 16 * Bit(w, 20)
  BY SMT, FieldOfWidth DEF Get, Fields
<1>2. /\ Get(w, "bch_ucond_op3") = Bits4(w, 10) + 16 * Bits2(w, 14)
      /\ Get(w, "bch_ucond_op4") = Bits4(w, 0) + 16 * Bit(w, 4)
      /\ Get(w, "o0") = Bit(w, 19)
      /\ Get(w, "dp_type") = Bits2(w, 23) + 4 * Bit(w, 25)
      /\ Get(w, "addsub_imm_update_flag") = Bit(w, 29)
      /\ Get(w, "addsub_imm_update_sub") = Bit(w, 30)
      /\ Get(w, "addsub_imm_update_64bit") = Bit(w, 30)
  BY SMT, FieldOfWidth DEF Get, Fields
<1>3. /\ Get(w, "mov_imm_opc") = Bits2(w, 29)
      /\ Get(w, "mov_imm_hw") = Bits2(w, 21)
      /\ Get(w, "adr_page") = Bit(w, 31)
      /\ Get(w, "hw") = Bits2(w, 21)
      /\ Get(w, "opc") = Bits2(w, 29)
      /\ Get(w, "shift") = Bits2(w, 22)
      /\ Get(w, "sf") = Bit(w, 31)
  BY SMT, FieldOfWidth DEF Get, Fields
<1>4. /\ Get(w, "Rt") = Bits4(w, 0) + 16 * Bit(w, 4)
      /\ Get(w, "Rd") = Bits4(w, 0) + 16 * Bit(w, 4)
      /\ Get(w, "Rn") = Bits4(w, 5) + 16 * Bit(w, 9)
      /\ Get(w, "immlo") = Bits2(w, 29)
      /\ Get(w, "N") = Bit(w, 22)
      /\ Get(w, "imms") = Bits4(w, 10) + 16 * Bits2(w, 14)
      /\ Get(w, "immr") = Bits4(w, 16) + 16 * Bits2(w, 20)
  BY SMT, FieldOfWidth DEF Get, Fields
<1> QED BY ONLY <1>1, <1>2, <1>3, <1>4

(* Ranges of the numbers.                                                  *)
Limit15 == 32767
Limit16 == 65535

(* Membership in a range, with the bounds as variables.                    *)
LEMMA InRange == \A n, x \in Int : 0 <= x /\ x <= n => x \in 0..n
BY SMT

(* The numbers of 2, 4, 8 and 16 bits.                                     *)
LEMMA BitRanges ==
    ASSUME NEW w
    PROVE  /\ \A b : Bit(w, b) \in {0, 1} /\ Bits2(w, b) \in 0..3
           /\ \A b : Bits4(w, b) \in 0..15 /\ Bits8(w, b) \in 0..255
           /\ \A b : Bits16(w, b) \in Nat /\ Bits16(w, b) <= 65535
           /\ \A b : Bits32(w, b) \in Nat
<1>1. \A b : Bit(w, b) \in {0, 1} /\ Bits2(w, b) \in 0..3
  BY SMT DEF Bits2, Bit
<1>2. \A b : Bits4(w, b) \in 0..15
  BY SMT, <1>1 DEF Bits4
<1>3. \A b : Bits8(w, b) \in 0..255
  BY SMT, <1>2 DEF Bits8
<1>4. ASSUME NEW b PROVE Bits16(w, b) \in Nat /\ Bits16(w, b) <= 65535
  <2>1. Bits16(w, b) = Bits8(w, b) + 256 * Bits8(w, b + 8)
    BY SMT DEF Bits16
  <2>2. PICK x \in 0..255, y \in 0..255 : x = Bits8(w, b) /\ y = Bits8(w, b + 8)
    <3>1. Bits8(w, b) \in 0..255 /\ Bits8(w, b + 8) \in 0..255
      BY SMT, <1>3
    <3> QED BY ONLY Zenon, <3>1
  <2>3. Bits16(w, b) = x + 256 * y
    BY ONLY <2>1, <2>2
  <2> QED BY ONLY SMT, <2>3, x \in 0..255, y \in 0..255
<1>5. \A b : Bits32(w, b) \in Nat
  BY SMT, <1>4 DEF Bits32
<1> QED BY SMT, <1>1, <1>2, <1>3, <1>4, <1>5

(* The fields imm16 and system_register of any word.                       *)
LEMMA LargeFields ==
    ASSUME NEW w
    PROVE  /\ Get(w, "imm16") \in Imm16
           /\ Get(w, "system_register") \in SysRegs
           /\ \A f : Get(w, f) \in Nat
<1>1. Get(w, "imm16") = Bits16(w, 5)
  BY SMT, FieldOfWidth DEF Get, Fields
<1>2. Get(w, "system_register")
        = Bits8(w, 5) + 256 * (Bits4(w, 13) + 16 * (Bits2(w, 17) + 4 * Bit(w, 19)))
  BY SMT, FieldOfWidth DEF Get, Fields
<1>3. Get(w, "system_register") \in Int /\ 0 <= Get(w, "system_register")
      /\ Get(w, "system_register") <= 32767
  <2>1. PICK x \in 0..255, y \in 0..15, z \in 0..3, t \in {0, 1} :
           x = Bits8(w, 5) /\ y = Bits4(w, 13) /\ z = Bits2(w, 17) /\ t = Bit(w, 19)
    <3>1. /\ Bits8(w, 5) \in 0..255 /\ Bits4(w, 13) \in 0..15
          /\ Bits2(w, 17) \in 0..3 /\ Bit(w, 19) \in {0, 1}
      BY SMT, BitRanges
    <3> QED BY ONLY Zenon, <3>1
  <2>2. Get(w, "system_register") = x + 256 * (y + 16 * (z + 4 * t))
    BY ONLY <1>2, <2>1
  <2> QED BY ONLY SMT, <2>2, x \in 0..255, y \in 0..15, z \in 0..3, t \in {0, 1}
<1>4. Get(w, "system_register") \in SysRegs
  <2>1. Get(w, "system_register") \in 0..Limit15
    <3>1. Limit15 \in Int /\ Get(w, "system_register") <= Limit15
      BY SMT, <1>3 DEF Limit15
    <3> QED BY ONLY <1>3, <3>1, InRange
  <2>2. 0..Limit15 = SysRegs
    BY ONLY SMT DEF Limit15, SysRegs
  <2> QED BY ONLY <2>1, <2>2
<1>5. ASSUME NEW f PROVE Get(w, f) \in Nat
  <2>1. Get(w, f) = Bits32(w \cap (Fields[f][1]..Fields[f][2]), Fields[f][1])
    BY Zenon DEF Get, Bits
  <2> QED BY SMT, <2>1, BitRanges
<1>6. Get(w, "imm16") \in Imm16
  <2>1. Get(w, "imm16") \in 0..Limit16
    <3>1. /\ Limit16 \in Int /\ Get(w, "imm16") \in Int
          /\ 0 <= Get(w, "imm16") /\ Get(w, "imm16") <= Limit16
      BY SMT, <1>1, BitRanges DEF Limit16
    <3> QED BY ONLY <3>1, InRange
  <2>2. 0..Limit16 = Imm16
    BY ONLY SMT DEF Limit16, Imm16
  <2> QED BY ONLY <2>1, <2>2
<1> QED BY ONLY <1>4, <1>5, <1>6

(* The values of the two fields as numbers below a power of two.           *)
LEMMA InRangeBelow == \A n \in Int : \A x \in 0..n : x \in Nat /\ x < n + 1
BY SMT

(* The same, for the values of imm16 and system_register.                  *)
LEMMA FieldLimits ==
    /\ \A x \in Imm16 : x \in Nat /\ x < 65536
    /\ \A x \in SysRegs : x \in Nat /\ x < 32768
<1>1. /\ Limit15 \in Int /\ Limit15 + 1 = 32768
      /\ Limit16 \in Int /\ Limit16 + 1 = 65536
  BY ONLY SMT DEF Limit15, Limit16
<1>2. 0..Limit15 = SysRegs /\ 0..Limit16 = Imm16
  <2>1. 0..Limit15 = SysRegs
    BY ONLY SMT DEF Limit15, SysRegs
  <2>2. 0..Limit16 = Imm16
    BY ONLY SMT DEF Limit16, Imm16
  <2> QED BY ONLY <2>1, <2>2
<1>3. /\ \A x \in 0..Limit16 : x \in Nat /\ x < Limit16 + 1
      /\ \A x \in 0..Limit15 : x \in Nat /\ x < Limit15 + 1
  BY ONLY <1>1, InRangeBelow
<1> QED BY ONLY <1>1, <1>2, <1>3

(* The opcodes in the order of the table.                                  *)
LEMMA TableOps ==
    /\ DOMAIN Table = 1..42
    /\ Table[1].op = "B_cond"
    /\ Table[2].op = "BR"
    /\ Table[3].op = "BLR"
    /\ Table[4].op = "RET"
    /\ Table[5].op = "ERET"
    /\ Table[6].op = "DRPS"
    /\ Table[7].op = "B"
    /\ Table[8].op = "BL"
    /\ Table[9].op = "CBZ"
    /\ Table[10].op = "CBNZ"
    /\ Table[11].op = "TBZ"
    /\ Table[12].op = "TBNZ"
    /\ Table[13].op = "SVC"
    /\ Table[14].op = "HVC"
    /\ Table[15].op = "SMC"
    /\ Table[16].op = "BRK"
    /\ Table[17].op = "HLT"
    /\ Table[18].op = "DCPS1"
    /\ Table[19].op = "DCPS2"
    /\ Table[20].op = "DCPS3"
    /\ Table[21].op = "MRS"
    /\ Table[22].op = "MSR_imm"
    /\ Table[23].op = "MSR_reg"
    /\ Table[24].op = "NOP"
    /\ Table[25].op = "YIELD"
    /\ Table[26].op = "ADR"
    /\ Table[27].op = "ADRP"
    /\ Table[28].op = "ADD_imm"
    /\ Table[29].op = "ADDS_imm"
    /\ Table[30].op = "SUB_imm"
    /\ Table[31].op = "SUBS_imm"
    /\ Table[32].op = "MOVN"
    /\ Table[33].op = "MOVZ"
    /\ Table[34].op = "MOVK"
    /\ Table[35].op = "AND_imm"
    /\ Table[36].op = "ORR_imm"
    /\ Table[37].op = "EOR_imm"
    /\ Table[38].op = "ANDS_imm"
    /\ Table[39].op = "SBFM"
    /\ Table[40].op = "BFM"
    /\ Table[41].op = "UBFM"
    /\ Table[42].op = "EXTR"
<1>1. DOMAIN Table = 1..42
  BY SMT DEF Table
<1>2. /\ Table[1].op = "B_cond"
      /\ Table[2].op = "BR"
      /\ Table[3].op = "BLR"
      /\ Table[4].op = "RET"
      /\ Table[5].op = "ERET"
      /\ Table[6].op = "DRPS"
  BY SMT DEF Table, Row
<1>3. /\ Table[7].op = "B"
      /\ Table[8].op = "BL"
      /\ Table[9].op = "CBZ"
      /\ Table[10].op = "CBNZ"
      /\ Table[11].op = "TBZ"
      /\ Table[12].op = "TBNZ"
  BY SMT DEF Table, Row
<1>4. /\ Table[13].op = "SVC"
      /\ Table[14].op = "HVC"
      /\ Table[15].op = "SMC"
      /\ Table[16].op = "BRK"
      /\ Table[17].op = "HLT"
      /\ Table[18].op = "DCPS1"
  BY SMT DEF Table, Row
<1>5. /\ Table[19].op = "DCPS2"
      /\ Table[20].op = "DCPS3"
      /\ Table[21].op = "MRS"
      /\ Table[22].op = "MSR_imm"
      /\ Table[23].op = "MSR_reg"
      /\ Table[24].op = "NOP"
  BY SMT DEF Table, Row
<1>6. /\ Table[25].op = "YIELD"
      /\ Table[26].op = "ADR"
      /\ Table[27].op = "ADRP"
      /\ Table[28].op = "ADD_imm"
      /\ Table[29].op = "ADDS_imm"
      /\ Table[30].op = "SUB_imm"
  BY SMT DEF Table, Row
<1>7. /\ Table[31].op = "SUBS_imm"
      /\ Table[32].op = "MOVN"
      /\ Table[33].op = "MOVZ"
      /\ Table[34].op = "MOVK"
      /\ Table[35].op = "AND_imm"
      /\ Table[36].op = "ORR_imm"
  BY SMT DEF Table, Row
<1>8. /\ Table[37].op = "EOR_imm"
      /\ Table[38].op = "ANDS_imm"
      /\ Table[39].op = "SBFM"
      /\ Table[40].op = "BFM"
      /\ Table[41].op = "UBFM"
      /\ Table[42].op = "EXTR"
  BY SMT DEF Table, Row
<1> QED BY ONLY <1>1, <1>2, <1>3, <1>4, <1>5, <1>6, <1>7, <1>8

(* The bits of the rows.                                                   *)
LEMMA TableBits ==
    /\ Table[1].fixed = {<<24, 31, 84>>, <<4, 4, 0>>}
    /\ Table[2].fixed = {<<10, 31, 3508160>>, <<0, 4, 0>>}
    /\ Table[3].fixed = {<<10, 31, 3510208>>, <<0, 4, 0>>}
    /\ Table[4].fixed = {<<10, 31, 3512256>>, <<0, 4, 0>>}
    /\ Table[5].fixed = {<<10, 31, 3516352>>, <<0, 9, 992>>}
    /\ Table[6].fixed = {<<10, 31, 3518400>>, <<0, 9, 992>>}
    /\ Table[7].fixed = {<<26, 31, 5>>}
    /\ Table[8].fixed = {<<26, 31, 37>>}
    /\ Table[9].fixed = {<<24, 30, 52>>}
    /\ Table[10].fixed = {<<24, 30, 53>>}
    /\ Table[11].fixed = {<<24, 31, 54>>}
    /\ Table[12].fixed = {<<24, 31, 55>>}
    /\ Table[13].fixed = {<<20, 31, 3392>>, <<0, 4, 1>>}
    /\ Table[14].fixed = {<<20, 31, 3392>>, <<0, 4, 2>>}
    /\ Table[15].fixed = {<<20, 31, 3392>>, <<0, 4, 3>>}
    /\ Table[16].fixed = {<<20, 31, 3394>>, <<0, 4, 0>>}
    /\ Table[17].fixed = {<<20, 31, 3396>>, <<0, 4, 0>>}
    /\ Table[18].fixed = {<<20, 31, 3402>>, <<0, 4, 1>>}
    /\ Table[19].fixed = {<<20, 31, 3402>>, <<0, 4, 2>>}
    /\ Table[20].fixed = {<<20, 31, 3402>>, <<0, 4, 3>>}
    /\ Table[21].fixed = {<<20, 31, 3411>>}
    /\ Table[22].fixed = {<<19, 31, 6816>>, <<12, 15, 4>>, <<0, 4, 31>>}
    /\ Table[23].fixed = {<<20, 31, 3409>>}
    /\ Table[24].fixed = {<<10, 31, 3489992>>, <<0, 9, 31>>}
    /\ Table[25].fixed = {<<10, 31, 3489992>>, <<0, 9, 63>>}
    /\ Table[26].fixed = {<<31, 31, 0>>, <<24, 28, 16>>}
    /\ Table[27].fixed = {<<31, 31, 1>>, <<24, 28, 16>>}
    /\ Table[28].fixed = {<<23, 30, 34>>}
    /\ Table[29].fixed = {<<23, 30, 98>>}
    /\ Table[30].fixed = {<<23, 30, 162>>}
    /\ Table[31].fixed = {<<23, 30, 226>>}
    /\ Table[32].fixed = {<<23, 30, 37>>}
    /\ Table[33].fixed = {<<23, 30, 165>>}
    /\ Table[34].fixed = {<<23, 30, 229>>}
    /\ Table[35].fixed = {<<23, 30, 36>>}
    /\ Table[36].fixed = {<<23, 30, 100>>}
    /\ Table[37].fixed = {<<23, 30, 164>>}
    /\ Table[38].fixed = {<<23, 30, 228>>}
    /\ Table[39].fixed = {<<23, 30, 38>>}
    /\ Table[40].fixed = {<<23, 30, 102>>}
    /\ Table[41].fixed = {<<23, 30, 166>>}
    /\ Table[42].fixed = {<<23, 30, 39>>, <<21, 21, 0>>}
<1>1. /\ Table[1].fixed = {<<24, 31, 84>>, <<4, 4, 0>>}
      /\ Table[2].fixed = {<<10, 31, 3508160>>, <<0, 4, 0>>}
      /\ Table[3].fixed = {<<10, 31, 3510208>>, <<0, 4, 0>>}
      /\ Table[4].fixed = {<<10, 31, 3512256>>, <<0, 4, 0>>}
      /\ Table[5].fixed = {<<10, 31, 3516352>>, <<0, 9, 992>>}
      /\ Table[6].fixed = {<<10, 31, 3518400>>, <<0, 9, 992>>}
  BY SMT DEF Table, Row
<1>2. /\ Table[7].fixed = {<<26, 31, 5>>}
      /\ Table[8].fixed = {<<26, 31, 37>>}
      /\ Table[9].fixed = {<<24, 30, 52>>}
      /\ Table[10].fixed = {<<24, 30, 53>>}
      /\ Table[11].fixed = {<<24, 31, 54>>}
      /\ Table[12].fixed = {<<24, 31, 55>>}
  BY SMT DEF Table, Row
<1>3. /\ Table[13].fixed = {<<20, 31, 3392>>, <<0, 4, 1>>}
      /\ Table[14].fixed = {<<20, 31, 3392>>, <<0, 4, 2>>}
      /\ Table[15].fixed = {<<20, 31, 3392>>, <<0, 4, 3>>}
      /\ Table[16].fixed = {<<20, 31, 3394>>, <<0, 4, 0>>}
      /\ Table[17].fixed = {<<20, 31, 3396>>, <<0, 4, 0>>}
      /\ Table[18].fixed = {<<20, 31, 3402>>, <<0, 4, 1>>}
  BY SMT DEF Table, Row
<1>4. /\ Table[19].fixed = {<<20, 31, 3402>>, <<0, 4, 2>>}
      /\ Table[20].fixed = {<<20, 31, 3402>>, <<0, 4, 3>>}
      /\ Table[21].fixed = {<<20, 31, 3411>>}
      /\ Table[22].fixed = {<<19, 31, 6816>>, <<12, 15, 4>>, <<0, 4, 31>>}
      /\ Table[23].fixed = {<<20, 31, 3409>>}
      /\ Table[24].fixed = {<<10, 31, 3489992>>, <<0, 9, 31>>}
  BY SMT DEF Table, Row
<1>5. /\ Table[25].fixed = {<<10, 31, 3489992>>, <<0, 9, 63>>}
      /\ Table[26].fixed = {<<31, 31, 0>>, <<24, 28, 16>>}
      /\ Table[27].fixed = {<<31, 31, 1>>, <<24, 28, 16>>}
      /\ Table[28].fixed = {<<23, 30, 34>>}
      /\ Table[29].fixed = {<<23, 30, 98>>}
      /\ Table[30].fixed = {<<23, 30, 162>>}
  BY SMT DEF Table, Row
<1>6. /\ Table[31].fixed = {<<23, 30, 226>>}
      /\ Table[32].fixed = {<<23, 30, 37>>}
      /\ Table[33].fixed = {<<23, 30, 165>>}
      /\ Table[34].fixed = {<<23, 30, 229>>}
      /\ Table[35].fixed = {<<23, 30, 36>>}
      /\ Table[36].fixed = {<<23, 30, 100>>}
  BY SMT DEF Table, Row
<1>7. /\ Table[37].fixed = {<<23, 30, 164>>}
      /\ Table[38].fixed = {<<23, 30, 228>>}
      /\ Table[39].fixed = {<<23, 30, 38>>}
      /\ Table[40].fixed = {<<23, 30, 102>>}
      /\ Table[41].fixed = {<<23, 30, 166>>}
      /\ Table[42].fixed = {<<23, 30, 39>>, <<21, 21, 0>>}
  BY SMT DEF Table, Row
<1> QED BY ONLY <1>1, <1>2, <1>3, <1>4, <1>5, <1>6, <1>7

(* The rows that an opcode is searched in.                                 *)
LEMMA TableTypes ==
    ASSUME NEW k \in 1..42
    PROVE  /\ Table[k].type = "ExpGen" => k \in 13..20
           /\ Table[k].type = "System" => k \in 21..25
<1>1. /\ Table[1].type = "Branches"
      /\ Table[2].type = "Branches"
      /\ Table[3].type = "Branches"
      /\ Table[4].type = "Branches"
      /\ Table[5].type = "Branches"
      /\ Table[6].type = "Branches"
  BY SMT DEF Table, Row
<1>2. /\ Table[7].type = "Branches"
      /\ Table[8].type = "Branches"
      /\ Table[9].type = "Branches"
      /\ Table[10].type = "Branches"
      /\ Table[11].type = "Branches"
      /\ Table[12].type = "Branches"
  BY SMT DEF Table, Row
<1>3. /\ Table[13].type = "ExpGen"
      /\ Table[14].type = "ExpGen"
      /\ Table[15].type = "ExpGen"
      /\ Table[16].type = "ExpGen"
      /\ Table[17].type = "ExpGen"
      /\ Table[18].type = "ExpGen"
  BY SMT DEF Table, Row
<1>4. /\ Table[19].type = "ExpGen"
      /\ Table[20].type = "ExpGen"
      /\ Table[21].type = "System"
      /\ Table[22].type = "System"
      /\ Table[23].type = "System"
      /\ Table[24].type = "System"
  BY SMT DEF Table, Row
<1>5. /\ Table[25].type = "System"
      /\ Table[26].type = "PCRelAdr"
      /\ Table[27].type = "PCRelAdr"
      /\ Table[28].type = "AddSubImmediate"
      /\ Table[29].type = "AddSubImmediate"
      /\ Table[30].type = "AddSubImmediate"
  BY SMT DEF Table, Row
<1>6. /\ Table[31].type = "AddSubImmediate"
      /\ Table[32].type = "MovWide"
      /\ Table[33].type = "MovWide"
      /\ Table[34].type = "MovWide"
      /\ Table[35].type = "LogicalImmediate"
      /\ Table[36].type = "LogicalImmediate"
  BY SMT DEF Table, Row
<1>7. /\ Table[37].type = "LogicalImmediate"
      /\ Table[38].type = "LogicalImmediate"
      /\ Table[39].type = "LogicalImmediate"
      /\ Table[40].type = "LogicalImmediate"
      /\ Table[41].type = "LogicalImmediate"
      /\ Table[42].type = "LogicalImmediate"
  BY SMT DEF Table, Row
<1>8. ASSUME k \in 1..6
      PROVE  /\ Table[k].type = "ExpGen" => k \in 13..20
             /\ Table[k].type = "System" => k \in 21..25
  BY SMT, <1>1, <1>8
<1>9. ASSUME k \in 7..12
      PROVE  /\ Table[k].type = "ExpGen" => k \in 13..20
             /\ Table[k].type = "System" => k \in 21..25
  BY SMT, <1>2, <1>9
<1>10. ASSUME k \in 13..18
      PROVE  /\ Table[k].type = "ExpGen" => k \in 13..20
             /\ Table[k].type = "System" => k \in 21..25
  BY SMT, <1>3, <1>10
<1>11. ASSUME k \in 19..24
      PROVE  /\ Table[k].type = "ExpGen" => k \in 13..20
             /\ Table[k].type = "System" => k \in 21..25
  BY SMT, <1>4, <1>11
<1>12. ASSUME k \in 25..30
      PROVE  /\ Table[k].type = "ExpGen" => k \in 13..20
             /\ Table[k].type = "System" => k \in 21..25
  BY SMT, <1>5, <1>12
<1>13. ASSUME k \in 31..36
      PROVE  /\ Table[k].type = "ExpGen" => k \in 13..20
             /\ Table[k].type = "System" => k \in 21..25
  BY SMT, <1>6, <1>13
<1>14. ASSUME k \in 37..42
      PROVE  /\ Table[k].type = "ExpGen" => k \in 13..20
             /\ Table[k].type = "System" => k \in 21..25
  BY SMT, <1>7, <1>14
<1> QED BY <1>8, <1>9, <1>10, <1>11, <1>12, <1>13, <1>14

(* No opcode has two rows.                                                 *)
LEMMA OpsDiffer ==
    ASSUME NEW i \in 1..42, NEW k \in 1..42, Table[i].op = Table[k].op
    PROVE  i = k
<1>1. ASSUME i \in 1..14 PROVE i = k
  BY SMTT(60), TableOps, <1>1
<1>2. ASSUME i \in 15..28 PROVE i = k
  BY SMTT(60), TableOps, <1>2
<1>3. ASSUME i \in 29..42 PROVE i = k
  BY SMTT(60), TableOps, <1>3
<1> QED BY <1>1, <1>2, <1>3

(* RowOf finds the row.                                                    *)
LEMMA RowAt ==
    ASSUME NEW k \in 1..42
    PROVE  Table[k].op \in Opcodes /\ RowOf[Table[k].op] = Table[k]
<1> DEFINE rows == {Table[i] : i \in DOMAIN Table}
           op == Table[k].op
<1>1. Table[k] \in rows /\ op \in Opcodes
  BY TableOps DEF Opcodes
<1>2. RowOf[op] = CHOOSE r \in rows : r.op = op
  BY <1>1 DEF RowOf
<1>3. \A r \in rows : r.op = op => r = Table[k]
  <2>1. DOMAIN Table = 1..42
    BY TableOps
  <2>2. \A i \in 1..42 : Table[i].op = Table[k].op => i = k
    BY Zenon, OpsDiffer
  <2>3. \A r \in rows : \E i \in 1..42 : r = Table[i]
    BY ONLY Zenon, <2>1
  <2> QED BY ONLY Zenon, <2>2, <2>3
<1> QED BY <1>1, <1>2, <1>3

(* A set of rows that fit has a first one.                                 *)
LEMMA FirstHit ==
    ASSUME NEW S \in SUBSET (1..42), S # {}
    PROVE  Min(S) \in S
<1> DEFINE R == OpToRel(<, Nat)
<1>1. IsWellFoundedOn(R, Nat)
  BY NatLessThanWellFounded
<1>2. \A x \in Nat, y \in Nat : y < x => <<y, x>> \in R
  BY Zenon DEF OpToRel
<1> HIDE DEF R
<1>3. S \subseteq Nat
  OBVIOUS
<1>4. PICK x \in S : \A y \in S : ~(<<y, x>> \in R)
  BY ONLY <1>1, <1>3, S # {}, WFMin
<1>5. \A y \in S : ~(y < x)
  BY Zenon, <1>2, <1>3, <1>4
<1>6. \A y \in S : x =< y
  BY ONLY SMT, <1>3, <1>4, <1>5
<1> QED BY <1>6 DEF Min

(* DecodeOpCode answers an opcode of the type it was asked for.            *)
LEMMA DecodedType ==
    ASSUME NEW w, NEW type, DecodeOpCode(w, type) # "INVALID"
    PROVE  \E i \in 1..42 : Table[i].type = type /\ DecodeOpCode(w, type) = Table[i].op
<1> DEFINE hits == {i \in DOMAIN Table : Table[i].type = type /\ Test(w, Table[i])}
           first == Min(hits)
<1>1. hits # {} /\ DecodeOpCode(w, type) = Table[first].op
  BY DEF DecodeOpCode
<1>2. hits \in SUBSET (1..42) /\ \A i \in hits : Table[i].type = type
  BY TableOps
<1> HIDE DEF hits
<1>3. first \in hits
  BY <1>1, <1>2, FirstHit
<1> HIDE DEF first
<1> QED BY <1>1, <1>2, <1>3

(* Fields lie within a word.                                               *)
LEMMA FieldsInWord ==
    ASSUME NEW f \in DOMAIN Fields
    PROVE  /\ Fields[f][1] \in 0..31 /\ Fields[f][2] \in 0..31
           /\ Fields[f][1] <= Fields[f][2]
BY SMT DEF Fields

(* What is written to a field leaves a word, and the fields beside it.     *)
LEMMA PutInWord ==
    ASSUME NEW w \in Word, NEW f \in DOMAIN Fields, NEW v
    PROVE  Put(w, f, v) \in Word
<1> DEFINE lo == Fields[f][1]  hi == Fields[f][2]
<1>1. lo..hi \subseteq 0..31
  BY FieldsInWord
<1>2. Put(w, f, v) \subseteq w \cup (lo..hi)
  BY DEF Put, OfNumber
<1> QED BY <1>1, <1>2 DEF Word

(* What is written to one field leaves the others alone.                   *)
LEMMA PutElsewhere ==
    ASSUME NEW w, NEW f \in DOMAIN Fields, NEW v, NEW g \in DOMAIN Fields,
           Fields[f][2] < Fields[g][1] \/ Fields[g][2] < Fields[f][1]
    PROVE  Get(Put(w, f, v), g) = Get(w, g)
<1>1. Put(w, f, v) \cap (Fields[g][1]..Fields[g][2]) = w \cap (Fields[g][1]..Fields[g][2])
  BY FieldsInWord DEF Put, OfNumber
<1> QED BY <1>1 DEF Get, Bits

(* The bits of a row, and so those of an opcode, lie within a word.        *)
LEMMA RowsInWord ==
    ASSUME NEW k \in 1..42, NEW f \in Table[k].fixed
    PROVE  f[1] \in 0..31 /\ f[2] \in 0..31
<1>1. ASSUME k \in 1..6 PROVE f[1] \in 0..31 /\ f[2] \in 0..31
  BY SMT, TableBits, <1>1
<1>2. ASSUME k \in 7..12 PROVE f[1] \in 0..31 /\ f[2] \in 0..31
  BY SMT, TableBits, <1>2
<1>3. ASSUME k \in 13..18 PROVE f[1] \in 0..31 /\ f[2] \in 0..31
  BY SMT, TableBits, <1>3
<1>4. ASSUME k \in 19..24 PROVE f[1] \in 0..31 /\ f[2] \in 0..31
  BY SMT, TableBits, <1>4
<1>5. ASSUME k \in 25..30 PROVE f[1] \in 0..31 /\ f[2] \in 0..31
  BY SMT, TableBits, <1>5
<1>6. ASSUME k \in 31..36 PROVE f[1] \in 0..31 /\ f[2] \in 0..31
  BY SMT, TableBits, <1>6
<1>7. ASSUME k \in 37..42 PROVE f[1] \in 0..31 /\ f[2] \in 0..31
  BY SMT, TableBits, <1>7
<1> QED BY <1>1, <1>2, <1>3, <1>4, <1>5, <1>6, <1>7

(* The bits that ENCODE_OPCODE writes are bits of a word.                  *)
LEMMA OpcodeInWord ==
    ASSUME NEW op \in Opcodes
    PROVE  OpcodeBits(op) \in Word
<1>1. PICK k \in 1..42 : Table[k].op = op
  BY TableOps DEF Opcodes
<1>2. ASSUME NEW f \in RowOf[op].fixed
      PROVE  OfNumber(f[3], f[1], f[2]) \subseteq 0..31
  <2>1. f[1] \in 0..31 /\ f[2] \in 0..31
    BY <1>1, RowAt, RowsInWord
  <2>2. OfNumber(f[3], f[1], f[2]) \subseteq f[1]..f[2]
    BY DEF OfNumber
  <2> QED BY SMTT(30), <2>1, <2>2
<1>3. UNION {OfNumber(f[3], f[1], f[2]) : f \in RowOf[op].fixed} \subseteq 0..31
  BY <1>2
<1> QED BY <1>3 DEF OpcodeBits, Mirror, Word

(* The powers of 2 up to the width of a word.                              *)
P2 == [k \in 0..32 |-> 2^k]

(* The powers of two up to the width of a word.                            *)
LEMMA Powers ==
    /\ P2[0] = 1 /\ P2[1] = 2 /\ P2[2] = 4
    /\ P2[3] = 8 /\ P2[4] = 16 /\ P2[5] = 32
    /\ P2[6] = 64 /\ P2[7] = 128 /\ P2[8] = 256
    /\ P2[9] = 512 /\ P2[10] = 1024 /\ P2[11] = 2048
    /\ P2[12] = 4096 /\ P2[13] = 8192 /\ P2[14] = 16384
    /\ P2[15] = 32768 /\ P2[16] = 65536 /\ P2[17] = 131072
    /\ P2[18] = 262144 /\ P2[19] = 524288 /\ P2[20] = 1048576
    /\ P2[21] = 2097152 /\ P2[22] = 4194304 /\ P2[23] = 8388608
    /\ P2[24] = 16777216 /\ P2[25] = 33554432 /\ P2[26] = 67108864
    /\ P2[27] = 134217728 /\ P2[28] = 268435456 /\ P2[29] = 536870912
    /\ P2[30] = 1073741824 /\ P2[31] = 2147483648 /\ P2[32] = 4294967296
<1>1. /\ P2[0] = 1 /\ P2[1] = 2 /\ P2[2] = 4
      /\ P2[3] = 8 /\ P2[4] = 16 /\ P2[5] = 32
      /\ P2[6] = 64 /\ P2[7] = 128 /\ P2[8] = 256
  BY SMT DEF P2
<1>2. /\ P2[9] = 512 /\ P2[10] = 1024 /\ P2[11] = 2048
      /\ P2[12] = 4096 /\ P2[13] = 8192 /\ P2[14] = 16384
      /\ P2[15] = 32768 /\ P2[16] = 65536 /\ P2[17] = 131072
  BY SMT DEF P2
<1>3. /\ P2[18] = 262144 /\ P2[19] = 524288 /\ P2[20] = 1048576
      /\ P2[21] = 2097152 /\ P2[22] = 4194304 /\ P2[23] = 8388608
      /\ P2[24] = 16777216 /\ P2[25] = 33554432 /\ P2[26] = 67108864
  BY SMT DEF P2
<1>4. /\ P2[27] = 134217728 /\ P2[28] = 268435456 /\ P2[29] = 536870912
      /\ P2[30] = 1073741824 /\ P2[31] = 2147483648 /\ P2[32] = 4294967296
  BY SMT DEF P2
<1> QED BY ONLY <1>1, <1>2, <1>3, <1>4

(* Powers of two are positive and grow with the exponent.                  *)
LEMMA PowersGrow ==
    ASSUME NEW n \in 0..32, NEW k \in 0..32, n <= k
    PROVE  P2[n] \in Nat \ {0} /\ P2[k] \in Nat \ {0} /\ P2[n] <= P2[k]
BY SMTT(60), Powers

(* Moving one bit up halves a number.                                      *)
LEMMA Halved ==
    ASSUME NEW v \in Nat, NEW i \in 0..31
    PROVE  v \div P2[i] \in Nat /\ v \div P2[i + 1] = (v \div P2[i]) \div 2
<1>1. /\ v \div 1 = v
      /\ v \div 4 = (v \div 2) \div 2
      /\ v \div 8 = (v \div 4) \div 2
      /\ v \div 16 = (v \div 8) \div 2
      /\ v \div 32 = (v \div 16) \div 2
      /\ v \div 64 = (v \div 32) \div 2
      /\ v \div 128 = (v \div 64) \div 2
      /\ v \div 256 = (v \div 128) \div 2
      /\ v \div 512 = (v \div 256) \div 2
      /\ v \div 1024 = (v \div 512) \div 2
      /\ v \div 2048 = (v \div 1024) \div 2
      /\ v \div 4096 = (v \div 2048) \div 2
      /\ v \div 8192 = (v \div 4096) \div 2
      /\ v \div 16384 = (v \div 8192) \div 2
      /\ v \div 32768 = (v \div 16384) \div 2
      /\ v \div 65536 = (v \div 32768) \div 2
      /\ v \div 131072 = (v \div 65536) \div 2
      /\ v \div 262144 = (v \div 131072) \div 2
      /\ v \div 524288 = (v \div 262144) \div 2
      /\ v \div 1048576 = (v \div 524288) \div 2
      /\ v \div 2097152 = (v \div 1048576) \div 2
      /\ v \div 4194304 = (v \div 2097152) \div 2
      /\ v \div 8388608 = (v \div 4194304) \div 2
      /\ v \div 16777216 = (v \div 8388608) \div 2
      /\ v \div 33554432 = (v \div 16777216) \div 2
      /\ v \div 67108864 = (v \div 33554432) \div 2
      /\ v \div 134217728 = (v \div 67108864) \div 2
      /\ v \div 268435456 = (v \div 134217728) \div 2
      /\ v \div 536870912 = (v \div 268435456) \div 2
      /\ v \div 1073741824 = (v \div 536870912) \div 2
      /\ v \div 2147483648 = (v \div 1073741824) \div 2
      /\ v \div 4294967296 = (v \div 2147483648) \div 2
  BY SMT
<1>2. ASSUME i \in 0..7 PROVE v \div P2[i + 1] = (v \div P2[i]) \div 2
  BY SMT, <1>1, <1>2, Powers
<1>3. ASSUME i \in 8..15 PROVE v \div P2[i + 1] = (v \div P2[i]) \div 2
  BY SMT, <1>1, <1>3, Powers
<1>4. ASSUME i \in 16..23 PROVE v \div P2[i + 1] = (v \div P2[i]) \div 2
  BY SMT, <1>1, <1>4, Powers
<1>5. ASSUME i \in 24..31 PROVE v \div P2[i + 1] = (v \div P2[i]) \div 2
  BY SMT, <1>1, <1>5, Powers
<1>6. P2[i] \in Nat \ {0}
  BY PowersGrow
<1>7. \A p \in Nat \ {0} : v \div p \in Nat
  BY SMT
<1> QED BY <1>2, <1>3, <1>4, <1>5, <1>6, <1>7

(* A number is its low half and its high half.                             *)
LEMMA Joined ==
    ASSUME NEW x \in Nat
    PROVE
      /\ (x % 2) + 2 * ((x \div 2) % 2) = x % 4
      /\ (x \div 2) \div 2 = x \div 4
      /\ (x % 4) + 4 * ((x \div 4) % 4) = x % 16
      /\ (x \div 4) \div 4 = x \div 16
      /\ (x % 16) + 16 * ((x \div 16) % 16) = x % 256
      /\ (x \div 16) \div 16 = x \div 256
      /\ (x % 256) + 256 * ((x \div 256) % 256) = x % 65536
      /\ (x \div 256) \div 256 = x \div 65536
      /\ (x % 65536) + 65536 * ((x \div 65536) % 65536) = x % 4294967296
      /\ (x \div 65536) \div 65536 = x \div 4294967296
<1>1. /\ (x % 2) + 2 * ((x \div 2) % 2) = x % 4
      /\ (x \div 2) \div 2 = x \div 4
  BY SMT
<1>2. /\ (x % 4) + 4 * ((x \div 4) % 4) = x % 16
      /\ (x \div 4) \div 4 = x \div 16
  BY SMT
<1>3. /\ (x % 16) + 16 * ((x \div 16) % 16) = x % 256
      /\ (x \div 16) \div 16 = x \div 256
  BY SMT
<1>4. /\ (x % 256) + 256 * ((x \div 256) % 256) = x % 65536
      /\ (x \div 256) \div 256 = x \div 65536
  BY SMT
<1>5. /\ (x % 65536) + 65536 * ((x \div 65536) % 65536) = x % 4294967296
      /\ (x \div 65536) \div 65536 = x \div 4294967296
  BY SMT
<1> QED BY ONLY <1>1, <1>2, <1>3, <1>4, <1>5

(* A set that holds the digits of a number from bit lo on stands for it.   *)
LEMMA DigitsRead ==
    ASSUME NEW S, NEW lo \in Nat, NEW v \in Nat,
           \A i \in 0..31 : Bit(S, lo + i) = (v \div P2[i]) % 2
    PROVE  Bits32(S, lo) = v % P2[32]
<1> DEFINE h == [i \in 0..32 |-> v \div P2[i]]
<1>1. h[0] = v
  BY SMT, Powers
<1>2. ASSUME NEW i \in 0..31 PROVE h[i] \in Nat /\ h[i + 1] = h[i] \div 2
  <2>1. h[i] = v \div P2[i] /\ h[i + 1] = v \div P2[i + 1]
    OBVIOUS
  <2> HIDE DEF h
  <2> QED BY <2>1, Halved
<1>3. \A i \in 0..31 : Bit(S, lo + i) = h[i] % 2
  OBVIOUS
<1> HIDE DEF h
<1>4. ASSUME NEW i \in 0..30 PROVE Bits2(S, lo + i) = h[i] % 4 /\ h[i + 2] = h[i] \div 4
  <2>1. Bit(S, lo + i) = h[i] % 2 /\ Bit(S, (lo + i) + 1) = (h[i] \div 2) % 2
    <3>1. i + 1 \in 0..31 /\ lo + (i + 1) = (lo + i) + 1
      OBVIOUS
    <3> QED BY <1>2, <1>3, <3>1
  <2>2. h[i] \in Nat /\ h[i + 2] = (h[i] \div 2) \div 2
    <3>1. i + 1 \in 0..31 /\ (i + 1) + 1 = i + 2
      OBVIOUS
    <3> QED BY <1>2, <3>1
  <2>3. Bits2(S, lo + i) = (h[i] % 2) + 2 * ((h[i] \div 2) % 2)
    BY SMT, <2>1 DEF Bits2
  <2>4. /\ (h[i] % 2) + 2 * ((h[i] \div 2) % 2) = h[i] % 4
        /\ (h[i] \div 2) \div 2 = h[i] \div 4
    BY SMT, <2>2
  <2> QED BY ONLY SMT, <2>2, <2>3, <2>4
<1>5. ASSUME NEW i \in 0..28 PROVE Bits4(S, lo + i) = h[i] % 16 /\ h[i + 4] = h[i] \div 16
  <2>1. Bits2(S, lo + i) = h[i] % 4 /\ Bits2(S, (lo + i) + 2) = (h[i] \div 4) % 4
    <3>1. i + 2 \in 0..30 /\ lo + (i + 2) = (lo + i) + 2
      OBVIOUS
    <3> QED BY SMT, <1>4, <3>1
  <2>2. h[i] \in Nat /\ h[i + 4] = (h[i] \div 4) \div 4
    <3>1. i + 2 \in 0..30 /\ (i + 2) + 2 = i + 4
      OBVIOUS
    <3>2. h[i + 2] = h[i] \div 4 /\ h[(i + 2) + 2] = h[i + 2] \div 4
      BY <1>4, <3>1
    <3>3. h[i] \in Nat
      BY <1>2
    <3> QED BY ONLY SMT, <3>1, <3>2, <3>3
  <2>3. Bits4(S, lo + i) = (h[i] % 4) + 4 * ((h[i] \div 4) % 4)
    BY SMT, <2>1 DEF Bits4
  <2>4. /\ (h[i] % 4) + 4 * ((h[i] \div 4) % 4) = h[i] % 16
        /\ (h[i] \div 4) \div 4 = h[i] \div 16
    BY SMT, <2>2, Joined
  <2> QED BY ONLY SMT, <2>2, <2>3, <2>4
<1>6. ASSUME NEW i \in 0..24 PROVE Bits8(S, lo + i) = h[i] % 256 /\ h[i + 8] = h[i] \div 256
  <2>1. Bits4(S, lo + i) = h[i] % 16 /\ Bits4(S, (lo + i) + 4) = (h[i] \div 16) % 16
    <3>1. i + 4 \in 0..28 /\ lo + (i + 4) = (lo + i) + 4
      OBVIOUS
    <3> QED BY SMT, <1>5, <3>1
  <2>2. h[i] \in Nat /\ h[i + 8] = (h[i] \div 16) \div 16
    <3>1. i + 4 \in 0..28 /\ (i + 4) + 4 = i + 8
      OBVIOUS
    <3>2. h[i + 4] = h[i] \div 16 /\ h[(i + 4) + 4] = h[i + 4] \div 16
      BY <1>5, <3>1
    <3>3. h[i] \in Nat
      BY <1>2
    <3> QED BY ONLY SMT, <3>1, <3>2, <3>3
  <2>3. Bits8(S, lo + i) = (h[i] % 16) + 16 * ((h[i] \div 16) % 16)
    BY SMT, <2>1 DEF Bits8
  <2>4. /\ (h[i] % 16) + 16 * ((h[i] \div 16) % 16) = h[i] % 256
        /\ (h[i] \div 16) \div 16 = h[i] \div 256
    BY SMT, <2>2, Joined
  <2> QED BY ONLY SMT, <2>2, <2>3, <2>4
<1>7. ASSUME NEW i \in 0..16 PROVE Bits16(S, lo + i) = h[i] % 65536 /\ h[i + 16] = h[i] \div 65536
  <2>1. Bits8(S, lo + i) = h[i] % 256 /\ Bits8(S, (lo + i) + 8) = (h[i] \div 256) % 256
    <3>1. i + 8 \in 0..24 /\ lo + (i + 8) = (lo + i) + 8
      OBVIOUS
    <3> QED BY SMT, <1>6, <3>1
  <2>2. h[i] \in Nat /\ h[i + 16] = (h[i] \div 256) \div 256
    <3>1. i + 8 \in 0..24 /\ (i + 8) + 8 = i + 16
      OBVIOUS
    <3>2. h[i + 8] = h[i] \div 256 /\ h[(i + 8) + 8] = h[i + 8] \div 256
      BY <1>6, <3>1
    <3>3. h[i] \in Nat
      BY <1>2
    <3> QED BY ONLY SMT, <3>1, <3>2, <3>3
  <2>3. Bits16(S, lo + i) = (h[i] % 256) + 256 * ((h[i] \div 256) % 256)
    BY SMT, <2>1 DEF Bits16
  <2>4. /\ (h[i] % 256) + 256 * ((h[i] \div 256) % 256) = h[i] % 65536
        /\ (h[i] \div 256) \div 256 = h[i] \div 65536
    BY SMT, <2>2, Joined
  <2> QED BY ONLY SMT, <2>2, <2>3, <2>4
<1>8. Bits16(S, lo) = v % 65536 /\ Bits16(S, lo + 16) = (v \div 65536) % 65536
  <2>1. Bits16(S, lo + 0) = h[0] % 65536 /\ h[0 + 16] = h[0] \div 65536
    BY SMT, <1>7
  <2>2. Bits16(S, lo + 16) = h[16] % 65536
    BY SMT, <1>7
  <2> QED BY SMT, <1>1, <2>1, <2>2
<1>9. Bits32(S, lo) = (v % 65536) + 65536 * ((v \div 65536) % 65536)
  BY SMT, <1>8 DEF Bits32
<1> QED BY SMT, <1>9, Joined, Powers

(* A number that fits in a field is read back from it.                     *)
LEMMA NumberReadBack ==
    ASSUME NEW lo \in 0..31, NEW hi \in 0..31, lo <= hi,
           NEW v \in Nat, v < P2[hi - lo + 1]
    PROVE  Bits(OfNumber(v, lo, hi), lo, hi) = v
<1> DEFINE O == OfNumber(v, lo, hi)
           n == hi - lo + 1
<1>1. n \in 1..32 /\ v \in Nat /\ v < P2[n] /\ P2[n] \in Nat
  BY PowersGrow
<1>2. ASSUME NEW i \in 0..31, i >= n PROVE v \div P2[i] = 0
  <2>1. P2[i] \in Nat \ {0} /\ v < P2[i]
    <3>1. n \in 0..32 /\ i \in 0..32 /\ n <= i
      BY <1>1, <1>2
    <3>2. P2[i] \in Nat \ {0} /\ P2[n] <= P2[i]
      BY ONLY Zenon, <3>1, PowersGrow
    <3> QED BY ONLY <1>1, <3>2
  <2>2. \A p \in Nat \ {0} : v < p => v \div p = 0
    BY SMT, <1>1
  <2> QED BY <2>1, <2>2
<1>3. ASSUME NEW i \in 0..31
      PROVE  lo + i \in O <=> i < n /\ (v \div P2[i]) % 2 = 1
  <2>1. (lo + i) - lo = i /\ 2^i = P2[i]
    BY DEF P2
  <2>2. lo + i \in lo..hi <=> i < n
    OBVIOUS
  <2> QED BY <2>1, <2>2 DEF OfNumber
<1>4. ASSUME NEW i \in 0..31 PROVE Bit(O, lo + i) = (v \div P2[i]) % 2
  <2>1. (v \div P2[i]) % 2 \in {0, 1}
    <3>1. i \in 0..32 /\ P2[i] \in Nat \ {0}
      BY PowersGrow
    <3>2. \A p \in Nat \ {0} : (v \div p) % 2 \in {0, 1}
      OBVIOUS
    <3> QED BY ONLY Zenon, <3>1, <3>2
  <2> QED BY <1>2, <1>3, <2>1 DEF Bit
<1>5. Bits(O, lo, hi) = Bits32(O, lo)
  <2>1. O \cap (lo..hi) = O
    BY DEF OfNumber
  <2> QED BY Zenon, <2>1 DEF Bits
<1>6. Bits32(O, lo) = v % P2[32]
  <2> HIDE DEF O
  <2>1. lo \in Nat /\ \A i \in 0..31 : Bit(O, lo + i) = (v \div P2[i]) % 2
    BY <1>4
  <2> QED BY ONLY SMTT(30), <1>1, <2>1, DigitsRead
<1>7. v % P2[32] = v
  <2>1. P2[32] \in Nat \ {0} /\ v < P2[32]
    BY <1>1, PowersGrow
  <2>2. \A p \in Nat \ {0} : v < p => v % p = v
    BY SMT, <1>1
  <2> QED BY <2>1, <2>2
<1> QED BY <1>5, <1>6, <1>7

(* The rows of the opcodes that the decode tree answers.                   *)
LEMMA RowMatches ==
    ASSUME NEW w
    PROVE
      /\ Matches(w, RowOf["BR"]) <=> (Bits(w, 10, 31) = 3508160 /\ Bits(w, 0, 4) = 0)
      /\ Matches(w, RowOf["BLR"]) <=> (Bits(w, 10, 31) = 3510208 /\ Bits(w, 0, 4) = 0)
      /\ Matches(w, RowOf["RET"]) <=> (Bits(w, 10, 31) = 3512256 /\ Bits(w, 0, 4) = 0)
      /\ Matches(w, RowOf["B"]) <=> Bits(w, 26, 31) = 5
      /\ Matches(w, RowOf["BL"]) <=> Bits(w, 26, 31) = 37
      /\ Matches(w, RowOf["CBZ"]) <=> Bits(w, 24, 30) = 52
      /\ Matches(w, RowOf["CBNZ"]) <=> Bits(w, 24, 30) = 53
      /\ Matches(w, RowOf["ADR"]) <=> (Bits(w, 31, 31) = 0 /\ Bits(w, 24, 28) = 16)
      /\ Matches(w, RowOf["ADRP"]) <=> (Bits(w, 31, 31) = 1 /\ Bits(w, 24, 28) = 16)
      /\ Matches(w, RowOf["ADD_imm"]) <=> Bits(w, 23, 30) = 34
      /\ Matches(w, RowOf["ADDS_imm"]) <=> Bits(w, 23, 30) = 98
      /\ Matches(w, RowOf["SUB_imm"]) <=> Bits(w, 23, 30) = 162
      /\ Matches(w, RowOf["SUBS_imm"]) <=> Bits(w, 23, 30) = 226
      /\ Matches(w, RowOf["MOVN"]) <=> Bits(w, 23, 30) = 37
      /\ Matches(w, RowOf["MOVZ"]) <=> Bits(w, 23, 30) = 165
      /\ Matches(w, RowOf["MOVK"]) <=> Bits(w, 23, 30) = 229
      /\ Matches(w, RowOf["AND_imm"]) <=> Bits(w, 23, 30) = 36
      /\ Matches(w, RowOf["ORR_imm"]) <=> Bits(w, 23, 30) = 100
      /\ Matches(w, RowOf["EOR_imm"]) <=> Bits(w, 23, 30) = 164
      /\ Matches(w, RowOf["ANDS_imm"]) <=> Bits(w, 23, 30) = 228
      /\ Matches(w, RowOf["SBFM"]) <=> Bits(w, 23, 30) = 38
      /\ Matches(w, RowOf["BFM"]) <=> Bits(w, 23, 30) = 102
      /\ Matches(w, RowOf["UBFM"]) <=> Bits(w, 23, 30) = 166
<1>1. /\ Matches(w, RowOf["BR"]) <=> (Bits(w, 10, 31) = 3508160 /\ Bits(w, 0, 4) = 0)
      /\ Matches(w, RowOf["BLR"]) <=> (Bits(w, 10, 31) = 3510208 /\ Bits(w, 0, 4) = 0)
      /\ Matches(w, RowOf["RET"]) <=> (Bits(w, 10, 31) = 3512256 /\ Bits(w, 0, 4) = 0)
      /\ Matches(w, RowOf["B"]) <=> Bits(w, 26, 31) = 5
      /\ Matches(w, RowOf["BL"]) <=> Bits(w, 26, 31) = 37
      /\ Matches(w, RowOf["CBZ"]) <=> Bits(w, 24, 30) = 52
  <2>1. \A k \in {2, 3, 4, 7, 8, 9} : RowOf[Table[k].op] = Table[k]
    BY RowAt
  <2>2. /\ RowOf["BR"].fixed = {<<10, 31, 3508160>>, <<0, 4, 0>>}
        /\ RowOf["BLR"].fixed = {<<10, 31, 3510208>>, <<0, 4, 0>>}
        /\ RowOf["RET"].fixed = {<<10, 31, 3512256>>, <<0, 4, 0>>}
        /\ RowOf["B"].fixed = {<<26, 31, 5>>}
        /\ RowOf["BL"].fixed = {<<26, 31, 37>>}
        /\ RowOf["CBZ"].fixed = {<<24, 30, 52>>}
    BY SMT, <2>1, TableOps, TableBits
  <2> QED BY SMT, <2>2 DEF Matches
<1>2. /\ Matches(w, RowOf["CBNZ"]) <=> Bits(w, 24, 30) = 53
      /\ Matches(w, RowOf["ADR"]) <=> (Bits(w, 31, 31) = 0 /\ Bits(w, 24, 28) = 16)
      /\ Matches(w, RowOf["ADRP"]) <=> (Bits(w, 31, 31) = 1 /\ Bits(w, 24, 28) = 16)
      /\ Matches(w, RowOf["ADD_imm"]) <=> Bits(w, 23, 30) = 34
      /\ Matches(w, RowOf["ADDS_imm"]) <=> Bits(w, 23, 30) = 98
      /\ Matches(w, RowOf["SUB_imm"]) <=> Bits(w, 23, 30) = 162
  <2>1. \A k \in {10, 26, 27, 28, 29, 30} : RowOf[Table[k].op] = Table[k]
    BY RowAt
  <2>2. /\ RowOf["CBNZ"].fixed = {<<24, 30, 53>>}
        /\ RowOf["ADR"].fixed = {<<31, 31, 0>>, <<24, 28, 16>>}
        /\ RowOf["ADRP"].fixed = {<<31, 31, 1>>, <<24, 28, 16>>}
        /\ RowOf["ADD_imm"].fixed = {<<23, 30, 34>>}
        /\ RowOf["ADDS_imm"].fixed = {<<23, 30, 98>>}
        /\ RowOf["SUB_imm"].fixed = {<<23, 30, 162>>}
    BY SMT, <2>1, TableOps, TableBits
  <2> QED BY SMT, <2>2 DEF Matches
<1>3. /\ Matches(w, RowOf["SUBS_imm"]) <=> Bits(w, 23, 30) = 226
      /\ Matches(w, RowOf["MOVN"]) <=> Bits(w, 23, 30) = 37
      /\ Matches(w, RowOf["MOVZ"]) <=> Bits(w, 23, 30) = 165
      /\ Matches(w, RowOf["MOVK"]) <=> Bits(w, 23, 30) = 229
      /\ Matches(w, RowOf["AND_imm"]) <=> Bits(w, 23, 30) = 36
      /\ Matches(w, RowOf["ORR_imm"]) <=> Bits(w, 23, 30) = 100
  <2>1. \A k \in {31, 32, 33, 34, 35, 36} : RowOf[Table[k].op] = Table[k]
    BY RowAt
  <2>2. /\ RowOf["SUBS_imm"].fixed = {<<23, 30, 226>>}
        /\ RowOf["MOVN"].fixed = {<<23, 30, 37>>}
        /\ RowOf["MOVZ"].fixed = {<<23, 30, 165>>}
        /\ RowOf["MOVK"].fixed = {<<23, 30, 229>>}
        /\ RowOf["AND_imm"].fixed = {<<23, 30, 36>>}
        /\ RowOf["ORR_imm"].fixed = {<<23, 30, 100>>}
    BY SMT, <2>1, TableOps, TableBits
  <2> QED BY SMT, <2>2 DEF Matches
<1>4. /\ Matches(w, RowOf["EOR_imm"]) <=> Bits(w, 23, 30) = 164
      /\ Matches(w, RowOf["ANDS_imm"]) <=> Bits(w, 23, 30) = 228
      /\ Matches(w, RowOf["SBFM"]) <=> Bits(w, 23, 30) = 38
      /\ Matches(w, RowOf["BFM"]) <=> Bits(w, 23, 30) = 102
      /\ Matches(w, RowOf["UBFM"]) <=> Bits(w, 23, 30) = 166
  <2>1. \A k \in {37, 38, 39, 40, 41} : RowOf[Table[k].op] = Table[k]
    BY RowAt
  <2>2. /\ RowOf["EOR_imm"].fixed = {<<23, 30, 164>>}
        /\ RowOf["ANDS_imm"].fixed = {<<23, 30, 228>>}
        /\ RowOf["SBFM"].fixed = {<<23, 30, 38>>}
        /\ RowOf["BFM"].fixed = {<<23, 30, 102>>}
        /\ RowOf["UBFM"].fixed = {<<23, 30, 166>>}
    BY SMT, <2>1, TableOps, TableBits
  <2> QED BY SMT, <2>2 DEF Matches
<1> QED BY ONLY <1>1, <1>2, <1>3, <1>4

(* The places of the fields that Assemble writes.                          *)
LEMMA FieldPlaces ==
    /\ "cond" \in DOMAIN Fields /\ Fields["cond"] = <<0, 3>>
    /\ "bch_cond_offset" \in DOMAIN Fields /\ Fields["bch_cond_offset"] = <<5, 23>>
    /\ "bch_ucond_offset" \in DOMAIN Fields /\ Fields["bch_ucond_offset"] = <<0, 25>>
    /\ "Rt" \in DOMAIN Fields /\ Fields["Rt"] = <<0, 4>>
    /\ "Rn" \in DOMAIN Fields /\ Fields["Rn"] = <<5, 9>>
    /\ "Rd" \in DOMAIN Fields /\ Fields["Rd"] = <<0, 4>>
    /\ "imm16" \in DOMAIN Fields /\ Fields["imm16"] = <<5, 20>>
    /\ "hw" \in DOMAIN Fields /\ Fields["hw"] = <<21, 22>>
    /\ "system_register" \in DOMAIN Fields /\ Fields["system_register"] = <<5, 19>>
    /\ "N" \in DOMAIN Fields /\ Fields["N"] = <<22, 22>>
    /\ "imms" \in DOMAIN Fields /\ Fields["imms"] = <<10, 15>>
    /\ "immr" \in DOMAIN Fields /\ Fields["immr"] = <<16, 21>>
    /\ "sf" \in DOMAIN Fields /\ Fields["sf"] = <<31, 31>>
    /\ "addsub_imm_update_sub" \in DOMAIN Fields /\ Fields["addsub_imm_update_sub"] = <<30, 30>>
    /\ "addsub_imm_update_64bit" \in DOMAIN Fields /\ Fields["addsub_imm_update_64bit"] = <<30, 30>>
    /\ "addsub_imm_update_flag" \in DOMAIN Fields /\ Fields["addsub_imm_update_flag"] = <<29, 29>>
<1>1. /\ "cond" \in DOMAIN Fields /\ Fields["cond"] = <<0, 3>>
      /\ "bch_cond_offset" \in DOMAIN Fields /\ Fields["bch_cond_offset"] = <<5, 23>>
      /\ "bch_ucond_offset" \in DOMAIN Fields /\ Fields["bch_ucond_offset"] = <<0, 25>>
      /\ "Rt" \in DOMAIN Fields /\ Fields["Rt"] = <<0, 4>>
  BY SMT DEF Fields
<1>2. /\ "Rn" \in DOMAIN Fields /\ Fields["Rn"] = <<5, 9>>
      /\ "Rd" \in DOMAIN Fields /\ Fields["Rd"] = <<0, 4>>
      /\ "imm16" \in DOMAIN Fields /\ Fields["imm16"] = <<5, 20>>
      /\ "hw" \in DOMAIN Fields /\ Fields["hw"] = <<21, 22>>
  BY SMT DEF Fields
<1>3. /\ "system_register" \in DOMAIN Fields /\ Fields["system_register"] = <<5, 19>>
      /\ "N" \in DOMAIN Fields /\ Fields["N"] = <<22, 22>>
      /\ "imms" \in DOMAIN Fields /\ Fields["imms"] = <<10, 15>>
      /\ "immr" \in DOMAIN Fields /\ Fields["immr"] = <<16, 21>>
  BY SMT DEF Fields
<1>4. /\ "sf" \in DOMAIN Fields /\ Fields["sf"] = <<31, 31>>
      /\ "addsub_imm_update_sub" \in DOMAIN Fields /\ Fields["addsub_imm_update_sub"] = <<30, 30>>
      /\ "addsub_imm_update_64bit" \in DOMAIN Fields /\ Fields["addsub_imm_update_64bit"] = <<30, 30>>
      /\ "addsub_imm_update_flag" \in DOMAIN Fields /\ Fields["addsub_imm_update_flag"] = <<29, 29>>
  BY SMT DEF Fields
<1> QED BY ONLY <1>1, <1>2, <1>3, <1>4

(* Each of them gives back what fits in it.                                *)
LEMMA PutReadBack ==
    ASSUME NEW w, NEW f \in DOMAIN Fields, NEW v \in Nat,
           v < P2[Fields[f][2] - Fields[f][1] + 1]
    PROVE  Get(Put(w, f, v), f) = v
<1> DEFINE lo == Fields[f][1]  hi == Fields[f][2]
<1>1. lo \in 0..31 /\ hi \in 0..31 /\ lo <= hi
  BY FieldsInWord
<1>2. Put(w, f, v) \cap (lo..hi) = OfNumber(v, lo, hi) \cap (lo..hi)
  BY DEF Put, OfNumber
<1>3. Bits(OfNumber(v, lo, hi), lo, hi) = v
  BY <1>1, NumberReadBack
<1> QED BY <1>2, <1>3 DEF Get, Bits

(* Each field that Assemble writes is read back, where the value fits in   *)
(* it.                                                                     *)
LEMMA FieldsReadBack ==
    ASSUME NEW w, NEW v \in Nat
    PROVE
      /\ v < 16 => Get(Put(w, "cond", v), "cond") = v
      /\ v < 524288 => Get(Put(w, "bch_cond_offset", v), "bch_cond_offset") = v
      /\ v < 67108864 => Get(Put(w, "bch_ucond_offset", v), "bch_ucond_offset") = v
      /\ v < 32 => Get(Put(w, "Rt", v), "Rt") = v
      /\ v < 32 => Get(Put(w, "Rn", v), "Rn") = v
      /\ v < 32 => Get(Put(w, "Rd", v), "Rd") = v
      /\ v < 65536 => Get(Put(w, "imm16", v), "imm16") = v
      /\ v < 4 => Get(Put(w, "hw", v), "hw") = v
      /\ v < 32768 => Get(Put(w, "system_register", v), "system_register") = v
      /\ v < 2 => Get(Put(w, "N", v), "N") = v
      /\ v < 64 => Get(Put(w, "imms", v), "imms") = v
      /\ v < 64 => Get(Put(w, "immr", v), "immr") = v
      /\ v < 2 => Get(Put(w, "sf", v), "sf") = v
      /\ v < 2 => Get(Put(w, "addsub_imm_update_sub", v), "addsub_imm_update_sub") = v
      /\ v < 2 => Get(Put(w, "addsub_imm_update_64bit", v), "addsub_imm_update_64bit") = v
      /\ v < 2 => Get(Put(w, "addsub_imm_update_flag", v), "addsub_imm_update_flag") = v
<1>1. v < 16 => Get(Put(w, "cond", v), "cond") = v
  <2>1. "cond" \in DOMAIN Fields /\ Fields["cond"][2] - Fields["cond"][1] + 1 = 4
    BY FieldPlaces
  <2>2. P2[4] = 16
    BY SMT, Powers
  <2> QED BY SMT, <2>1, <2>2, PutReadBack
<1>2. v < 524288 => Get(Put(w, "bch_cond_offset", v), "bch_cond_offset") = v
  <2>1. "bch_cond_offset" \in DOMAIN Fields /\ Fields["bch_cond_offset"][2] - Fields["bch_cond_offset"][1] + 1 = 19
    BY FieldPlaces
  <2>2. P2[19] = 524288
    BY SMT, Powers
  <2> QED BY SMT, <2>1, <2>2, PutReadBack
<1>3. v < 67108864 => Get(Put(w, "bch_ucond_offset", v), "bch_ucond_offset") = v
  <2>1. "bch_ucond_offset" \in DOMAIN Fields /\ Fields["bch_ucond_offset"][2] - Fields["bch_ucond_offset"][1] + 1 = 26
    BY FieldPlaces
  <2>2. P2[26] = 67108864
    BY SMT, Powers
  <2> QED BY SMT, <2>1, <2>2, PutReadBack
<1>4. v < 32 => Get(Put(w, "Rt", v), "Rt") = v
  <2>1. "Rt" \in DOMAIN Fields /\ Fields["Rt"][2] - Fields["Rt"][1] + 1 = 5
    BY FieldPlaces
  <2>2. P2[5] = 32
    BY SMT, Powers
  <2> QED BY SMT, <2>1, <2>2, PutReadBack
<1>5. v < 32 => Get(Put(w, "Rn", v), "Rn") = v
  <2>1. "Rn" \in DOMAIN Fields /\ Fields["Rn"][2] - Fields["Rn"][1] + 1 = 5
    BY FieldPlaces
  <2>2. P2[5] = 32
    BY SMT, Powers
  <2> QED BY SMT, <2>1, <2>2, PutReadBack
<1>6. v < 32 => Get(Put(w, "Rd", v), "Rd") = v
  <2>1. "Rd" \in DOMAIN Fields /\ Fields["Rd"][2] - Fields["Rd"][1] + 1 = 5
    BY FieldPlaces
  <2>2. P2[5] = 32
    BY SMT, Powers
  <2> QED BY SMT, <2>1, <2>2, PutReadBack
<1>7. v < 65536 => Get(Put(w, "imm16", v), "imm16") = v
  <2>1. "imm16" \in DOMAIN Fields /\ Fields["imm16"][2] - Fields["imm16"][1] + 1 = 16
    BY FieldPlaces
  <2>2. P2[16] = 65536
    BY SMT, Powers
  <2> QED BY SMT, <2>1, <2>2, PutReadBack
<1>8. v < 4 => Get(Put(w, "hw", v), "hw") = v
  <2>1. "hw" \in DOMAIN Fields /\ Fields["hw"][2] - Fields["hw"][1] + 1 = 2
    BY FieldPlaces
  <2>2. P2[2] = 4
    BY SMT, Powers
  <2> QED BY SMT, <2>1, <2>2, PutReadBack
<1>9. v < 32768 => Get(Put(w, "system_register", v), "system_register") = v
  <2>1. "system_register" \in DOMAIN Fields /\ Fields["system_register"][2] - Fields["system_register"][1] + 1 = 15
    BY FieldPlaces
  <2>2. P2[15] = 32768
    BY SMT, Powers
  <2> QED BY SMT, <2>1, <2>2, PutReadBack
<1>10. v < 2 => Get(Put(w, "N", v), "N") = v
  <2>1. "N" \in DOMAIN Fields /\ Fields["N"][2] - Fields["N"][1] + 1 = 1
    BY FieldPlaces
  <2>2. P2[1] = 2
    BY SMT, Powers
  <2> QED BY SMT, <2>1, <2>2, PutReadBack
<1>11. v < 64 => Get(Put(w, "imms", v), "imms") = v
  <2>1. "imms" \in DOMAIN Fields /\ Fields["imms"][2] - Fields["imms"][1] + 1 = 6
    BY FieldPlaces
  <2>2. P2[6] = 64
    BY SMT, Powers
  <2> QED BY SMT, <2>1, <2>2, PutReadBack
<1>12. v < 64 => Get(Put(w, "immr", v), "immr") = v
  <2>1. "immr" \in DOMAIN Fields /\ Fields["immr"][2] - Fields["immr"][1] + 1 = 6
    BY FieldPlaces
  <2>2. P2[6] = 64
    BY SMT, Powers
  <2> QED BY SMT, <2>1, <2>2, PutReadBack
<1>13. v < 2 => Get(Put(w, "sf", v), "sf") = v
  <2>1. "sf" \in DOMAIN Fields /\ Fields["sf"][2] - Fields["sf"][1] + 1 = 1
    BY FieldPlaces
  <2>2. P2[1] = 2
    BY SMT, Powers
  <2> QED BY SMT, <2>1, <2>2, PutReadBack
<1>14. v < 2 => Get(Put(w, "addsub_imm_update_sub", v), "addsub_imm_update_sub") = v
  <2>1. "addsub_imm_update_sub" \in DOMAIN Fields /\ Fields["addsub_imm_update_sub"][2] - Fields["addsub_imm_update_sub"][1] + 1 = 1
    BY FieldPlaces
  <2>2. P2[1] = 2
    BY SMT, Powers
  <2> QED BY SMT, <2>1, <2>2, PutReadBack
<1>15. v < 2 => Get(Put(w, "addsub_imm_update_64bit", v), "addsub_imm_update_64bit") = v
  <2>1. "addsub_imm_update_64bit" \in DOMAIN Fields /\ Fields["addsub_imm_update_64bit"][2] - Fields["addsub_imm_update_64bit"][1] + 1 = 1
    BY FieldPlaces
  <2>2. P2[1] = 2
    BY SMT, Powers
  <2> QED BY SMT, <2>1, <2>2, PutReadBack
<1>16. v < 2 => Get(Put(w, "addsub_imm_update_flag", v), "addsub_imm_update_flag") = v
  <2>1. "addsub_imm_update_flag" \in DOMAIN Fields /\ Fields["addsub_imm_update_flag"][2] - Fields["addsub_imm_update_flag"][1] + 1 = 1
    BY FieldPlaces
  <2>2. P2[1] = 2
    BY SMT, Powers
  <2> QED BY SMT, <2>1, <2>2, PutReadBack
<1> QED BY ONLY SMT, <1>1, <1>2, <1>3, <1>4, <1>5, <1>6, <1>7, <1>8, <1>9, <1>10, <1>11, <1>12, <1>13, <1>14, <1>15, <1>16

-----------------------------------------------------------------------------

(* The rows in terms of the fields that the decode tree looks at.          *)
Branch(w) == Get(w, "instr_type_1") \in {10, 11}
DPImm(w, type, opc) ==
    /\ Get(w, "instr_type_1") \in {8, 9}
    /\ Get(w, "dp_type") = type
    /\ Get(w, "opc") = opc
BranchReg(w, opc) ==
    /\ Branch(w) /\ Get(w, "sys_bch_op0") = 6 /\ Get(w, "sys_bch_op1") > 7
    /\ Get(w, "bch_ucond_op2") = 31 /\ Get(w, "bch_ucond_op3") = 0
    /\ Get(w, "bch_ucond_op4") = 0 /\ Get(w, "bch_ucond_opc") = opc

(* The rows of branches that leave nothing open but their operands.        *)
LEMMA BranchRows ==
    ASSUME NEW w
    PROVE  /\ Matches(w, RowOf["BR"]) <=> BranchReg(w, 0)
           /\ Matches(w, RowOf["BLR"]) <=> BranchReg(w, 1)
           /\ Matches(w, RowOf["RET"]) <=> BranchReg(w, 2)
           /\ Matches(w, RowOf["B"]) <=>
                 Branch(w) /\ Get(w, "sys_bch_op0") \in {0, 4} /\ 31 \notin w
           /\ Matches(w, RowOf["BL"]) <=>
                 Branch(w) /\ Get(w, "sys_bch_op0") \in {0, 4} /\ 31 \in w
           /\ Matches(w, RowOf["CBZ"]) <=>
                 /\ Branch(w) /\ Get(w, "sys_bch_op0") \in {1, 5}
                 /\ Get(w, "sys_bch_op1") < 8 /\ 24 \notin w
           /\ Matches(w, RowOf["CBNZ"]) <=>
                 /\ Branch(w) /\ Get(w, "sys_bch_op0") \in {1, 5}
                 /\ Get(w, "sys_bch_op1") < 8 /\ 24 \in w
<1> DEFINE reg == Bits16(w, 10) + 65536 * (Bits4(w, 26) + 16 * Bits2(w, 30))
           low == Bits4(w, 0) + 16 * Bit(w, 4)
<1>1. Bits(w, 10, 31) = reg /\ Bits(w, 0, 4) = low
  BY SMT, FieldOfWidth
<1>2. /\ Bits(w, 26, 31) = Bits4(w, 26) + 16 * Bits2(w, 30)
      /\ Bits(w, 24, 30) = Bits8(w, 24) - 128 * Bit(w, 31)
  BY SMT, FieldOfWidth
<1>3. BranchReg(w, 0) <=> reg = 3508160 /\ low = 0
  BY SMT, SmallFields DEF BranchReg, Branch, Bits16, Bits8, Bits4, Bits2, Bit
<1>4. BranchReg(w, 1) <=> reg = 3510208 /\ low = 0
  BY SMT, SmallFields DEF BranchReg, Branch, Bits16, Bits8, Bits4, Bits2, Bit
<1>5. BranchReg(w, 2) <=> reg = 3512256 /\ low = 0
  BY SMT, SmallFields DEF BranchReg, Branch, Bits16, Bits8, Bits4, Bits2, Bit
<1>6. Matches(w, RowOf["B"]) <=>
         Branch(w) /\ Get(w, "sys_bch_op0") \in {0, 4} /\ 31 \notin w
  BY SMT, <1>2, SmallFields, RowMatches DEF Branch, Bits4, Bits2, Bit
<1>7. Matches(w, RowOf["BL"]) <=>
         Branch(w) /\ Get(w, "sys_bch_op0") \in {0, 4} /\ 31 \in w
  BY SMT, <1>2, SmallFields, RowMatches DEF Branch, Bits4, Bits2, Bit
<1>8. Matches(w, RowOf["CBZ"]) <=>
         /\ Branch(w) /\ Get(w, "sys_bch_op0") \in {1, 5}
         /\ Get(w, "sys_bch_op1") < 8 /\ 24 \notin w
  BY SMT, <1>2, SmallFields, RowMatches DEF Branch, Bits8, Bits4, Bits2, Bit
<1>9. Matches(w, RowOf["CBNZ"]) <=>
         /\ Branch(w) /\ Get(w, "sys_bch_op0") \in {1, 5}
         /\ Get(w, "sys_bch_op1") < 8 /\ 24 \in w
  BY SMT, <1>2, SmallFields, RowMatches DEF Branch, Bits8, Bits4, Bits2, Bit
<1> HIDE DEF reg, low
<1>10. /\ Matches(w, RowOf["BR"]) <=> (reg = 3508160 /\ low = 0)
       /\ Matches(w, RowOf["BLR"]) <=> (reg = 3510208 /\ low = 0)
       /\ Matches(w, RowOf["RET"]) <=> (reg = 3512256 /\ low = 0)
  BY SMT, <1>1, RowMatches
<1> QED BY SMT, <1>3, <1>4, <1>5, <1>6, <1>7, <1>8, <1>9, <1>10

(* The rows of data processing with an immediate.                          *)
LEMMA DPImmRows ==
    ASSUME NEW w
    PROVE  /\ Matches(w, RowOf["ADR"]) <=>
                 /\ Get(w, "instr_type_1") \in {8, 9} /\ Get(w, "dp_type") \in {0, 1}
                 /\ Get(w, "adr_page") = 0
           /\ Matches(w, RowOf["ADRP"]) <=>
                 /\ Get(w, "instr_type_1") \in {8, 9} /\ Get(w, "dp_type") \in {0, 1}
                 /\ Get(w, "adr_page") = 1
           /\ Matches(w, RowOf["ADD_imm"]) <=> DPImm(w, 2, 0)
           /\ Matches(w, RowOf["ADDS_imm"]) <=> DPImm(w, 2, 1)
           /\ Matches(w, RowOf["SUB_imm"]) <=> DPImm(w, 2, 2)
           /\ Matches(w, RowOf["SUBS_imm"]) <=> DPImm(w, 2, 3)
           /\ Matches(w, RowOf["AND_imm"]) <=> DPImm(w, 4, 0)
           /\ Matches(w, RowOf["ORR_imm"]) <=> DPImm(w, 4, 1)
           /\ Matches(w, RowOf["EOR_imm"]) <=> DPImm(w, 4, 2)
           /\ Matches(w, RowOf["ANDS_imm"]) <=> DPImm(w, 4, 3)
           /\ Matches(w, RowOf["MOVN"]) <=> DPImm(w, 5, 0)
           /\ Matches(w, RowOf["MOVZ"]) <=> DPImm(w, 5, 2)
           /\ Matches(w, RowOf["MOVK"]) <=> DPImm(w, 5, 3)
           /\ Matches(w, RowOf["SBFM"]) <=> DPImm(w, 6, 0)
           /\ Matches(w, RowOf["BFM"]) <=> DPImm(w, 6, 1)
           /\ Matches(w, RowOf["UBFM"]) <=> DPImm(w, 6, 2)
<1> DEFINE top == Bits8(w, 23)
<1>1. /\ Bits(w, 23, 30) = top /\ Bits(w, 31, 31) = Bit(w, 31)
      /\ Bits(w, 24, 28) = Bits4(w, 24) + 16 * Bit(w, 28)
  BY SMT, FieldOfWidth
<1>2. /\ Matches(w, RowOf["ADR"]) <=>
            /\ Get(w, "instr_type_1") \in {8, 9} /\ Get(w, "dp_type") \in {0, 1}
            /\ Get(w, "adr_page") = 0
  BY SMT, <1>1, SmallFields, RowMatches DEF Bits4, Bits2, Bit
<1>3. /\ Matches(w, RowOf["ADRP"]) <=>
            /\ Get(w, "instr_type_1") \in {8, 9} /\ Get(w, "dp_type") \in {0, 1}
            /\ Get(w, "adr_page") = 1
  BY SMT, <1>1, SmallFields, RowMatches DEF Bits4, Bits2, Bit
<1>4. ASSUME NEW type \in 2..7, NEW opc \in 0..3
      PROVE  DPImm(w, type, opc) <=> top = 32 + type + 64 * opc
  BY SMT, SmallFields DEF DPImm, Bits8, Bits4, Bits2, Bit
<1> HIDE DEF top
<1>5. /\ DPImm(w, 2, 0) <=> top = 34
      /\ DPImm(w, 2, 1) <=> top = 98
      /\ DPImm(w, 2, 2) <=> top = 162
      /\ DPImm(w, 2, 3) <=> top = 226
      /\ DPImm(w, 4, 0) <=> top = 36
      /\ DPImm(w, 4, 1) <=> top = 100
      /\ DPImm(w, 4, 2) <=> top = 164
      /\ DPImm(w, 4, 3) <=> top = 228
  BY SMT, <1>4
<1>6. /\ DPImm(w, 5, 0) <=> top = 37
      /\ DPImm(w, 5, 2) <=> top = 165
      /\ DPImm(w, 5, 3) <=> top = 229
      /\ DPImm(w, 6, 0) <=> top = 38
      /\ DPImm(w, 6, 1) <=> top = 102
      /\ DPImm(w, 6, 2) <=> top = 166
  BY SMT, <1>4
<1> QED BY SMT, <1>1, <1>2, <1>3, <1>5, <1>6, RowMatches

(* The answers of the decode tree.                                         *)
BranchOps == {"B_cond", "B", "BL", "CBZ", "CBNZ", "TBZ", "TBNZ", "BR", "BLR",
              "RET", "ERET", "DRPS"}
AddSubOps == {"ADD_imm", "ADDS_imm", "SUB_imm", "SUBS_imm"}
LogicalOps == {"AND_imm", "ORR_imm", "EOR_imm", "ANDS_imm"}
Answers ==
    {None, Object("ExpGen", "UN_DECODED"), Object("System", "UN_DECODED"),
     Object("Extract", "EXTR")}
      \cup {Object("Branches", op) : op \in BranchOps}
      \cup {Object("PCRelAdr", op) : op \in {"ADR", "ADRP"}}
      \cup {Object("AddSubImmediate", op) : op \in AddSubOps}
      \cup {Object("MovWide", op) : op \in {"MOVN", "MOVZ", "MOVK"}}
      \cup {Object("LogicalImmediate", op) : op \in LogicalOps}
      \cup {Object("BitField", op) : op \in {"SBFM", "BFM", "UBFM"}}

(* Ranges of the fields that the tree compares.                            *)
LEMMA FieldRanges ==
    ASSUME NEW w
    PROVE  /\ Get(w, "instr_type_1") \in 0..15 /\ Get(w, "dp_type") \in 0..7
           /\ Get(w, "sys_bch_op0") \in 0..7 /\ Get(w, "sys_bch_op1") \in 0..15
           /\ Get(w, "opc") \in 0..3 /\ Get(w, "mov_imm_opc") = Get(w, "opc")
           /\ Get(w, "bch_ucond_opc") \in 0..15 /\ Get(w, "adr_page") \in {0, 1}
           /\ Get(w, "sf") \in {0, 1} /\ Get(w, "N") \in {0, 1}
           /\ Get(w, "immr") \in 0..63 /\ Get(w, "imms") \in 0..63
           /\ Get(w, "cond") \in 0..15 /\ Get(w, "hw") \in 0..3
           /\ Get(w, "Rt") \in 0..31 /\ Get(w, "Rd") \in 0..31
           /\ Get(w, "Rn") \in 0..31
<1>1. \A b : Bit(w, b) \in {0, 1} /\ Bits2(w, b) \in 0..3
  BY SMT DEF Bits2, Bit
<1>2. \A b : Bits4(w, b) \in 0..15
  BY SMT, <1>1 DEF Bits4
<1> QED BY SMT, <1>1, <1>2, SmallFields

(* Decoded branches are those of the rows, but for data processing         *)
(* (register).                                                             *)
LEMMA BranchRegTree ==
    ASSUME NEW w, NEW t, t = DecodeBranchReg(w)
    PROVE  \/ t = None
           \/ t = Object("Branches", "BR") /\ (Branch(w) /\ Get(w, "sys_bch_op0") = 6
                 /\ Get(w, "sys_bch_op1") > 7 => BranchReg(w, 0))
           \/ t = Object("Branches", "BLR") /\ (Branch(w) /\ Get(w, "sys_bch_op0") = 6
                 /\ Get(w, "sys_bch_op1") > 7 => BranchReg(w, 1))
           \/ t = Object("Branches", "RET") /\ (Branch(w) /\ Get(w, "sys_bch_op0") = 6
                 /\ Get(w, "sys_bch_op1") > 7 => BranchReg(w, 2))
           \/ t = Object("Branches", "ERET") \/ t = Object("Branches", "DRPS")
BY SMT, FieldRanges DEF DecodeBranchReg, BranchReg

RowOps == {"BR", "BLR", "RET", "B", "BL", "CBZ", "CBNZ", "ADR", "ADRP"}
            \cup AddSubOps \cup LogicalOps
            \cup {"MOVN", "MOVZ", "MOVK", "SBFM", "BFM", "UBFM"}

(* What the tree answers for branches, exceptions and system instructions: *)
(* a branch only where the word has the bits of its row.                   *)
LEMMA BranchTree ==
    ASSUME NEW w, NEW t, t = DecodeSystemAndBranch(w)
    PROVE  /\ t \in Answers
           /\ Branch(w) /\ t.op \in RowOps => Matches(w, RowOf[t.op])
<1> DEFINE op0 == Get(w, "sys_bch_op0")
           op1 == Get(w, "sys_bch_op1")
<1>1. op0 \in 0..7 /\ op1 \in 0..15
  BY FieldRanges
<1>2. CASE op0 = 2
  <2>1. t \in {None, Object("Branches", "B_cond")}
    BY SMT, <1>1, <1>2 DEF DecodeSystemAndBranch
  <2> QED BY SMT, <2>1 DEF Answers, BranchOps, RowOps, AddSubOps, LogicalOps, None, Object
<1>3. CASE op0 = 6 /\ op1 > 7
  <2>1. t = DecodeBranchReg(w)
    BY SMT, <1>1, <1>3 DEF DecodeSystemAndBranch
  <2>2. t \in Answers
    BY SMT, <2>1, BranchRegTree DEF Answers, BranchOps
  <2>3. Branch(w) /\ t.op \in RowOps => Matches(w, RowOf[t.op])
    BY SMT, <1>3, <2>1, BranchRegTree, BranchRows
       DEF RowOps, AddSubOps, LogicalOps, None, Object
  <2> QED BY <2>2, <2>3
<1>4. CASE op0 = 6 /\ op1 <= 7
  <2>1. t \in {None, Object("ExpGen", "UN_DECODED"), Object("System", "UN_DECODED")}
    BY SMT, <1>1, <1>4 DEF DecodeSystemAndBranch
  <2> QED BY SMT, <2>1 DEF Answers, RowOps, AddSubOps, LogicalOps, None, Object
<1>5. CASE op0 \in {0, 4}
  <2>1. t = Object("Branches", IF 31 \in w THEN "BL" ELSE "B")
    BY SMT, <1>1, <1>5 DEF DecodeSystemAndBranch
  <2> QED BY SMT, <1>5, <2>1, BranchRows DEF Answers, BranchOps, Object
<1>6. CASE op0 \in {1, 5} /\ op1 < 8
  <2>1. t = Object("Branches", IF 24 \in w THEN "CBNZ" ELSE "CBZ")
    BY SMT, <1>1, <1>6 DEF DecodeSystemAndBranch
  <2> QED BY SMT, <1>6, <2>1, BranchRows DEF Answers, BranchOps, Object
<1>7. CASE op0 \in {1, 5} /\ op1 >= 8
  <2>1. t = Object("Branches", IF 24 \in w THEN "TBNZ" ELSE "TBZ")
    BY SMT, <1>1, <1>7 DEF DecodeSystemAndBranch
  <2> QED BY SMT, <2>1 DEF Answers, BranchOps, RowOps, AddSubOps, LogicalOps, Object
<1>8. CASE op0 \in {3, 7}
  <2>1. t = None
    BY SMT, <1>1, <1>8 DEF DecodeSystemAndBranch
  <2> QED BY SMT, <2>1 DEF Answers, RowOps, AddSubOps, LogicalOps, None, Object
<1> QED BY <1>1, <1>2, <1>3, <1>4, <1>5, <1>6, <1>7, <1>8

(* Immediates are decoded as the rows say.                                 *)
LEMMA DPImmTree ==
    ASSUME NEW w, NEW t, t = DecodeDPImm(w)
    PROVE  /\ t \in Answers
           /\ Get(w, "instr_type_1") \in {8, 9} /\ t.op \in RowOps =>
                 Matches(w, RowOf[t.op])
           /\ t.class = "BitField" =>
                 Get(w, "sf") = 1 \/ (Get(w, "immr") <= 31 /\ Get(w, "imms") <= 31)
<1> DEFINE type == Get(w, "dp_type")
           opc == Get(w, "opc")
           dp == Get(w, "instr_type_1") \in {8, 9}
<1>1. type \in 0..7 /\ opc \in 0..3 /\ Get(w, "mov_imm_opc") = opc
      /\ Get(w, "adr_page") \in {0, 1} /\ Get(w, "sf") \in {0, 1}
      /\ Get(w, "immr") \in 0..63 /\ Get(w, "imms") \in 0..63
  BY FieldRanges
<1>2. CASE type \in {0, 1}
  <2>1. t = Object("PCRelAdr", IF Get(w, "adr_page") = 1 THEN "ADRP" ELSE "ADR")
    BY SMT, <1>1, <1>2 DEF DecodeDPImm
  <2> QED BY SMT, <1>1, <1>2, <2>1, DPImmRows DEF Answers, Object
<1>3. CASE type \in {2, 3}
  <2>1. t = None \/ t = Object("AddSubImmediate",
                        <<"ADD_imm", "ADDS_imm", "SUB_imm", "SUBS_imm">>[opc + 1])
    BY SMT, <1>1, <1>3 DEF DecodeDPImm
  <2>2. t = None \/ type = 2
    BY SMT, <1>1, <1>3, SmallFields DEF DecodeDPImm, Bits2, Bit
  <2>3. t = None \/ \/ opc = 0 /\ t = Object("AddSubImmediate", "ADD_imm")
                    \/ opc = 1 /\ t = Object("AddSubImmediate", "ADDS_imm")
                    \/ opc = 2 /\ t = Object("AddSubImmediate", "SUB_imm")
                    \/ opc = 3 /\ t = Object("AddSubImmediate", "SUBS_imm")
    BY SMT, <1>1, <2>1
  <2> QED BY SMT, <2>2, <2>3, DPImmRows
          DEF Answers, DPImm, RowOps, AddSubOps, LogicalOps, None, Object
<1>4. CASE type = 4
  <2>1. t = None \/ t = Object("LogicalImmediate",
                        <<"AND_imm", "ORR_imm", "EOR_imm", "ANDS_imm">>[opc + 1])
    BY SMT, <1>1, <1>4 DEF DecodeDPImm
  <2>2. t = None \/ \/ opc = 0 /\ t = Object("LogicalImmediate", "AND_imm")
                    \/ opc = 1 /\ t = Object("LogicalImmediate", "ORR_imm")
                    \/ opc = 2 /\ t = Object("LogicalImmediate", "EOR_imm")
                    \/ opc = 3 /\ t = Object("LogicalImmediate", "ANDS_imm")
    BY SMT, <1>1, <2>1
  <2> QED BY SMT, <1>4, <2>2, DPImmRows
          DEF Answers, DPImm, RowOps, AddSubOps, LogicalOps, None, Object
<1>5. CASE type = 5
  <2>1. t = None \/ (opc # 1 /\ t = Object("MovWide",
                        <<"MOVN", "none", "MOVZ", "MOVK">>[opc + 1]))
    BY SMT, <1>1, <1>5 DEF DecodeDPImm, DecodeMovWide
  <2>2. t = None \/ \/ opc = 0 /\ t = Object("MovWide", "MOVN")
                    \/ opc = 2 /\ t = Object("MovWide", "MOVZ")
                    \/ opc = 3 /\ t = Object("MovWide", "MOVK")
    BY SMT, <1>1, <2>1
  <2> QED BY SMT, <1>5, <2>2, DPImmRows
          DEF Answers, DPImm, RowOps, AddSubOps, LogicalOps, None, Object
<1>6. CASE type = 6
  <2>1. t = None \/ (/\ opc # 3 /\ t = Object("BitField", <<"SBFM", "BFM", "UBFM">>[opc + 1])
                     /\ Get(w, "sf") = 1 \/ (Get(w, "immr") <= 31 /\ Get(w, "imms") <= 31))
    BY SMT, <1>1, <1>6 DEF DecodeDPImm, DecodeBitField
  <2>2. t = None \/ (/\ \/ opc = 0 /\ t = Object("BitField", "SBFM")
                        \/ opc = 1 /\ t = Object("BitField", "BFM")
                        \/ opc = 2 /\ t = Object("BitField", "UBFM")
                     /\ Get(w, "sf") = 1 \/ (Get(w, "immr") <= 31 /\ Get(w, "imms") <= 31))
    BY SMT, <1>1, <2>1
  <2> QED BY SMT, <1>6, <2>2, DPImmRows
          DEF Answers, DPImm, RowOps, AddSubOps, LogicalOps, None, Object
<1>7. CASE type = 7
  <2>1. t \in {None, Object("Extract", "EXTR")}
    BY SMT, <1>1, <1>7 DEF DecodeDPImm
  <2> QED BY SMT, <2>1 DEF Answers, RowOps, AddSubOps, LogicalOps, None, Object
<1> QED BY <1>1, <1>2, <1>3, <1>4, <1>5, <1>6, <1>7

(* The tree answers objects that it knows, and by the row.                 *)
LEMMA TreeAnswers ==
    ASSUME NEW w, NEW t, t = Tree(w)
    PROVE  /\ t \in Answers
           /\ Get(w, "instr_type_1") \notin {5, 13} /\ t.op \in RowOps =>
                 Matches(w, RowOf[t.op])
           /\ t.class = "BitField" =>
                 Get(w, "sf") = 1 \/ (Get(w, "immr") <= 31 /\ Get(w, "imms") <= 31)
<1> DEFINE type == Get(w, "instr_type_1")
<1>1. CASE type \in {8, 9}
  <2>1. t = DecodeDPImm(w)
    BY SMT, <1>1 DEF Tree
  <2> QED BY <1>1, <2>1, DPImmTree
<1>2. CASE type \in {5, 13, 10, 11}
  <2>1. t = DecodeSystemAndBranch(w)
    BY SMT, <1>2 DEF Tree
  <2>2. t \in Answers /\ (Branch(w) /\ t.op \in RowOps => Matches(w, RowOf[t.op]))
    BY <2>1, BranchTree
  <2>3. t.class # "BitField"
    BY SMT, <2>1, BranchRegTree DEF DecodeSystemAndBranch, None, Object
  <2> QED BY SMT, <1>2, <2>2, <2>3 DEF Branch
<1>3. CASE type \notin {5, 8, 9, 10, 11, 13}
  <2>1. t = None
    BY SMT, <1>3 DEF Tree
  <2> QED BY SMT, <2>1 DEF Answers, RowOps, AddSubOps, LogicalOps, None, Object
<1> QED BY <1>1, <1>2, <1>3

(* The objects that the decoder makes, by the kind of their operands.      *)
ExpGenOps == {"SVC", "HVC", "SMC", "BRK", "HLT", "DCPS1", "DCPS2", "DCPS3"}
SystemOps == {"MRS", "MSR_imm", "MSR_reg"}
LogicalValues ==
    {Ones} \cup {v \in (1..6) \X (0..62) \X (0..63) :
                   v[2] < P2[v[1]] - 1 /\ v[3] < P2[v[1]]}

CondBranches ==
    [class : {"Branches"}, op : {"B_cond"},
     operands : [cond : 0..15, link : {FALSE}, offset : Int]]
Jumps ==
    [class : {"Branches"}, op : {"B"}, operands : [link : {FALSE}, offset : Int]]
      \cup
    [class : {"Branches"}, op : {"BL"}, operands : [link : {TRUE}, offset : Int]]
Compares ==
    [class : {"Branches"}, op : {"CBZ", "CBNZ"},
     operands : [rt : Register, link : {FALSE}, offset : Int]]
RegJumps ==
    [class : {"Branches"}, op : {"BR"}, operands : [rn : Register, link : {FALSE}]]
      \cup
    [class : {"Branches"}, op : {"BLR"}, operands : [rn : Register, link : {TRUE}]]
Returns == [class : {"Branches"}, op : {"RET"}, operands : [link : {FALSE}]]
Exceptions == [class : {"ExpGen"}, op : ExpGenOps, operands : [imm : Imm16]]
SystemMoves ==
    [class : {"System"}, op : SystemOps,
     operands : [rt : Register, system_register : SysRegs]]
Hints == [class : {"System"}, op : {"NOP", "YIELD"}, operands : {<<>>}]
Addresses ==
    [class : {"PCRelAdr"}, op : {"ADR", "ADRP"},
     operands : [backup : Word, offset : Int]]
(* Bit 30 is both the width and the subtraction.                           *)
AddSubOperandSet ==
    {o \in [is_sub : BOOLEAN, update_flag : BOOLEAN, imm : Nat,
            rd : Register, rn : Register] : o.is_sub = o.rd.x}
AddSubs ==
    [class : {"AddSubImmediate"}, op : AddSubOps, operands : AddSubOperandSet]
MovWides ==
    [class : {"MovWide"}, op : {"MOVN", "MOVZ", "MOVK"},
     operands : [rd : Register, imm : Imm16, shift : {0, 16, 32, 48}]]
Logicals ==
    [class : {"LogicalImmediate"}, op : LogicalOps,
     operands : [rd : Register, logical : LogicalValues]]
BitFieldOperandSet ==
    {o \in [R : 0..63, S : 0..63, rd : Register, rn : Register] :
       ~o.rd.x => o.R <= 31 /\ o.S <= 31}
BitFields ==
    [class : {"BitField"}, op : {"SBFM", "BFM", "UBFM"}, operands : BitFieldOperandSet]
Extracts == [class : {"Extract"}, op : {"EXTR"}, operands : [backup : Word]]

BranchObjects == CondBranches \cup Jumps \cup Compares \cup RegJumps \cup Returns
Objects ==
    BranchObjects \cup Exceptions \cup SystemMoves \cup Hints \cup Addresses
      \cup AddSubs \cup MovWides \cup Logicals \cup BitFields \cup Extracts

(* The opcode that Decode gives an object.                                 *)
OpOf(w) ==
    IF Tree(w).op = "UN_DECODED" THEN DecodeOpCode(w, Tree(w).class) ELSE Tree(w).op

(* The opcodes of the objects are in the instruction table.                *)
LEMMA OpsOfObjects ==
    /\ BranchOps \subseteq Opcodes /\ ExpGenOps \subseteq Opcodes
    /\ SystemOps \cup {"NOP", "YIELD"} \subseteq Opcodes
    /\ {"ADR", "ADRP", "EXTR", "MOVN", "MOVZ", "MOVK", "SBFM", "BFM", "UBFM"} \subseteq Opcodes
    /\ AddSubOps \subseteq Opcodes /\ LogicalOps \subseteq Opcodes
<1>1. \A k \in 1..42 : Table[k].op \in Opcodes
  BY TableOps DEF Opcodes
<1>2. BranchOps \subseteq Opcodes
  BY SMT, <1>1, TableOps DEF BranchOps
<1>3. ExpGenOps \subseteq Opcodes
  BY SMT, <1>1, TableOps DEF ExpGenOps
<1>4. SystemOps \cup {"NOP", "YIELD"} \subseteq Opcodes
  BY SMT, <1>1, TableOps DEF SystemOps
<1>5. {"ADR", "ADRP", "EXTR", "MOVN", "MOVZ", "MOVK", "SBFM", "BFM", "UBFM"} \subseteq Opcodes
  BY SMT, <1>1, TableOps
<1>6. AddSubOps \subseteq Opcodes /\ LogicalOps \subseteq Opcodes
  BY SMT, <1>1, TableOps DEF AddSubOps, LogicalOps
<1> QED BY ONLY <1>2, <1>3, <1>4, <1>5, <1>6

(* The logical immediate of any word is all ones or a run of ones.         *)
LEMMA Longest ==
    ASSUME NEW size \in Int
    PROVE  /\ Max({k \in 0..6 : 2^k <= size \/ k = 0}) \in 0..6
           /\ size < 2 => Max({k \in 0..6 : 2^k <= size \/ k = 0}) = 0
           /\ \A l \in 1..6 : P2[l] <= size /\ (l < 6 => size < P2[l + 1]) =>
                 Max({k \in 0..6 : 2^k <= size \/ k = 0}) = l
<1> DEFINE L == {k \in 0..6 : 2^k <= size \/ k = 0}
<1>1. L = {k \in 0..6 : P2[k] <= size \/ k = 0}
  <2>1. \A k \in 0..6 : 2^k = P2[k]
    BY DEF P2
  <2> QED BY <2>1
<1> HIDE DEF L
<1>2. ASSUME NEW l \in L, \A k \in L : l >= k PROVE Max(L) = l
  <2>1. \A x \in L : (\A k \in L : x >= k) => x = l
    BY SMT, <1>1, <1>2
  <2> QED BY <1>2, <2>1 DEF Max
<1>3. size < 2 => Max(L) = 0
  <2>1. size < 2 => 0 \in L /\ \A k \in L : 0 >= k
    BY SMT, <1>1, Powers
  <2> QED BY <1>2, <2>1
<1>4. ASSUME NEW l \in 1..6, P2[l] <= size, l < 6 => size < P2[l + 1] PROVE Max(L) = l
  <2>1. l \in L /\ \A k \in L : l >= k
    <3>1. l \in L
      BY SMT, <1>1, <1>4
    <3>2. ASSUME NEW k \in L, k > l PROVE FALSE
      <4>1. k \in 0..6 /\ P2[k] <= size /\ l + 1 \in 0..32 /\ k \in 0..32 /\ l + 1 <= k /\ l < 6
        BY SMTT(30), <1>1, <3>2
      <4>2. P2[l + 1] <= P2[k] /\ P2[k] \in Nat /\ P2[l + 1] \in Nat
        BY <4>1, PowersGrow
      <4> QED BY SMT, <1>4, <4>1, <4>2
    <3> QED BY SMT, <1>1, <3>1, <3>2
  <2> QED BY <1>2, <2>1
<1>5. Max(L) \in 0..6
  <2>1. \/ size < 2
        \/ \E l \in 1..6 : P2[l] <= size /\ (l < 6 => size < P2[l + 1])
    <3>1. /\ P2[1] = 2 /\ P2[2] = 4 /\ P2[3] = 8 /\ P2[4] = 16 /\ P2[5] = 32 /\ P2[6] = 64
      BY SMT, Powers
    <3>2. /\ size >= 64 => P2[6] <= size /\ (6 < 6 => size < P2[6 + 1])
          /\ size >= 32 /\ size < 64 => P2[5] <= size /\ (5 < 6 => size < P2[5 + 1])
          /\ size >= 16 /\ size < 32 => P2[4] <= size /\ (4 < 6 => size < P2[4 + 1])
          /\ size >= 8 /\ size < 16 => P2[3] <= size /\ (3 < 6 => size < P2[3 + 1])
          /\ size >= 4 /\ size < 8 => P2[2] <= size /\ (2 < 6 => size < P2[2 + 1])
          /\ size >= 2 /\ size < 4 => P2[1] <= size /\ (1 < 6 => size < P2[1 + 1])
      BY SMT, <3>1
    <3> QED BY SMT, <3>2
  <2> QED BY <1>3, <1>4, <2>1
<1> QED BY <1>3, <1>4, <1>5 DEF L

(* GetLogicalImmediate of any fields is all ones or a run within its       *)
(* element.                                                                *)
LEMMA LogicalTyped ==
    ASSUME NEW w
    PROVE  LogicalImmediate(w) \in LogicalValues
<1> DEFINE imms == Get(w, "imms")
           immr == Get(w, "immr")
           size == 64 * Get(w, "N") + 63 - imms
           length == Max({k \in 0..6 : 2^k <= size \/ k = 0})
<1>1. imms \in 0..63 /\ immr \in 0..63 /\ Get(w, "N") \in {0, 1}
  BY FieldRanges
<1>2. size \in Int
  BY SMT, <1>1
<1>3. length \in 0..6
  BY ONLY <1>2, Longest
<1>4. LogicalImmediate(w) =
        IF imms % 2^length = 2^length - 1 THEN Ones
        ELSE <<length, imms % 2^length, immr % 2^length>>
  BY DEF LogicalImmediate
<1> HIDE DEF imms, immr, size, length
<1>5. 2^length = P2[length]
  BY <1>3 DEF P2
<1>6. LogicalImmediate(w) =
        IF imms % P2[length] = P2[length] - 1 THEN Ones
        ELSE <<length, imms % P2[length], immr % P2[length]>>
  BY <1>4, <1>5
<1>7. ASSUME imms % P2[length] # P2[length] - 1
      PROVE  <<length, imms % P2[length], immr % P2[length]>> \in LogicalValues
  <2>1. PICK p \in Nat \ {0} : p = P2[length] /\ p <= 64 /\ (length = 0 => p = 1)
    BY SMT, <1>3, Powers
  <2>2. /\ imms % p \in Nat /\ imms % p < p /\ immr % p \in Nat /\ immr % p < p
    BY SMT, <1>1
  <2>3. imms % p # p - 1
    BY <1>7, <2>1
  <2>4. length # 0
    BY SMT, <2>1, <2>2, <2>3
  <2>5. /\ length \in 1..6 /\ imms % p \in 0..62 /\ immr % p \in 0..63
        /\ imms % p < p - 1 /\ immr % p < p
    BY SMT, <1>3, <2>1, <2>2, <2>3, <2>4
  <2> QED BY <2>1, <2>5 DEF LogicalValues
<1> QED BY <1>6, <1>7 DEF LogicalValues

(* What Decode makes of the operands of a word is one of these objects.    *)
LEMMA OffsetTyped ==
    ASSUME NEW w
    PROVE  /\ DecodeOffset(w, "bch_cond_offset", 19, 2) \in Int
           /\ DecodeOffset(w, "bch_ucond_offset", 26, 2) \in Int
<1>1. PICK c \in Nat, u \in Nat :
         c = Get(w, "bch_cond_offset") /\ u = Get(w, "bch_ucond_offset")
  BY LargeFields
<1>2. SignExtend(c * 2^2, 19 + 2) \in Int /\ SignExtend(u * 2^2, 26 + 2) \in Int
  BY SMT DEF SignExtend
<1> QED BY <1>1, <1>2 DEF DecodeOffset

(* What Disassemble makes of a branch is an object of its kind.            *)
LEMMA BranchTyped ==
    ASSUME NEW w, NEW op \in BranchOps, NEW o \in Operands("Branches", op, w)
    PROVE  [class |-> "Branches", op |-> op, operands |-> o] \in BranchObjects
<1> DEFINE i == [class |-> "Branches", op |-> op, operands |-> o]
           cond == Get(w, "cond")
           near == DecodeOffset(w, "bch_cond_offset", 19, 2)
           far == DecodeOffset(w, "bch_ucond_offset", 26, 2)
           rt == XREG(Get(w, "Rt"))
           rn == XREG(Get(w, "Rn"))
<1>1. cond \in 0..15 /\ near \in Int /\ far \in Int /\ rt \in Register /\ rn \in Register
  BY FieldRanges, OffsetTyped DEF Register, XREG
<1>2. o \in BranchOperands(op, w)
  BY SMT DEF Operands
<1>3. op \in {"B_cond", "B", "BL", "CBZ", "CBNZ", "BR", "BLR", "RET"}
  BY SMT, <1>2 DEF BranchOperands, BranchOps
<1>4. ASSUME op = "B_cond" PROVE i \in CondBranches
  <2>1. BranchOperands(op, w) = {[cond |-> cond, link |-> FALSE, offset |-> near]}
    BY <1>4 DEF BranchOperands
  <2>2. o = [cond |-> cond, link |-> FALSE, offset |-> near]
    BY <1>2, <2>1
  <2>3. o \in [cond : 0..15, link : {FALSE}, offset : Int]
    BY <1>1, <2>2
  <2> QED BY <1>4, <2>3 DEF CondBranches
<1>5. ASSUME op = "B" PROVE i \in Jumps
  <2>1. BranchOperands(op, w) = {[link |-> FALSE, offset |-> far]}
    BY <1>5 DEF BranchOperands
  <2>2. o = [link |-> FALSE, offset |-> far]
    BY <1>2, <2>1
  <2>3. o \in [link : {FALSE}, offset : Int]
    BY <1>1, <2>2
  <2> QED BY <1>5, <2>3 DEF Jumps
<1>6. ASSUME op = "BL" PROVE i \in Jumps
  <2>1. BranchOperands(op, w) = {[link |-> TRUE, offset |-> far]}
    BY <1>6 DEF BranchOperands
  <2>2. o = [link |-> TRUE, offset |-> far]
    BY <1>2, <2>1
  <2>3. o \in [link : {TRUE}, offset : Int]
    BY <1>1, <2>2
  <2> QED BY <1>6, <2>3 DEF Jumps
<1>7. ASSUME op = "CBZ" PROVE i \in Compares
  <2>1. BranchOperands(op, w) = {[rt |-> rt, link |-> FALSE, offset |-> far]}
    BY <1>7 DEF BranchOperands
  <2>2. o = [rt |-> rt, link |-> FALSE, offset |-> far]
    BY <1>2, <2>1
  <2>3. o \in [rt : Register, link : {FALSE}, offset : Int]
    BY <1>1, <2>2
  <2> QED BY <1>7, <2>3 DEF Compares
<1>8. ASSUME op = "CBNZ" PROVE i \in Compares
  <2>1. BranchOperands(op, w) = {[rt |-> rt, link |-> FALSE, offset |-> far]}
    BY <1>8 DEF BranchOperands
  <2>2. o = [rt |-> rt, link |-> FALSE, offset |-> far]
    BY <1>2, <2>1
  <2>3. o \in [rt : Register, link : {FALSE}, offset : Int]
    BY <1>1, <2>2
  <2> QED BY <1>8, <2>3 DEF Compares
<1>9. ASSUME op = "BR" PROVE i \in RegJumps
  <2>1. BranchOperands(op, w) = {[rn |-> rn, link |-> FALSE]}
    BY <1>9 DEF BranchOperands
  <2>2. o = [rn |-> rn, link |-> FALSE]
    BY <1>2, <2>1
  <2>3. o \in [rn : Register, link : {FALSE}]
    BY <1>1, <2>2
  <2> QED BY <1>9, <2>3 DEF RegJumps
<1>10. ASSUME op = "BLR" PROVE i \in RegJumps
  <2>1. BranchOperands(op, w) = {[rn |-> rn, link |-> TRUE]}
    BY <1>10 DEF BranchOperands
  <2>2. o = [rn |-> rn, link |-> TRUE]
    BY <1>2, <2>1
  <2>3. o \in [rn : Register, link : {TRUE}]
    BY <1>1, <2>2
  <2> QED BY <1>10, <2>3 DEF RegJumps
<1>11. ASSUME op = "RET" PROVE i \in Returns
  <2>1. BranchOperands(op, w) = {[link |-> FALSE]}
    BY <1>11 DEF BranchOperands
  <2>2. o = [link |-> FALSE]
    BY <1>2, <2>1
  <2>3. o \in [link : {FALSE}]
    BY <1>1, <2>2
  <2> QED BY <1>11, <2>3 DEF Returns
<1> QED BY <1>3, <1>4, <1>5, <1>6, <1>7, <1>8, <1>9, <1>10, <1>11 DEF BranchObjects

(* The same for exceptions and system instructions.                        *)
LEMMA SystemTyped ==
    ASSUME NEW w, NEW class \in {"ExpGen", "System"}, NEW op,
           op = DecodeOpCode(w, class), op # "INVALID", NEW o \in Operands(class, op, w)
    PROVE  [class |-> class, op |-> op, operands |-> o]
             \in Exceptions \cup SystemMoves \cup Hints
<1>1. PICK k \in 1..42 : Table[k].type = class /\ op = Table[k].op
  BY DecodedType
<1>2. class = "ExpGen" => op \in ExpGenOps
  <2>1. class = "ExpGen" => k \in 13..20
    BY <1>1, TableTypes
  <2> QED BY SMT, <1>1, <2>1, TableOps DEF ExpGenOps
<1>3. class = "System" => op \in SystemOps \cup {"NOP", "YIELD"}
  <2>1. class = "System" => k \in 21..25
    BY <1>1, TableTypes
  <2> QED BY SMT, <1>1, <2>1, TableOps DEF SystemOps
<1>4. class = "ExpGen" => o = [imm |-> Get(w, "imm16")]
  BY SMT DEF Operands
<1>5. class = "System" => o \in SystemOperands(op, w)
  BY SMT DEF Operands
<1>6. /\ class = "System" /\ op \in SystemOps =>
           o = [rt |-> XREG(Get(w, "Rd")), system_register |-> Get(w, "system_register")]
      /\ class = "System" /\ op \notin SystemOps => o = <<>>
  BY <1>5 DEF SystemOperands, SystemOps
<1>7. Get(w, "imm16") \in Imm16
  BY LargeFields
<1>8. XREG(Get(w, "Rd")) \in Register
  BY FieldRanges DEF Register, XREG
<1>9. Get(w, "system_register") \in SysRegs
  BY LargeFields
<1>10. class = "ExpGen" => [class |-> class, op |-> op, operands |-> o] \in Exceptions
  BY <1>2, <1>4, <1>7 DEF Exceptions
<1>11. class = "System" /\ op \in SystemOps =>
         [class |-> class, op |-> op, operands |-> o] \in SystemMoves
  <2>1. [rt |-> XREG(Get(w, "Rd")), system_register |-> Get(w, "system_register")]
          \in [rt : Register, system_register : SysRegs]
    BY <1>8, <1>9
  <2> QED BY <1>6, <2>1 DEF SystemMoves
<1>12. class = "System" /\ op \notin SystemOps =>
         [class |-> class, op |-> op, operands |-> o] \in Hints
  BY <1>3, <1>6 DEF Hints, SystemOps
<1> QED BY <1>10, <1>11, <1>12

(* The same for data processing with an immediate.                         *)
LEMMA DPImmTyped ==
    ASSUME NEW w \in Word, NEW class, NEW op, NEW o \in Operands(class, op, w),
           \/ class = "PCRelAdr" /\ op \in {"ADR", "ADRP"}
           \/ class = "AddSubImmediate" /\ op \in AddSubOps
           \/ class = "MovWide" /\ op \in {"MOVN", "MOVZ", "MOVK"}
           \/ class = "LogicalImmediate" /\ op \in LogicalOps
           \/ /\ class = "BitField" /\ op \in {"SBFM", "BFM", "UBFM"}
              /\ Get(w, "sf") = 1 \/ (Get(w, "immr") <= 31 /\ Get(w, "imms") <= 31)
           \/ class = "Extract" /\ op = "EXTR"
    PROVE  [class |-> class, op |-> op, operands |-> o]
             \in Addresses \cup AddSubs \cup MovWides \cup Logicals \cup BitFields \cup Extracts
<1> DEFINE i == [class |-> class, op |-> op, operands |-> o]
<1>1. \A x \in BOOLEAN : Reg(x, Get(w, "Rd")) \in Register /\ Reg(x, Get(w, "Rn")) \in Register
                         /\ Reg(x, Get(w, "Rd")).x = x
  BY FieldRanges DEF Register, Reg, XREG, WREG
<1>2. class = "PCRelAdr" /\ op \in {"ADR", "ADRP"} => i \in Addresses
  <2>1. PICK imm \in Nat : imm = Get(w, "immhi") * 4 + Get(w, "immlo")
    <3>1. PICK h \in Nat, l \in Nat : h = Get(w, "immhi") /\ l = Get(w, "immlo")
      BY LargeFields
    <3>2. h * 4 + l \in Nat
      BY SMT
    <3> QED BY <3>1, <3>2
  <2>2. SignExtend(imm, 21) \in Int
    BY SMT DEF SignExtend
  <2>3. class = "PCRelAdr" => o \in PCRelOperands(op, w)
    BY SMT DEF Operands
  <2>4. class = "PCRelAdr" => \E d \in Int : o = [backup |-> w, offset |-> d]
    <3>1. ASSUME class = "PCRelAdr"
          PROVE  \E e \in Offsets :
                   o = [backup |-> w, offset |-> IF op = "ADR" THEN SignExtend(imm, 21) ELSE e]
      BY <2>1, <2>3, <3>1 DEF PCRelOperands
    <3>2. \A e \in Offsets : (IF op = "ADR" THEN SignExtend(imm, 21) ELSE e) \in Int
      BY <2>2, ArgumentsAssumption
    <3> QED BY <3>1, <3>2
  <2> QED BY <2>4 DEF Addresses
<1>3. class = "AddSubImmediate" /\ op \in AddSubOps => i \in AddSubs
  <2> DEFINE is64 == Get(w, "addsub_imm_update_64bit") = 1
             sub == Get(w, "addsub_imm_update_sub") = 1
             flag == Get(w, "addsub_imm_update_flag") = 1
             imm == Get(w, "dp_imm") * (IF Get(w, "shift") = 1 THEN 4096 ELSE 1)
  <2>1. class = "AddSubImmediate" =>
          o = [is_sub |-> sub, update_flag |-> flag, imm |-> imm,
               rd |-> Reg(is64, Get(w, "Rd")), rn |-> Reg(is64, Get(w, "Rn"))]
    <3>1. class = "AddSubImmediate" => o \in AddSubOperands(w)
      BY SMT DEF Operands
    <3> QED BY <3>1 DEF AddSubOperands
  <2>2. is64 \in BOOLEAN /\ sub \in BOOLEAN /\ flag \in BOOLEAN /\ sub = is64
    BY SmallFields
  <2>3. imm \in Nat
    <3>1. PICK d \in Nat : d = Get(w, "dp_imm")
      BY LargeFields
    <3>2. d * 4096 \in Nat /\ d * 1 \in Nat
      BY SMT
    <3> QED BY <3>1, <3>2
  <2> HIDE DEF is64, sub, flag, imm
  <2>4. Reg(is64, Get(w, "Rd")) \in Register /\ Reg(is64, Get(w, "Rn")) \in Register
        /\ Reg(is64, Get(w, "Rd")).x = sub
    BY <1>1, <2>2
  <2>5. class = "AddSubImmediate" => o \in AddSubOperandSet
    BY SMT, <2>1, <2>2, <2>3, <2>4 DEF AddSubOperandSet
  <2> QED BY <2>5 DEF AddSubs
<1>4. class = "MovWide" /\ op \in {"MOVN", "MOVZ", "MOVK"} => i \in MovWides
  <2> DEFINE is64 == Get(w, "addsub_imm_update_64bit") = 1
  <2>1. class = "MovWide" =>
          o = [rd |-> Reg(is64, Get(w, "Rd")),
               imm |-> Get(w, "imm16"), shift |-> Get(w, "hw") * 16]
    BY SMT DEF Operands
  <2>2. Get(w, "imm16") \in Imm16 /\ Get(w, "hw") * 16 \in {0, 16, 32, 48}
    BY SMT, LargeFields, FieldRanges
  <2>3. Reg(is64, Get(w, "Rd")) \in Register
    BY <1>1
  <2> HIDE DEF is64
  <2> QED BY SMT, <2>1, <2>2, <2>3 DEF MovWides
<1>5. class = "LogicalImmediate" /\ op \in LogicalOps => i \in Logicals
  <2>1. class = "LogicalImmediate" =>
          o = [rd |-> Reg(Get(w, "sf") = 1, Get(w, "Rd")), logical |-> LogicalImmediate(w)]
    BY SMT DEF Operands
  <2>2. Reg(Get(w, "sf") = 1, Get(w, "Rd")) \in Register
    BY <1>1
  <2> QED BY <2>1, <2>2, LogicalTyped DEF Logicals
<1>6. class = "BitField" /\ op \in {"SBFM", "BFM", "UBFM"}
        /\ (Get(w, "sf") = 1 \/ (Get(w, "immr") <= 31 /\ Get(w, "imms") <= 31))
        => i \in BitFields
  <2> DEFINE is64 == Get(w, "sf") = 1
  <2>1. class = "BitField" =>
          o = [R |-> Get(w, "immr"), S |-> Get(w, "imms"),
               rd |-> Reg(is64, Get(w, "Rd")), rn |-> Reg(is64, Get(w, "Rn"))]
    BY SMT DEF Operands
  <2>2. /\ Reg(is64, Get(w, "Rd")) \in Register /\ Reg(is64, Get(w, "Rn")) \in Register
        /\ Reg(is64, Get(w, "Rd")).x = is64
    BY <1>1
  <2>3. Get(w, "immr") \in 0..63 /\ Get(w, "imms") \in 0..63
    BY FieldRanges
  <2>4. class = "BitField" /\ (is64 \/ (Get(w, "immr") <= 31 /\ Get(w, "imms") <= 31))
          => o \in BitFieldOperandSet
    <3> HIDE DEF is64
    <3> QED BY SMT, <2>1, <2>2, <2>3 DEF BitFieldOperandSet
  <2> QED BY <2>4 DEF BitFields
<1>7. class = "Extract" /\ op = "EXTR" => i \in Extracts
  <2>1. class = "Extract" => o = [backup |-> w]
    BY SMT DEF Operands
  <2> QED BY <2>1 DEF Extracts
<1> QED BY <1>2, <1>3, <1>4, <1>5, <1>6, <1>7

(* Whatever Disassemble leaves for a word is one of Objects.               *)
LEMMA OperandsTyped ==
    ASSUME NEW w \in Word, NEW t, t = Tree(w), OpOf(w) # "INVALID",
           NEW o \in Operands(t.class, OpOf(w), w)
    PROVE  [class |-> t.class, op |-> OpOf(w), operands |-> o] \in Objects
<1> DEFINE i == [class |-> t.class, op |-> OpOf(w), operands |-> o]
<1>1. t \in Answers /\ (t.class = "BitField" =>
         Get(w, "sf") = 1 \/ (Get(w, "immr") <= 31 /\ Get(w, "imms") <= 31))
  BY TreeAnswers
<1>2. OpOf(w) = IF t.op = "UN_DECODED" THEN DecodeOpCode(w, t.class) ELSE t.op
  BY DEF OpOf
<1>3. CASE t = None
  BY <1>2, <1>3 DEF None, Object
<1>4. CASE t \in {Object("ExpGen", "UN_DECODED"), Object("System", "UN_DECODED")}
  <2>1. t.class \in {"ExpGen", "System"} /\ OpOf(w) = DecodeOpCode(w, t.class)
    BY <1>2, <1>4 DEF Object
  <2>2. i \in Exceptions \cup SystemMoves \cup Hints
    BY <2>1, SystemTyped
  <2> QED BY <2>2 DEF Objects
<1>5. CASE t \in {Object("Branches", op) : op \in BranchOps}
  <2>1. t.class = "Branches" /\ OpOf(w) \in BranchOps
    BY <1>2, <1>5 DEF BranchOps, Object
  <2>2. i \in BranchObjects
    BY <2>1, BranchTyped
  <2> QED BY <2>2 DEF Objects
<1>6. CASE t \in {Object("Extract", "EXTR")}
                   \cup {Object("PCRelAdr", op) : op \in {"ADR", "ADRP"}}
                   \cup {Object("AddSubImmediate", op) : op \in AddSubOps}
                   \cup {Object("MovWide", op) : op \in {"MOVN", "MOVZ", "MOVK"}}
                   \cup {Object("LogicalImmediate", op) : op \in LogicalOps}
                   \cup {Object("BitField", op) : op \in {"SBFM", "BFM", "UBFM"}}
  <2>1. \/ t.class = "PCRelAdr" /\ OpOf(w) \in {"ADR", "ADRP"}
        \/ t.class = "AddSubImmediate" /\ OpOf(w) \in AddSubOps
        \/ t.class = "MovWide" /\ OpOf(w) \in {"MOVN", "MOVZ", "MOVK"}
        \/ t.class = "LogicalImmediate" /\ OpOf(w) \in LogicalOps
        \/ t.class = "BitField" /\ OpOf(w) \in {"SBFM", "BFM", "UBFM"}
        \/ t.class = "Extract" /\ OpOf(w) = "EXTR"
    BY SMT, <1>2, <1>6 DEF AddSubOps, LogicalOps, Object
  <2>2. i \in Addresses \cup AddSubs \cup MovWides \cup Logicals \cup BitFields \cup Extracts
    BY <1>1, <2>1, DPImmTyped
  <2> QED BY <2>2 DEF Objects
<1> QED BY <1>1, <1>3, <1>4, <1>5, <1>6 DEF Answers

(* The setters leave an object of the same kind, with the same opcode.     *)
LEMMA EditedRecord ==
    ASSUME NEW C, NEW O, NEW S, NEW i \in [class : C, op : O, operands : S],
           NEW name, NEW v, [i.operands EXCEPT ![name] = v] \in S
    PROVE  /\ [i EXCEPT !.operands[name] = v] \in [class : C, op : O, operands : S]
           /\ [i EXCEPT !.operands[name] = v].class = i.class
           /\ [i EXCEPT !.operands[name] = v].op = i.op
OBVIOUS

(* What the setters write.                                                 *)
Allowed(i, name, v) ==
    /\ name \in DOMAIN i.operands
    /\ \/ name = "offset" /\ v \in Int
       \/ name = "cond" /\ v \in 0..15
       \/ name = "imm" /\ i.class # "AddSubImmediate" /\ v \in Imm16
       \/ name \in {"rt", "rn", "rd"} /\ v \in Register /\ v.x = i.operands[name].x

(* A setter of a branch changes one operand, within its range.             *)
LEMMA EditedBranch ==
    ASSUME NEW i \in BranchObjects, NEW name, NEW v, Allowed(i, name, v)
    PROVE  /\ [i EXCEPT !.operands[name] = v] \in BranchObjects
           /\ [i EXCEPT !.operands[name] = v].class = i.class
           /\ [i EXCEPT !.operands[name] = v].op = i.op
<1> DEFINE j == [i EXCEPT !.operands[name] = v]
           n == [i.operands EXCEPT ![name] = v]
           Same == j.class = i.class /\ j.op = i.op
<1>1. ASSUME i \in CondBranches PROVE j \in CondBranches /\ Same
  <2> DEFINE S == [cond : 0..15, link : {FALSE}, offset : Int]
  <2>1. i \in [class : {"Branches"}, op : {"B_cond"}, operands : S]
    BY <1>1 DEF CondBranches
  <2>2. i.operands \in S
    BY <2>1
  <2>3. n \in S
    BY <2>2 DEF Allowed
  <2> HIDE DEF S
  <2>4. j \in [class : {"Branches"}, op : {"B_cond"}, operands : S] /\ Same
    BY <2>1, <2>3, EditedRecord
  <2> QED BY <2>4 DEF CondBranches, S
<1>2. ASSUME NEW link, NEW op, i \in [class : {"Branches"}, op : {op}, operands : [link : {link}, offset : Int]]
      PROVE  j \in [class : {"Branches"}, op : {op}, operands : [link : {link}, offset : Int]] /\ Same
  <2> DEFINE S == [link : {link}, offset : Int]
  <2>1. i.operands \in S
    BY <1>2
  <2>2. n \in S
    BY <2>1 DEF Allowed
  <2> HIDE DEF S
  <2>3. j \in [class : {"Branches"}, op : {op}, operands : S] /\ Same
    BY <1>2, <2>2, EditedRecord DEF S
  <2> QED BY <2>3 DEF S
<1>3. ASSUME i \in Compares PROVE j \in Compares /\ Same
  <2> DEFINE S == [rt : Register, link : {FALSE}, offset : Int]
  <2>1. i \in [class : {"Branches"}, op : {"CBZ", "CBNZ"}, operands : S]
    BY <1>3 DEF Compares
  <2>2. i.operands \in S
    BY <2>1
  <2>3. n \in S
    BY <2>2 DEF Allowed
  <2> HIDE DEF S
  <2>4. j \in [class : {"Branches"}, op : {"CBZ", "CBNZ"}, operands : S] /\ Same
    BY <2>1, <2>3, EditedRecord
  <2> QED BY <2>4 DEF Compares, S
<1>4. ASSUME NEW link, NEW op, i \in [class : {"Branches"}, op : {op}, operands : [rn : Register, link : {link}]]
      PROVE  j \in [class : {"Branches"}, op : {op}, operands : [rn : Register, link : {link}]] /\ Same
  <2> DEFINE S == [rn : Register, link : {link}]
  <2>1. i.operands \in S
    BY <1>4
  <2>2. n \in S
    BY <2>1 DEF Allowed
  <2> HIDE DEF S
  <2>3. j \in [class : {"Branches"}, op : {op}, operands : S] /\ Same
    BY <1>4, <2>2, EditedRecord DEF S
  <2> QED BY <2>3 DEF S
<1>5. i \notin Returns
  BY DEF Returns, Allowed
<1>6. i \in Jumps => j \in Jumps /\ Same
  BY <1>2 DEF Jumps
<1>7. i \in RegJumps => j \in RegJumps /\ Same
  BY <1>4 DEF RegJumps
<1> QED BY <1>1, <1>3, <1>5, <1>6, <1>7 DEF BranchObjects

(* No setter leads out of Objects.                                         *)
LEMMA EditedObjects ==
    ASSUME NEW i \in Objects, NEW name, NEW v, Allowed(i, name, v),
           i.class = "AddSubImmediate" => name = "rd"
    PROVE  /\ [i EXCEPT !.operands[name] = v] \in Objects
           /\ [i EXCEPT !.operands[name] = v].class = i.class
           /\ [i EXCEPT !.operands[name] = v].op = i.op
<1> DEFINE j == [i EXCEPT !.operands[name] = v]
           n == [i.operands EXCEPT ![name] = v]
           Same == j.class = i.class /\ j.op = i.op
<1>1. ASSUME i \in BranchObjects PROVE j \in Objects /\ Same
  BY SMTT(30), <1>1, EditedBranch DEF Objects
<1>2. ASSUME i \in Exceptions PROVE j \in Exceptions /\ Same
  <2>1. i.operands \in [imm : Imm16]
    BY <1>2 DEF Exceptions
  <2>2. n \in [imm : Imm16]
    BY <2>1 DEF Allowed
  <2> QED BY <1>2, <2>2, EditedRecord DEF Exceptions
<1>3. ASSUME i \in SystemMoves PROVE j \in SystemMoves /\ Same
  <2>1. i.operands \in [rt : Register, system_register : SysRegs]
    BY <1>3 DEF SystemMoves
  <2>2. n \in [rt : Register, system_register : SysRegs]
    BY <2>1 DEF Allowed
  <2> QED BY <1>3, <2>2, EditedRecord DEF SystemMoves
<1>4. i \notin Hints /\ i \notin Extracts
  BY DEF Hints, Extracts, Allowed
<1>5. ASSUME i \in Addresses PROVE j \in Addresses /\ Same
  <2>1. i.operands \in [backup : Word, offset : Int]
    BY <1>5 DEF Addresses
  <2>2. n \in [backup : Word, offset : Int]
    BY <2>1 DEF Allowed
  <2> QED BY <1>5, <2>2, EditedRecord DEF Addresses
<1>6. ASSUME i \in AddSubs PROVE j \in AddSubs /\ Same
  <2>1. i.operands \in AddSubOperandSet /\ name = "rd"
    BY <1>6 DEF AddSubs
  <2>2. v \in Register /\ v.x = i.operands.rd.x
    BY <2>1 DEF Allowed
  <2>3. n \in [is_sub : BOOLEAN, update_flag : BOOLEAN, imm : Nat,
               rd : Register, rn : Register]
    BY <2>1, <2>2 DEF AddSubOperandSet
  <2>4. n.is_sub = i.operands.is_sub /\ n.rd = v
    BY <2>1 DEF AddSubOperandSet
  <2>5. n \in AddSubOperandSet
    BY <2>1, <2>2, <2>3, <2>4 DEF AddSubOperandSet
  <2> QED BY <1>6, <2>5, EditedRecord DEF AddSubs
<1>7. ASSUME i \in MovWides PROVE j \in MovWides /\ Same
  <2> DEFINE S == [rd : Register, imm : Imm16, shift : {0, 16, 32, 48}]
  <2>1. i.operands \in S
    BY <1>7 DEF MovWides
  <2>2. n \in S
    BY <2>1 DEF Allowed
  <2> QED BY <1>7, <2>2, EditedRecord DEF MovWides
<1>8. ASSUME i \in Logicals PROVE j \in Logicals /\ Same
  <2>1. i.operands \in [rd : Register, logical : LogicalValues]
    BY <1>8 DEF Logicals
  <2>2. n \in [rd : Register, logical : LogicalValues]
    BY <2>1 DEF Allowed
  <2> QED BY <1>8, <2>2, EditedRecord DEF Logicals
<1>9. ASSUME i \in BitFields PROVE j \in BitFields /\ Same
  <2> DEFINE S == [R : 0..63, S : 0..63, rd : Register, rn : Register]
  <2>1. i.operands \in S /\ (~i.operands.rd.x => i.operands.R <= 31 /\ i.operands.S <= 31)
    BY <1>9 DEF BitFields, BitFieldOperandSet
  <2>2. name \in {"rd", "rn"} /\ v \in Register /\ v.x = i.operands[name].x
    BY <2>1 DEF Allowed
  <2>3. n \in S /\ n.R = i.operands.R /\ n.S = i.operands.S /\ n.rd.x = i.operands.rd.x
    BY <2>1, <2>2
  <2>4. n \in BitFieldOperandSet
    BY <2>1, <2>3 DEF BitFieldOperandSet
  <2> QED BY <1>9, <2>4, EditedRecord DEF BitFields
<1> QED BY <1>1, <1>2, <1>3, <1>4, <1>5, <1>6, <1>7, <1>8, <1>9 DEF Objects

(* A word of one of the rows that are searched for is decoded as that row. *)
LEMMA CompleteBranch ==
    ASSUME NEW w, NEW op \in {"B", "BL", "BR", "BLR", "RET", "CBZ", "CBNZ"},
           Matches(w, RowOf[op])
    PROVE  Tree(w) = Object("Branches", op) /\ BranchOperands(op, w) # {}
<1>1. Get(w, "instr_type_1") \in {10, 11} /\ Get(w, "sys_bch_op0") \in 0..7
      /\ Get(w, "sys_bch_op1") \in 0..15
  BY SMT, BranchRows, FieldRanges DEF Branch, BranchReg
<1>2. Tree(w) = DecodeSystemAndBranch(w)
  BY SMT, <1>1 DEF Tree
<1>3. ASSUME op = "BR" PROVE DecodeSystemAndBranch(w) = Object("Branches", op)
  <2>1. BranchReg(w, 0)
    BY SMT, <1>3, BranchRows
  <2>2. DecodeSystemAndBranch(w) = DecodeBranchReg(w)
    BY SMT, <1>1, <2>1 DEF BranchReg, DecodeSystemAndBranch
  <2>3. DecodeBranchReg(w) = Object("Branches", "BR")
    BY SMT, <2>1 DEF BranchReg, DecodeBranchReg
  <2> QED BY <1>3, <2>2, <2>3
<1>4. ASSUME op = "BLR" PROVE DecodeSystemAndBranch(w) = Object("Branches", op)
  <2>1. BranchReg(w, 1)
    BY SMT, <1>4, BranchRows
  <2>2. DecodeSystemAndBranch(w) = DecodeBranchReg(w)
    BY SMT, <1>1, <2>1 DEF BranchReg, DecodeSystemAndBranch
  <2>3. DecodeBranchReg(w) = Object("Branches", "BLR")
    BY SMT, <2>1 DEF BranchReg, DecodeBranchReg
  <2> QED BY <1>4, <2>2, <2>3
<1>5. ASSUME op = "RET" PROVE DecodeSystemAndBranch(w) = Object("Branches", op)
  <2>1. BranchReg(w, 2)
    BY SMT, <1>5, BranchRows
  <2>2. DecodeSystemAndBranch(w) = DecodeBranchReg(w)
    BY SMT, <1>1, <2>1 DEF BranchReg, DecodeSystemAndBranch
  <2>3. DecodeBranchReg(w) = Object("Branches", "RET")
    BY SMT, <2>1 DEF BranchReg, DecodeBranchReg
  <2> QED BY <1>5, <2>2, <2>3
<1>6. op \in {"B", "BL"} => DecodeSystemAndBranch(w) = Object("Branches", op)
  BY SMT, BranchRows DEF DecodeSystemAndBranch
<1>7. op \in {"CBZ", "CBNZ"} => DecodeSystemAndBranch(w) = Object("Branches", op)
  BY SMT, <1>1, BranchRows DEF DecodeSystemAndBranch
<1>8. BranchOperands(op, w) # {}
  <2>1. /\ op = "B" => BranchOperands(op, w) # {}
        /\ op = "BL" => BranchOperands(op, w) # {}
    BY DEF BranchOperands
  <2>2. /\ op = "CBZ" => BranchOperands(op, w) # {}
        /\ op = "CBNZ" => BranchOperands(op, w) # {}
    BY DEF BranchOperands
  <2>3. /\ op = "BR" => BranchOperands(op, w) # {}
        /\ op = "BLR" => BranchOperands(op, w) # {}
        /\ op = "RET" => BranchOperands(op, w) # {}
    BY DEF BranchOperands
  <2> QED BY <2>1, <2>2, <2>3
<1> QED BY <1>2, <1>3, <1>4, <1>5, <1>6, <1>7, <1>8

(* The same for the rows of data processing with an immediate.             *)
LEMMA CompleteDPImm ==
    ASSUME NEW w,
           NEW op \in {"ADR", "ADRP", "ADD_imm", "ADDS_imm", "SUB_imm", "SUBS_imm",
                       "MOVZ", "MOVK"},
           Matches(w, RowOf[op])
    PROVE  \/ Tree(w) = Object("PCRelAdr", op) /\ PCRelOperands(op, w) # {}
           \/ Tree(w) = Object("AddSubImmediate", op)
           \/ Tree(w) = Object("MovWide", op)
<1>1. /\ Get(w, "instr_type_1") \in {8, 9} /\ Get(w, "dp_type") \in 0..7
      /\ Get(w, "adr_page") \in {0, 1} /\ Get(w, "mov_imm_opc") = Get(w, "opc")
  BY SMT, DPImmRows, FieldRanges DEF DPImm
<1>2. Tree(w) = DecodeDPImm(w)
  BY SMT, <1>1 DEF Tree
<1>3. op \in {"ADR", "ADRP"} => DecodeDPImm(w) = Object("PCRelAdr", op)
  BY SMT, <1>1, DPImmRows DEF DecodeDPImm
<1>4. PCRelOperands(op, w) # {}
  <2>1. PICK d : d \in Offsets
    BY ArgumentsAssumption
  <2> QED BY <2>1 DEF PCRelOperands
<1>5. Get(w, "dp_type") = 2 => Get(w, "shift") \in {0, 1}
  BY SMT, SmallFields DEF Bits2, Bit
<1>6. op \in AddSubOps => DecodeDPImm(w) = Object("AddSubImmediate", op)
  <2>1. ASSUME op = "ADD_imm" PROVE DecodeDPImm(w) = Object("AddSubImmediate", op)
    <3>1. DPImm(w, 2, 0)
      BY SMT, <2>1, DPImmRows
    <3>2. DecodeDPImm(w) = Object("AddSubImmediate", "ADD_imm")
      BY SMT, <1>5, <3>1 DEF DPImm, DecodeDPImm
    <3> QED BY <2>1, <3>2
  <2>2. ASSUME op = "ADDS_imm" PROVE DecodeDPImm(w) = Object("AddSubImmediate", op)
    <3>1. DPImm(w, 2, 1)
      BY SMT, <2>2, DPImmRows
    <3>2. DecodeDPImm(w) = Object("AddSubImmediate", "ADDS_imm")
      BY SMT, <1>5, <3>1 DEF DPImm, DecodeDPImm
    <3> QED BY <2>2, <3>2
  <2>3. ASSUME op = "SUB_imm" PROVE DecodeDPImm(w) = Object("AddSubImmediate", op)
    <3>1. DPImm(w, 2, 2)
      BY SMT, <2>3, DPImmRows
    <3>2. DecodeDPImm(w) = Object("AddSubImmediate", "SUB_imm")
      BY SMT, <1>5, <3>1 DEF DPImm, DecodeDPImm
    <3> QED BY <2>3, <3>2
  <2>4. ASSUME op = "SUBS_imm" PROVE DecodeDPImm(w) = Object("AddSubImmediate", op)
    <3>1. DPImm(w, 2, 3)
      BY SMT, <2>4, DPImmRows
    <3>2. DecodeDPImm(w) = Object("AddSubImmediate", "SUBS_imm")
      BY SMT, <1>5, <3>1 DEF DPImm, DecodeDPImm
    <3> QED BY <2>4, <3>2
  <2> QED BY <2>1, <2>2, <2>3, <2>4 DEF AddSubOps
<1>7. /\ op = "MOVZ" => DecodeDPImm(w) = Object("MovWide", op)
      /\ op = "MOVK" => DecodeDPImm(w) = Object("MovWide", op)
  <2>1. op \in {"MOVZ", "MOVK"} =>
          DecodeDPImm(w) = DecodeMovWide(w) /\ Get(w, "addsub_imm_update_64bit") = 1
    BY SMT, DPImmRows, SmallFields DEF DPImm, DecodeDPImm, Bits2, Bit
  <2>2. op = "MOVZ" => DecodeMovWide(w) = Object("MovWide", op)
    BY SMT, <1>1, <2>1, DPImmRows DEF DPImm, DecodeMovWide
  <2>3. op = "MOVK" => DecodeMovWide(w) = Object("MovWide", op)
    BY SMT, <1>1, <2>1, DPImmRows DEF DPImm, DecodeMovWide
  <2> QED BY <2>1, <2>2, <2>3
<1> QED BY <1>2, <1>3, <1>4, <1>6, <1>7 DEF AddSubOps

(* A word of a row of CompleteRows is decoded as that row, and Disassemble *)
(* does not refuse it.                                                     *)
LEMMA CompleteTree ==
    ASSUME NEW w, NEW op \in CompleteRows, Matches(w, RowOf[op])
    PROVE  /\ Tree(w).op = op /\ OpOf(w) = op /\ op # "INVALID"
           /\ Operands(Tree(w).class, op, w) # {}
           /\ ~MayRefuse(Tree(w).class)
<1>1. CASE op \in {"B", "BL", "BR", "BLR", "RET", "CBZ", "CBNZ"}
  <2>1. Tree(w) = Object("Branches", op) /\ BranchOperands(op, w) # {}
    BY <1>1, CompleteBranch
  <2>2. Tree(w).op = op /\ Tree(w).class = "Branches"
    BY <2>1 DEF Object
  <2> QED BY <1>1, <2>1, <2>2 DEF OpOf, Operands, MayRefuse
<1>2. CASE op \in {"ADR", "ADRP", "ADD_imm", "ADDS_imm", "SUB_imm", "SUBS_imm",
                   "MOVZ", "MOVK"}
  <2>1. \/ Tree(w) = Object("PCRelAdr", op) /\ PCRelOperands(op, w) # {}
        \/ Tree(w) = Object("AddSubImmediate", op)
        \/ Tree(w) = Object("MovWide", op)
    BY <1>2, CompleteDPImm
  <2>2. Tree(w).op = op /\ ~MayRefuse(Tree(w).class)
    BY SMT, <2>1 DEF Object, MayRefuse
  <2>3. Operands(Tree(w).class, op, w) # {}
    <3>1. Operands("AddSubImmediate", op, w) # {} /\ Operands("MovWide", op, w) # {}
      <4>1. Operands("AddSubImmediate", op, w) = AddSubOperands(w)
        BY DEF Operands
      <4>2. AddSubOperands(w) # {}
        <5> DEFINE is64 == Get(w, "addsub_imm_update_64bit") = 1
                   one == [is_sub |-> Get(w, "addsub_imm_update_sub") = 1,
                           update_flag |-> Get(w, "addsub_imm_update_flag") = 1,
                           imm |-> Get(w, "dp_imm") * (IF Get(w, "shift") = 1 THEN 4096 ELSE 1),
                           rd |-> Reg(is64, Get(w, "Rd")), rn |-> Reg(is64, Get(w, "Rn"))]
        <5>1. AddSubOperands(w) = {one}
          BY Zenon DEF AddSubOperands
        <5> HIDE DEF one
        <5> QED BY <5>1
      <4>3. Operands("MovWide", op, w) # {}
        BY DEF Operands
      <4> QED BY <4>1, <4>2, <4>3
    <3>2. Operands("PCRelAdr", op, w) = PCRelOperands(op, w)
      BY DEF Operands
    <3> QED BY <2>1, <3>1, <3>2 DEF Object
  <2> QED BY <1>2, <2>2, <2>3 DEF OpOf
<1> QED BY <1>1, <1>2 DEF CompleteRows

(* Assemble leaves a word.                                                 *)
LEMMA AssembledTyped ==
    ASSUME NEW i \in Objects
    PROVE  Assembled(i) \in Word
<1> DEFINE o == i.operands
           base == OpcodeBits(i.op)
<1>1. /\ \A u \in Word : \A f \in DOMAIN Fields : \A v : Put(u, f, v) \in Word
      /\ \A u \in Word : \A f \in DOMAIN Fields : \A r : PutReg(u, f, r) \in Word
  BY PutInWord DEF PutReg
<1>2. i.op \in Opcodes => base \in Word
  BY OpcodeInWord
<1> HIDE DEF base
<1>3. ASSUME i \in BranchObjects PROVE Assembled(i) \in Word
  <2>1. i.class = "Branches" /\ i.op \in BranchOps
    BY <1>3 DEF BranchObjects, CondBranches, Jumps, Compares, RegJumps, Returns, BranchOps
  <2>2. Assembled(i) = AssembledBranch(i.op, o) /\ base \in Word
    BY <1>2, <2>1, OpsOfObjects DEF Assembled
  <2>3. \/ AssembledBranch(i.op, o) = base
        \/ AssembledBranch(i.op, o) = PutReg(base, "Rn", o.rn)
        \/ AssembledBranch(i.op, o) = Put(base, "bch_ucond_offset", EncodeOffset(o.offset, 26, 2))
        \/ AssembledBranch(i.op, o) =
             Put(Put(base, "cond", o.cond), "bch_cond_offset", EncodeOffset(o.offset, 19, 2))
        \/ AssembledBranch(i.op, o) =
             Put(PutReg(base, "Rt", o.rt), "bch_cond_offset", EncodeOffset(o.offset, 19, 2))
    BY <2>1 DEF AssembledBranch, BranchOps, base
  <2> QED BY <1>1, <2>2, <2>3, FieldPlaces
<1>4. ASSUME i \in Exceptions PROVE Assembled(i) \in Word
  <2>1. i.class = "ExpGen" /\ i.op \in ExpGenOps
    BY <1>4 DEF Exceptions
  <2>2. Assembled(i) = Put(base, "imm16", o.imm) /\ base \in Word
    BY <1>2, <2>1, OpsOfObjects DEF Assembled, base
  <2> QED BY <1>1, <2>2, FieldPlaces
<1>5. ASSUME i \in SystemMoves \cup Hints PROVE Assembled(i) \in Word
  <2>1. i.class = "System" /\ i.op \in SystemOps \cup {"NOP", "YIELD"}
    BY <1>5 DEF SystemMoves, Hints, SystemOps
  <2>2. base \in Word
    BY <1>2, <2>1, OpsOfObjects
  <2>3. \/ Assembled(i) = base
        \/ Assembled(i) = Put(PutReg(base, "Rd", o.rt), "system_register", o.system_register)
    BY <2>1 DEF Assembled, base
  <2> QED BY <1>1, <2>2, <2>3, FieldPlaces
<1>6. ASSUME i \in Addresses \cup Extracts PROVE Assembled(i) \in Word
  BY <1>6 DEF Assembled, Addresses, Extracts
<1>7. ASSUME i \in AddSubs PROVE Assembled(i) \in Word
  <2>1. i.class = "AddSubImmediate" /\ i.op \in AddSubOps
    BY <1>7 DEF AddSubs
  <2>2. Assembled(i) = AssembledAddSub(i.op, o) /\ base \in Word
    BY <1>2, <2>1, OpsOfObjects DEF Assembled
  <2>3. AssembledAddSub(i.op, o) \in Word
    BY <1>1, <2>2, FieldPlaces DEF AssembledAddSub, base
  <2> QED BY <2>2, <2>3
<1>8. ASSUME i \in MovWides PROVE Assembled(i) \in Word
  <2>1. i.class = "MovWide" /\ i.op \in {"MOVN", "MOVZ", "MOVK"}
    BY <1>8 DEF MovWides
  <2>2. Assembled(i) = AssembledMovWide(i.op, o) /\ base \in Word
    BY <1>2, <2>1, OpsOfObjects DEF Assembled
  <2>3. AssembledMovWide(i.op, o) \in Word
    BY <1>1, <2>2, FieldPlaces DEF AssembledMovWide, base
  <2> QED BY <2>2, <2>3
<1>9. ASSUME i \in Logicals PROVE Assembled(i) \in Word
  <2>1. i.class = "LogicalImmediate" /\ i.op \in LogicalOps
    BY <1>9 DEF Logicals
  <2>2. Assembled(i) = AssembledLogical(i.op, o) /\ base \in Word
    BY <1>2, <2>1, OpsOfObjects DEF Assembled
  <2>3. AssembledLogical(i.op, o) \in Word
    BY <1>1, <2>2, FieldPlaces DEF AssembledLogical, base
  <2> QED BY <2>2, <2>3
<1>10. ASSUME i \in BitFields PROVE Assembled(i) \in Word
  <2>1. i.class = "BitField" /\ i.op \in {"SBFM", "BFM", "UBFM"}
    BY <1>10 DEF BitFields
  <2>2. Assembled(i) = AssembledBitField(i.op, o) /\ base \in Word
    BY <1>2, <2>1, OpsOfObjects DEF Assembled
  <2>3. AssembledBitField(i.op, o) \in Word
    BY <1>1, <2>2, FieldPlaces DEF AssembledBitField, base
  <2> QED BY <2>2, <2>3
<1> QED BY <1>3, <1>4, <1>5, <1>6, <1>7, <1>8, <1>9, <1>10 DEF Objects

(* The operands of an object are in their ranges.                          *)
RangeOK(i, n) ==
    LET v == i.operands[n]
    IN /\ n = "cond" => v \in 0..15
       /\ n \in {"rt", "rn", "rd"} => v \in Register
       /\ n = "shift" => v \in {0, 16, 32, 48}
       /\ n \in {"R", "S"} => v \in 0..(IF i.operands.rd.x THEN 63 ELSE 31)
       /\ n = "logical" => v = Ones \/ v[2] < 2^v[1] - 1
       /\ n = "system_register" => v \in SysRegs

(* The opcodes of the objects of branches.                                 *)
LEMMA BranchKinds ==
    ASSUME NEW i \in BranchObjects
    PROVE  i.op \in {"B_cond", "B", "BL", "CBZ", "CBNZ", "BR", "BLR", "RET"}
<1>1. i \in CondBranches => i.op = "B_cond"
  BY DEF CondBranches
<1>2. i \in Jumps => i.op \in {"B", "BL"}
  BY DEF Jumps
<1>3. i \in Compares => i.op \in {"CBZ", "CBNZ"}
  BY DEF Compares
<1>4. i \in RegJumps => i.op \in {"BR", "BLR"}
  BY DEF RegJumps
<1>5. i \in Returns => i.op = "RET"
  BY DEF Returns
<1> QED BY <1>1, <1>2, <1>3, <1>4, <1>5 DEF BranchObjects

(* The operands of branches have the ranges that TypeOK names.             *)
LEMMA BranchRanges ==
    ASSUME NEW i \in BranchObjects, NEW n \in DOMAIN i.operands
    PROVE  i.op \in BranchOps /\ RangeOK(i, n)
<1> DEFINE v == i.operands[n]
<1>1. \/ n = "cond" /\ v \in 0..15
      \/ n \in {"rt", "rn"} /\ v \in Register
      \/ n \in {"link", "offset"}
  <2>1. i \in CondBranches => (n = "cond" /\ v \in 0..15) \/ n \in {"link", "offset"}
    BY DEF CondBranches
  <2>2. i \in Compares => (n = "rt" /\ v \in Register) \/ n \in {"link", "offset"}
    BY DEF Compares
  <2>3. i \in Jumps => n \in {"link", "offset"}
    BY DEF Jumps
  <2>4. i \in Returns => n = "link"
    BY DEF Returns
  <2>5. i \in RegJumps => (n = "rn" /\ v \in Register) \/ n = "link"
    BY DEF RegJumps
  <2> QED BY <2>1, <2>2, <2>3, <2>4, <2>5 DEF BranchObjects
<1>2. i.op \in BranchOps
  BY BranchKinds DEF BranchOps
<1> HIDE DEF v
<1>3. RangeOK(i, n)
  BY <1>1 DEF RangeOK, v
<1> QED BY <1>2, <1>3

(* And so have those of every object.                                      *)
LEMMA Ranges ==
    ASSUME NEW i \in Objects, NEW n \in DOMAIN i.operands
    PROVE  i.op \in Opcodes /\ RangeOK(i, n)
<1> DEFINE v == i.operands[n]
<1>1. ASSUME i \in BranchObjects PROVE i.op \in Opcodes /\ RangeOK(i, n)
  BY <1>1, BranchRanges, OpsOfObjects
<1>2. ASSUME i \in Exceptions PROVE i.op \in Opcodes /\ n = "imm"
  BY <1>2, OpsOfObjects DEF Exceptions
<1>3. ASSUME i \in SystemMoves
      PROVE  /\ i.op \in Opcodes
             /\ (n = "rt" /\ v \in Register) \/ (n = "system_register" /\ v \in SysRegs)
  BY <1>3, OpsOfObjects DEF SystemMoves
<1>4. i \notin Hints
  BY DEF Hints
<1>5. ASSUME i \in Addresses \cup Extracts
      PROVE  i.op \in Opcodes /\ n \in {"backup", "offset"}
  BY <1>5, OpsOfObjects DEF Addresses, Extracts
<1>6. ASSUME i \in AddSubs
      PROVE  /\ i.op \in Opcodes
             /\ (n \in {"rd", "rn"} /\ v \in Register) \/ n \in {"is_sub", "update_flag", "imm"}
  BY <1>6, OpsOfObjects DEF AddSubs, AddSubOperandSet
<1>7. ASSUME i \in MovWides
      PROVE  /\ i.op \in Opcodes
             /\ \/ n = "rd" /\ v \in Register
                \/ n = "imm"
                \/ n = "shift" /\ v \in {0, 16, 32, 48}
  BY <1>7, OpsOfObjects DEF MovWides
<1>8. ASSUME i \in Logicals
      PROVE  /\ i.op \in Opcodes
             /\ \/ n = "rd" /\ v \in Register
                \/ n = "logical" /\ v \in LogicalValues
  BY <1>8, OpsOfObjects DEF Logicals
<1>9. ASSUME i \in BitFields
      PROVE  /\ i.op \in Opcodes
             /\ \/ n \in {"rd", "rn"} /\ v \in Register
                \/ n \in {"R", "S"} /\ v \in 0..(IF i.operands.rd.x THEN 63 ELSE 31)
  <2>1. i.operands \in BitFieldOperandSet /\ i.op \in {"SBFM", "BFM", "UBFM"}
    BY <1>9 DEF BitFields
  <2> QED BY SMT, <2>1, OpsOfObjects DEF BitFieldOperandSet
<1> HIDE DEF v
<1>10. n \in {"imm", "backup", "offset", "is_sub", "update_flag"} => RangeOK(i, n)
  BY DEF RangeOK
<1>11. n \in {"rt", "rn", "rd"} /\ v \in Register => RangeOK(i, n)
  BY DEF RangeOK, v
<1>12. n = "system_register" /\ v \in SysRegs => RangeOK(i, n)
  BY DEF RangeOK, v
<1>13. n = "shift" /\ v \in {0, 16, 32, 48} => RangeOK(i, n)
  BY DEF RangeOK, v
<1>14. n = "logical" /\ v \in LogicalValues => RangeOK(i, n)
  <2>1. v \in LogicalValues => v = Ones \/ v[2] < 2^v[1] - 1
    <3>1. v \in LogicalValues => v = Ones \/ (v[1] \in 1..6 /\ v[2] < P2[v[1]] - 1)
      BY DEF LogicalValues
    <3>2. v[1] \in 1..6 => P2[v[1]] = 2^v[1]
      BY DEF P2
    <3> QED BY <3>1, <3>2
  <2> QED BY <2>1 DEF RangeOK, v
<1>15. n \in {"R", "S"} /\ v \in 0..(IF i.operands.rd.x THEN 63 ELSE 31) => RangeOK(i, n)
  BY DEF RangeOK, v
<1> QED BY <1>1, <1>2, <1>3, <1>4, <1>5, <1>6, <1>7, <1>8, <1>9, <1>10, <1>11, <1>12,
           <1>13, <1>14, <1>15 DEF Objects

(* An object is never Null, and has an opcode of the table.                *)
LEMMA ObjectsShape ==
    ASSUME NEW i \in Objects
    PROVE  /\ i # Null /\ i.op \in Opcodes
           /\ \/ i.op \in RowOps \cup {"B_cond", "EXTR"}
              \/ i.class \in {"ExpGen", "System"}
<1>1. /\ i \in BranchObjects \cup Exceptions \cup SystemMoves \cup Hints =>
           i.class \in {"Branches", "ExpGen", "System"}
      /\ i \in Addresses \cup AddSubs \cup MovWides \cup Logicals \cup BitFields \cup Extracts =>
           i.class \in {"PCRelAdr", "AddSubImmediate", "MovWide", "LogicalImmediate",
                        "BitField", "Extract"}
  <2>1. i \in BranchObjects => i.class = "Branches"
    BY DEF BranchObjects, CondBranches, Jumps, Compares, RegJumps, Returns
  <2> QED BY <2>1 DEF Exceptions, SystemMoves, Hints, Addresses, AddSubs, MovWides,
                      Logicals, BitFields, Extracts
<1>2. i # Null
  <2>1. i.class # "null"
    BY <1>1 DEF Objects
  <2> QED BY <2>1 DEF Null
<1>3. i \in BranchObjects => i.op \in RowOps \cup {"B_cond"} /\ i.op \in BranchOps
  BY BranchKinds DEF RowOps, BranchOps
<1>4. /\ i \in Exceptions => i.class = "ExpGen" /\ i.op \in ExpGenOps
      /\ i \in SystemMoves => i.class = "System" /\ i.op \in SystemOps
      /\ i \in Hints => i.class = "System" /\ i.op \in {"NOP", "YIELD"}
      /\ i \in Addresses => i.op \in {"ADR", "ADRP"}
      /\ i \in AddSubs => i.op \in AddSubOps
  BY DEF Exceptions, SystemMoves, Hints, Addresses, AddSubs
<1>5. /\ i \in MovWides => i.op \in {"MOVN", "MOVZ", "MOVK"}
      /\ i \in Logicals => i.op \in LogicalOps
      /\ i \in BitFields => i.op \in {"SBFM", "BFM", "UBFM"}
      /\ i \in Extracts => i.op = "EXTR"
  BY DEF MovWides, Logicals, BitFields, Extracts
<1>6. i.op \in Opcodes
  BY <1>3, <1>4, <1>5, OpsOfObjects DEF Objects
<1>7. i.op \in RowOps \cup {"B_cond", "EXTR"} \/ i.class \in {"ExpGen", "System"}
  BY <1>3, <1>4, <1>5 DEF Objects, RowOps
<1> QED BY <1>2, <1>6, <1>7

(* SetRt, SetRn and SetRd keep the width of the register.                  *)
LEMMA RegisterOperands ==
    ASSUME NEW i \in Objects, NEW name \in {"rt", "rn", "rd"}, name \in DOMAIN i.operands,
           NEW code \in 0..31
    PROVE  /\ [i.operands[name] EXCEPT !.code = code] \in Register
           /\ [i.operands[name] EXCEPT !.code = code].x = i.operands[name].x
<1>1. i.operands[name] \in Register
  BY Ranges DEF RangeOK
<1> QED BY <1>1 DEF Register

(* The inductive invariant: the object is one the decoder makes; decoded,  *)
(* it is what the tree answers for the word, and no object was made only   *)
(* where no row that is searched for fits; assembled, the word is its.     *)
Inv ==
    /\ word \in Word
    /\ step \in {"fetched", "decoded", "assembled"}
    /\ instr = Null \/ instr \in Objects
    /\ step = "assembled" => instr # Null /\ word = Assembled(instr)
    /\ step = "decoded" /\ instr # Null =>
         instr.class = Tree(word).class /\ instr.op = OpOf(word)
    /\ step = "decoded" /\ instr = Null =>
         \A op \in CompleteRows : ~Matches(word, RowOf[op])

(* Decode makes an object that is what the tree answers, or none.          *)
LEMMA DecodeInv == Inv /\ Decode => Inv'
<1> SUFFICES ASSUME Inv, Decode PROVE Inv'
  OBVIOUS
<1> DEFINE t == Tree(word)
           op == OpOf(word)
<1>1. /\ step' = "decoded" /\ word' = word /\ word \in Word
      /\ \/ /\ op # "INVALID"
            /\ \E o \in Operands(t.class, op, word) :
                 instr' = [class |-> t.class, op |-> op, operands |-> o]
         \/ /\ \/ op = "INVALID"
               \/ Operands(t.class, op, word) = {}
               \/ MayRefuse(t.class)
            /\ instr' = Null
  BY DEF Inv, Decode, OpOf
<1>2. ASSUME NEW o \in Operands(t.class, op, word), op # "INVALID",
             instr' = [class |-> t.class, op |-> op, operands |-> o]
      PROVE  Inv'
  <2>1. instr' \in Objects
    BY <1>1, <1>2, OperandsTyped
  <2>2. instr' # Null
    BY <2>1, ObjectsShape
  <2>3. instr'.class = t.class /\ instr'.op = op /\ t' = t /\ op' = op
    BY <1>1, <1>2
  <2> HIDE DEF t, op
  <2> QED BY <1>1, <2>1, <2>2, <2>3 DEF Inv, t, op
<1>3. ASSUME instr' = Null,
             op = "INVALID" \/ Operands(t.class, op, word) = {} \/ MayRefuse(t.class)
      PROVE  Inv'
  <2>1. \A r \in CompleteRows : ~Matches(word, RowOf[r])
    BY <1>3, CompleteTree
  <2>2. (\A r \in CompleteRows : ~Matches(word, RowOf[r]))'
    BY <1>1, <2>1
  <2> QED BY <1>1, <1>3, <2>2 DEF Inv
<1> QED BY <1>1, <1>2, <1>3

(* A setter changes neither the word nor the class and opcode of the       *)
(* object.                                                                 *)
LEMMA SetInv ==
    ASSUME Inv, NEW name, NEW v, Set(name, v), Allowed(instr, name, v),
           instr.class = "AddSubImmediate" => name = "rd"
    PROVE  Inv'
<1>1. /\ step = "decoded" /\ step' = step /\ word' = word /\ instr # Null
      /\ instr' = [instr EXCEPT !.operands[name] = v]
      /\ instr \in Objects
  BY DEF Set, Inv
<1>2. instr' \in Objects /\ instr'.class = instr.class /\ instr'.op = instr.op
  BY <1>1, EditedObjects
<1>3. instr' # Null
  BY <1>2, ObjectsShape
<1>4. Tree(word)' = Tree(word) /\ OpOf(word)' = OpOf(word)
  BY <1>1
<1> QED BY <1>1, <1>2, <1>3, <1>4 DEF Inv

(* Every step of the instruction's life preserves the invariant.           *)
LEMMA StepInv == Inv /\ [Next]_vars => Inv'
<1> SUFFICES ASSUME Inv, [Next]_vars PROVE Inv'
  OBVIOUS
<1>1. CASE Decode
  BY <1>1, DecodeInv
<1>2. CASE SetOffset
  <2>1. PICK offset \in Offsets : Set("offset", offset)
    BY <1>2 DEF SetOffset
  <2>2. offset \in Int
    BY ArgumentsAssumption
  <2>3. Allowed(instr, "offset", offset) /\ instr \in Objects
    BY <2>1, <2>2 DEF Set, Allowed, Inv
  <2>4. instr.class # "AddSubImmediate"
    <3>1. instr \in AddSubs => "offset" \notin DOMAIN instr.operands
      BY DEF AddSubs, AddSubOperandSet
    <3>2. instr \in BranchObjects => instr.class = "Branches"
      BY DEF BranchObjects, CondBranches, Jumps, Compares, RegJumps, Returns
    <3> QED BY <2>3, <3>1, <3>2 DEF Allowed, Objects, Exceptions, SystemMoves, Hints,
                 Addresses, MovWides, Logicals, BitFields, Extracts
  <2> QED BY <2>1, <2>3, <2>4, SetInv
<1>3. CASE SetCond
  <2>1. PICK cond \in Conds : Set("cond", cond)
    BY <1>3 DEF SetCond
  <2>2. cond \in 0..15
    BY ArgumentsAssumption
  <2>3. Allowed(instr, "cond", cond) /\ instr \in Objects
    BY <2>1, <2>2 DEF Set, Allowed, Inv
  <2>4. instr.class # "AddSubImmediate"
    <3>1. instr \in AddSubs => "cond" \notin DOMAIN instr.operands
      BY DEF AddSubs, AddSubOperandSet
    <3>2. instr \in BranchObjects => instr.class = "Branches"
      BY DEF BranchObjects, CondBranches, Jumps, Compares, RegJumps, Returns
    <3> QED BY <2>3, <3>1, <3>2 DEF Allowed, Objects, Exceptions, SystemMoves, Hints,
                 Addresses, MovWides, Logicals, BitFields, Extracts
  <2> QED BY <2>1, <2>3, <2>4, SetInv
<1>4. CASE SetImm
  <2>1. instr.class \in {"ExpGen", "MovWide"} /\ \E imm \in Imms : Set("imm", imm)
    BY <1>4 DEF SetImm
  <2>2. PICK imm \in Imms : Set("imm", imm)
    BY <2>1
  <2>3. imm \in Imm16
    BY ArgumentsAssumption
  <2>4. Allowed(instr, "imm", imm) /\ instr.class # "AddSubImmediate"
    BY <2>1, <2>2, <2>3 DEF Set, Allowed
  <2> QED BY <2>2, <2>4, SetInv
<1>5. CASE SetReg
  <2>1. PICK name \in {"rt", "rn", "rd"}, code \in Codes :
          /\ instr # Null /\ name \in DOMAIN instr.operands
          /\ instr.class = "AddSubImmediate" => name = "rd"
          /\ Set(name, [instr.operands[name] EXCEPT !.code = code])
    BY <1>5 DEF SetReg
  <2>2. code \in 0..31 /\ instr \in Objects
    BY <2>1, ArgumentsAssumption DEF Inv
  <2>3. Allowed(instr, name, [instr.operands[name] EXCEPT !.code = code])
    BY Zenon, <2>1, <2>2, RegisterOperands DEF Allowed
  <2> QED BY <2>1, <2>3, SetInv
<1>6. CASE Assemble
  <2>1. /\ instr # Null /\ instr \in Objects /\ instr' = instr
        /\ word' = Assembled(instr) /\ step' = "assembled"
    BY <1>6 DEF Assemble, Inv
  <2>2. Assembled(instr)' = Assembled(instr)
    BY <2>1
  <2>3. word' \in Word
    BY <2>1, AssembledTyped
  <2> QED BY <2>1, <2>2, <2>3 DEF Inv
<1>7. CASE UNCHANGED vars
  <2>1. word' = word /\ instr' = instr /\ step' = step
    BY <1>7 DEF vars
  <2> QED BY <2>1 DEF Inv
<1> QED BY <1>1, <1>2, <1>3, <1>4, <1>5, <1>6, <1>7 DEF Next

(* It holds when the word is fetched.                                      *)
LEMMA InitInv == Init => Inv
BY WordsAssumption DEF Init, Inv

(* So it always holds.                                                     *)
LEMMA Invariance == Spec => []Inv
BY InitInv, StepInv, PTL DEF Spec

(* Whatever words memory holds and whatever the setters are given, the     *)
(* objects keep their operands in the ranges that their fields have.       *)
THEOREM TypeCorrect == Spec => []TypeOK
<1>1. Inv => TypeOK
  <2> SUFFICES ASSUME Inv PROVE TypeOK
    OBVIOUS
  <2>1. instr # Null => instr \in Objects
    BY DEF Inv
  <2>2. instr \in Objects => instr.op \in Opcodes /\ \A n \in DOMAIN instr.operands : RangeOK(instr, n)
    BY Ranges, ObjectsShape
  <2>3. ASSUME NEW n \in DOMAIN instr.operands, instr # Null
        PROVE  LET v == instr.operands[n]
               IN CASE n = "cond" -> v \in 0..15
                    [] n \in {"rt", "rn", "rd"} -> v \in Register
                    [] n = "shift" -> v \in {0, 16, 32, 48}
                    [] n \in {"R", "S"} -> v \in 0..(IF instr.operands.rd.x THEN 63 ELSE 31)
                    [] n = "logical" -> v = Ones \/ v[2] < 2^v[1] - 1
                    [] n = "system_register" -> v \in SysRegs
                    [] OTHER -> TRUE
    BY <2>1, <2>2, <2>3 DEF RangeOK
  <2> QED BY <2>1, <2>2, <2>3 DEF Inv, TypeOK
<1> QED BY <1>1, Invariance, PTL

(* The decode tree and the instruction table agree on every word, but for  *)
(* the classes that TreeAgrees names.                                      *)
THEOREM AgreesWithTable == Spec => []TreeAgrees
<1>1. Inv => TreeAgrees
  <2> SUFFICES ASSUME Inv, step = "decoded", instr # Null,
                      Get(word, "instr_type_1") \notin {5, 13},
                      instr.op \notin {"B_cond", "EXTR"},
                      instr.class \notin {"ExpGen", "System"}
               PROVE  Matches(word, RowOf[instr.op])
    BY DEF TreeAgrees
  <2>1. instr \in Objects /\ instr.class = Tree(word).class /\ instr.op = OpOf(word)
    BY DEF Inv
  <2>2. instr.op \in RowOps
    BY <2>1, ObjectsShape
  <2>3. Tree(word) \in Answers
    BY TreeAnswers
  <2>4. Tree(word).op = "UN_DECODED" => Tree(word).class \in {"ExpGen", "System"}
    BY <2>3 DEF Answers, None, Object, BranchOps, AddSubOps, LogicalOps
  <2>5. instr.op = Tree(word).op
    BY <2>1, <2>4 DEF OpOf
  <2> QED BY <2>2, <2>5, TreeAnswers
<1> QED BY <1>1, Invariance, PTL

(* Every word of the rows of CompleteRows is decoded, and as its row.      *)
THEOREM RowsDecoded == Spec => []Complete
<1>1. Inv => Complete
  <2> SUFFICES ASSUME Inv, step = "decoded", NEW op \in CompleteRows,
                      Matches(word, RowOf[op])
               PROVE  Decoded(op)
    BY DEF Complete
  <2>1. instr # Null /\ instr.op = OpOf(word)
    BY DEF Inv
  <2>2. OpOf(word) = op
    BY CompleteTree
  <2> QED BY <2>1, <2>2 DEF Decoded
<1> QED BY <1>1, Invariance, PTL

(* Fields that are written one after the other lie beside each other.      *)
LEMMA FieldsBeside ==
    ASSUME NEW w, NEW v
    PROVE
      /\ Get(Put(w, "bch_cond_offset", v), "cond") = Get(w, "cond")
      /\ Get(Put(w, "bch_cond_offset", v), "Rt") = Get(w, "Rt")
      /\ Get(Put(w, "system_register", v), "Rd") = Get(w, "Rd")
      /\ Get(Put(w, "addsub_imm_update_flag", v), "addsub_imm_update_64bit") = Get(w, "addsub_imm_update_64bit")
      /\ Get(Put(w, "Rd", v), "addsub_imm_update_64bit") = Get(w, "addsub_imm_update_64bit")
      /\ Get(Put(w, "Rn", v), "addsub_imm_update_64bit") = Get(w, "addsub_imm_update_64bit")
      /\ Get(Put(w, "Rd", v), "addsub_imm_update_flag") = Get(w, "addsub_imm_update_flag")
      /\ Get(Put(w, "Rn", v), "addsub_imm_update_flag") = Get(w, "addsub_imm_update_flag")
      /\ Get(Put(w, "Rn", v), "Rd") = Get(w, "Rd")
      /\ Get(Put(w, "hw", v), "imm16") = Get(w, "imm16")
      /\ Get(Put(w, "Rd", v), "imm16") = Get(w, "imm16")
      /\ Get(Put(w, "sf", v), "imm16") = Get(w, "imm16")
      /\ Get(Put(w, "Rd", v), "hw") = Get(w, "hw")
      /\ Get(Put(w, "sf", v), "hw") = Get(w, "hw")
      /\ Get(Put(w, "sf", v), "Rd") = Get(w, "Rd")
      /\ Get(Put(w, "imms", v), "N") = Get(w, "N")
      /\ Get(Put(w, "immr", v), "N") = Get(w, "N")
      /\ Get(Put(w, "Rd", v), "N") = Get(w, "N")
      /\ Get(Put(w, "immr", v), "imms") = Get(w, "imms")
      /\ Get(Put(w, "Rd", v), "imms") = Get(w, "imms")
      /\ Get(Put(w, "Rd", v), "immr") = Get(w, "immr")
      /\ Get(Put(w, "imms", v), "immr") = Get(w, "immr")
      /\ Get(Put(w, "sf", v), "immr") = Get(w, "immr")
      /\ Get(Put(w, "Rn", v), "immr") = Get(w, "immr")
      /\ Get(Put(w, "sf", v), "imms") = Get(w, "imms")
      /\ Get(Put(w, "Rn", v), "imms") = Get(w, "imms")
<1>1. /\ Get(Put(w, "bch_cond_offset", v), "cond") = Get(w, "cond")
      /\ Get(Put(w, "bch_cond_offset", v), "Rt") = Get(w, "Rt")
      /\ Get(Put(w, "system_register", v), "Rd") = Get(w, "Rd")
      /\ Get(Put(w, "addsub_imm_update_flag", v), "addsub_imm_update_64bit") = Get(w, "addsub_imm_update_64bit")
      /\ Get(Put(w, "Rd", v), "addsub_imm_update_64bit") = Get(w, "addsub_imm_update_64bit")
      /\ Get(Put(w, "Rn", v), "addsub_imm_update_64bit") = Get(w, "addsub_imm_update_64bit")
  BY SMT, FieldPlaces, PutElsewhere
<1>2. /\ Get(Put(w, "Rd", v), "addsub_imm_update_flag") = Get(w, "addsub_imm_update_flag")
      /\ Get(Put(w, "Rn", v), "addsub_imm_update_flag") = Get(w, "addsub_imm_update_flag")
      /\ Get(Put(w, "Rn", v), "Rd") = Get(w, "Rd")
      /\ Get(Put(w, "hw", v), "imm16") = Get(w, "imm16")
      /\ Get(Put(w, "Rd", v), "imm16") = Get(w, "imm16")
      /\ Get(Put(w, "sf", v), "imm16") = Get(w, "imm16")
  BY SMT, FieldPlaces, PutElsewhere
<1>3. /\ Get(Put(w, "Rd", v), "hw") = Get(w, "hw")
      /\ Get(Put(w, "sf", v), "hw") = Get(w, "hw")
      /\ Get(Put(w, "sf", v), "Rd") = Get(w, "Rd")
      /\ Get(Put(w, "imms", v), "N") = Get(w, "N")
      /\ Get(Put(w, "immr", v), "N") = Get(w, "N")
      /\ Get(Put(w, "Rd", v), "N") = Get(w, "N")
  BY SMT, FieldPlaces, PutElsewhere
<1>4. /\ Get(Put(w, "immr", v), "imms") = Get(w, "imms")
      /\ Get(Put(w, "Rd", v), "imms") = Get(w, "imms")
      /\ Get(Put(w, "Rd", v), "immr") = Get(w, "immr")
      /\ Get(Put(w, "imms", v), "immr") = Get(w, "immr")
      /\ Get(Put(w, "sf", v), "immr") = Get(w, "immr")
      /\ Get(Put(w, "Rn", v), "immr") = Get(w, "immr")
  BY SMT, FieldPlaces, PutElsewhere
<1>5. /\ Get(Put(w, "sf", v), "imms") = Get(w, "imms")
      /\ Get(Put(w, "Rn", v), "imms") = Get(w, "imms")
  BY SMT, FieldPlaces, PutElsewhere
<1> QED BY ONLY <1>1, <1>2, <1>3, <1>4, <1>5

(* An offset that fits comes back from the field it is cut down to.        *)
LEMMA NearOffset ==
    ASSUME NEW offset \in Int, NEW bound, bound = 2^20,
           offset % 4 = 0, offset \in -bound..bound - 1
    PROVE  /\ EncodeOffset(offset, 19, 2) \in Nat
           /\ EncodeOffset(offset, 19, 2) < 524288
           /\ SignExtend(EncodeOffset(offset, 19, 2) * 2^2, 19 + 2) = offset
<1>1. EncodeOffset(offset, 19, 2) = (offset \div 4) % 524288
  BY SMT DEF EncodeOffset, TruncateSTo
<1>2. \A b, x \in Int : x \in -b..b - 1 => -b <= x /\ x < b
  BY SMT
<1>3. -1048576 <= offset /\ offset < 1048576
  BY SMT, <1>2
<1>4. PICK q \in Int : offset = 4 * q
  BY SMT
<1>5. -262144 <= q /\ q < 262144
  BY ONLY SMT, <1>3, <1>4
<1>6. offset \div 4 = q
  BY ONLY SMT, <1>4
<1> DEFINE e == q % 524288
<1>7. e \in Nat /\ e < 524288 /\ (q >= 0 => e = q) /\ (q < 0 => e = q + 524288)
  BY ONLY SMT, <1>5
<1> HIDE DEF e
<1>8. SignExtend(e * 2^2, 19 + 2) = IF (e * 4) % 2097152 >= 1048576
                                   THEN ((e * 4) % 2097152) - 2097152
                                   ELSE (e * 4) % 2097152
  BY SMT DEF SignExtend
<1>9. (e * 4) % 2097152 = e * 4
  BY ONLY SMT, <1>7
<1>10. SignExtend(e * 2^2, 19 + 2) = offset
  BY ONLY SMT, <1>4, <1>5, <1>7, <1>8, <1>9
<1>11. EncodeOffset(offset, 19, 2) = e
  BY <1>1, <1>6 DEF e
<1> QED BY ONLY <1>7, <1>10, <1>11

(* The same for the 26 bit offset of B and BL.                             *)
LEMMA FarOffset ==
    ASSUME NEW offset \in Int, NEW bound, bound = 2^27,
           offset % 4 = 0, offset \in -bound..bound - 1
    PROVE  /\ EncodeOffset(offset, 26, 2) \in Nat
           /\ EncodeOffset(offset, 26, 2) < 67108864
           /\ SignExtend(EncodeOffset(offset, 26, 2) * 2^2, 26 + 2) = offset
<1>1. EncodeOffset(offset, 26, 2) = (offset \div 4) % 67108864
  BY SMT DEF EncodeOffset, TruncateSTo
<1>2. \A b, x \in Int : x \in -b..b - 1 => -b <= x /\ x < b
  BY SMT
<1>3. -134217728 <= offset /\ offset < 134217728
  BY SMT, <1>2
<1>4. PICK q \in Int : offset = 4 * q
  BY SMT
<1>5. -33554432 <= q /\ q < 33554432
  BY ONLY SMT, <1>3, <1>4
<1>6. offset \div 4 = q
  BY ONLY SMT, <1>4
<1> DEFINE e == q % 67108864
<1>7. e \in Nat /\ e < 67108864 /\ (q >= 0 => e = q) /\ (q < 0 => e = q + 67108864)
  BY ONLY SMT, <1>5
<1> HIDE DEF e
<1>8. SignExtend(e * 2^2, 26 + 2) = IF (e * 4) % 268435456 >= 134217728
                                   THEN ((e * 4) % 268435456) - 268435456
                                   ELSE (e * 4) % 268435456
  BY SMT DEF SignExtend
<1>9. (e * 4) % 268435456 = e * 4
  BY ONLY SMT, <1>7
<1>10. SignExtend(e * 2^2, 26 + 2) = offset
  BY ONLY SMT, <1>4, <1>5, <1>7, <1>8, <1>9
<1>11. EncodeOffset(offset, 26, 2) = e
  BY <1>1, <1>6 DEF e
<1> QED BY ONLY <1>7, <1>10, <1>11

(* An object that an assembled word gives back, as far as it is written.   *)
Same(i, o, n) ==
    IF n \in {"rt", "rn", "rd"} THEN o[n].code = i.operands[n].code
    ELSE o[n] = i.operands[n]
ReadBack(i) ==
    \E o \in Operands(i.class, i.op, Assembled(i)) :
      \A n \in WrittenOperands(i) : Fits(i, n) => Same(i, o, n)

(* B.cond: the condition and, where it fits, the offset are read back.     *)
LEMMA CondBranchBack ==
    ASSUME NEW i \in CondBranches
    PROVE  ReadBack(i)
<1> DEFINE cond == i.operands.cond
           offset == i.operands.offset
           base == Put(OpcodeBits(i.op), "cond", cond)
           w == Put(base, "bch_cond_offset", EncodeOffset(offset, 19, 2))
           o == [cond |-> Get(w, "cond"), link |-> FALSE,
                 offset |-> DecodeOffset(w, "bch_cond_offset", 19, 2)]
<1>1. /\ i.class = "Branches" /\ i.op = "B_cond" /\ cond \in 0..15 /\ offset \in Int
      /\ i.operands.link = FALSE /\ DOMAIN i.operands = {"cond", "link", "offset"}
  BY DEF CondBranches
<1>2. Assembled(i) = w
  BY <1>1 DEF Assembled, AssembledBranch
<1>3. Operands(i.class, i.op, w) = {o}
  <2>1. Operands("Branches", "B_cond", w) = BranchOperands("B_cond", w)
    BY DEF Operands
  <2>2. BranchOperands("B_cond", w) = {o}
    BY DEF BranchOperands
  <2> QED BY <1>1, <2>1, <2>2
<1>4. Get(w, "cond") = cond
  <2> HIDE DEF cond
  <2>1. Get(base, "cond") = cond
    BY SMT, <1>1, FieldsReadBack
  <2> HIDE DEF base
  <2> QED BY SMT, <2>1, FieldsBeside
<1>5. Fits(i, "offset") => DecodeOffset(w, "bch_cond_offset", 19, 2) = offset
  <2> SUFFICES ASSUME Fits(i, "offset") PROVE DecodeOffset(w, "bch_cond_offset", 19, 2) = offset
    OBVIOUS
  <2>1. PICK bound : bound = 2^20 /\ offset % 4 = 0 /\ offset \in -bound..bound - 1
    BY <1>1 DEF Fits
  <2> HIDE DEF offset, base
  <2> DEFINE e == EncodeOffset(offset, 19, 2)
  <2>2. e \in Nat /\ e < 524288 /\ SignExtend(e * 2^2, 19 + 2) = offset
    BY <1>1, <2>1, NearOffset
  <2> HIDE DEF e
  <2>3. Get(Put(base, "bch_cond_offset", e), "bch_cond_offset") = e
    BY SMT, <2>2, FieldsReadBack
  <2>4. w = Put(base, "bch_cond_offset", e)
    BY DEF e
  <2> HIDE DEF w
  <2> QED BY ONLY <2>2, <2>3, <2>4 DEF DecodeOffset
<1>6. WrittenOperands(i) = {"cond", "link", "offset"}
  BY <1>1 DEF WrittenOperands
<1> HIDE DEF w
<1>7. \A n \in {"cond", "link", "offset"} : Fits(i, n) => Same(i, o, n)
  <2>1. Same(i, o, "cond") /\ Same(i, o, "link")
    BY <1>1, <1>4 DEF Same
  <2>2. Fits(i, "offset") => Same(i, o, "offset")
    BY <1>5 DEF Same
  <2> HIDE DEF o
  <2> QED BY <2>1, <2>2
<1> HIDE DEF o
<1> QED BY <1>2, <1>3, <1>6, <1>7 DEF ReadBack

(* B and BL: the offset is read back where it fits.                        *)
LEMMA JumpBack ==
    ASSUME NEW i \in Jumps
    PROVE  ReadBack(i)
<1> DEFINE offset == i.operands.offset
           base == OpcodeBits(i.op)
           w == Put(base, "bch_ucond_offset", EncodeOffset(offset, 26, 2))
           o == [link |-> i.op = "BL", offset |-> DecodeOffset(w, "bch_ucond_offset", 26, 2)]
<1>1. /\ i.class = "Branches" /\ i.op \in {"B", "BL"} /\ offset \in Int
      /\ i.operands.link = (i.op = "BL") /\ DOMAIN i.operands = {"link", "offset"}
  <2>1. \E op, link : /\ i \in [class : {"Branches"}, op : {op},
                                 operands : [link : {link}, offset : Int]]
                      /\ (op = "B" /\ link = FALSE) \/ (op = "BL" /\ link = TRUE)
    BY DEF Jumps
  <2> QED BY <2>1
<1>2. Assembled(i) = w
  BY <1>1 DEF Assembled, AssembledBranch
<1>3. Operands(i.class, i.op, w) = {o}
  <2>1. Operands("Branches", i.op, w) = BranchOperands(i.op, w)
    BY DEF Operands
  <2>2. BranchOperands(i.op, w) = {o}
    BY <1>1 DEF BranchOperands
  <2> QED BY <1>1, <2>1, <2>2
<1>5. Fits(i, "offset") => DecodeOffset(w, "bch_ucond_offset", 26, 2) = offset
  <2> SUFFICES ASSUME Fits(i, "offset") PROVE DecodeOffset(w, "bch_ucond_offset", 26, 2) = offset
    OBVIOUS
  <2>1. PICK bound : bound = 2^27 /\ offset % 4 = 0 /\ offset \in -bound..bound - 1
    BY <1>1 DEF Fits
  <2> HIDE DEF offset, base
  <2> DEFINE e == EncodeOffset(offset, 26, 2)
  <2>2. e \in Nat /\ e < 67108864 /\ SignExtend(e * 2^2, 26 + 2) = offset
    BY <1>1, <2>1, FarOffset
  <2> HIDE DEF e
  <2>3. Get(Put(base, "bch_ucond_offset", e), "bch_ucond_offset") = e
    BY SMT, <2>2, FieldsReadBack
  <2>4. w = Put(base, "bch_ucond_offset", e)
    BY DEF e
  <2> HIDE DEF w
  <2> QED BY ONLY <2>2, <2>3, <2>4 DEF DecodeOffset
<1>6. WrittenOperands(i) = {"link", "offset"}
  BY <1>1 DEF WrittenOperands
<1> HIDE DEF w
<1>7. \A n \in {"link", "offset"} : Fits(i, n) => Same(i, o, n)
  BY <1>1, <1>5 DEF Same
<1> HIDE DEF o
<1> QED BY <1>2, <1>3, <1>6, <1>7 DEF ReadBack

(* CBZ, CBNZ, BR, BLR and RET: the register is read back.                  *)
LEMMA OtherBranchBack ==
    ASSUME NEW i \in Compares \cup RegJumps \cup Returns
    PROVE  ReadBack(i)
<1> DEFINE base == OpcodeBits(i.op)
<1>1. ASSUME i \in Compares PROVE ReadBack(i)
  <2> DEFINE code == i.operands.rt.code
             e == EncodeOffset(i.operands.offset, 19, 2)
             w == Put(Put(base, "Rt", code), "bch_cond_offset", e)
             o == [rt |-> XREG(Get(w, "Rt")), link |-> FALSE,
                   offset |-> DecodeOffset(w, "bch_ucond_offset", 26, 2)]
  <2>1. i.class = "Branches" /\ i.op \in {"CBZ", "CBNZ"} /\ code \in 0..31
    BY <1>1 DEF Compares, Register
  <2>2. Assembled(i) = w
    BY <2>1 DEF Assembled, AssembledBranch, PutReg
  <2>3. Operands(i.class, i.op, w) = {o}
    <3>1. Operands("Branches", i.op, w) = BranchOperands(i.op, w)
      BY DEF Operands
    <3>2. BranchOperands(i.op, w) = {o}
      BY <2>1 DEF BranchOperands
    <3> QED BY <2>1, <3>1, <3>2
  <2>4. Get(w, "Rt") = code
    <3> HIDE DEF code, base, e
    <3>1. Get(Put(base, "Rt", code), "Rt") = code
      BY SMT, <2>1, FieldsReadBack
    <3> QED BY SMT, <3>1, FieldsBeside
  <2>5. WrittenOperands(i) = {"rt"}
    BY <2>1 DEF WrittenOperands
  <2>6. Same(i, o, "rt")
    <3> HIDE DEF w
    <3> QED BY <2>4 DEF Same, XREG
  <2> HIDE DEF w, o
  <2> QED BY <2>2, <2>3, <2>5, <2>6 DEF ReadBack
<1>2. ASSUME i \in RegJumps PROVE ReadBack(i)
  <2> DEFINE code == i.operands.rn.code
             w == Put(base, "Rn", code)
             o == [rn |-> XREG(Get(w, "Rn")), link |-> i.op = "BLR"]
  <2>1. /\ i.class = "Branches" /\ i.op \in {"BR", "BLR"} /\ code \in 0..31
        /\ i.operands.link = (i.op = "BLR") /\ DOMAIN i.operands = {"rn", "link"}
    <3>1. \E op, link : /\ i \in [class : {"Branches"}, op : {op},
                                  operands : [rn : Register, link : {link}]]
                        /\ (op = "BR" /\ link = FALSE) \/ (op = "BLR" /\ link = TRUE)
      BY <1>2 DEF RegJumps
    <3> QED BY <3>1 DEF Register
  <2>2. Assembled(i) = w
    BY <2>1 DEF Assembled, AssembledBranch, PutReg
  <2>3. Operands(i.class, i.op, w) = {o}
    <3>1. Operands("Branches", i.op, w) = BranchOperands(i.op, w)
      BY DEF Operands
    <3>2. BranchOperands(i.op, w) = {o}
      BY <2>1 DEF BranchOperands
    <3> QED BY <2>1, <3>1, <3>2
  <2>4. Get(w, "Rn") = code
    <3> HIDE DEF code, base
    <3> QED BY SMT, <2>1, FieldsReadBack
  <2>5. WrittenOperands(i) = {"rn", "link"}
    BY <2>1 DEF WrittenOperands
  <2>6. Same(i, o, "rn") /\ Same(i, o, "link")
    <3> HIDE DEF w
    <3> QED BY <2>1, <2>4 DEF Same, XREG
  <2> HIDE DEF w, o
  <2> QED BY <2>2, <2>3, <2>5, <2>6 DEF ReadBack
<1>3. ASSUME i \in Returns PROVE ReadBack(i)
  <2> DEFINE w == Assembled(i)
             o == [link |-> FALSE]
  <2>1. /\ i.class = "Branches" /\ i.op = "RET" /\ i.operands = o
    BY <1>3 DEF Returns
  <2>2. Operands(i.class, i.op, w) = {o}
    <3>1. Operands("Branches", "RET", w) = BranchOperands("RET", w)
      BY DEF Operands
    <3>2. BranchOperands("RET", w) = {o}
      BY DEF BranchOperands
    <3> QED BY <2>1, <3>1, <3>2
  <2>3. WrittenOperands(i) = {"link"}
    BY <2>1 DEF WrittenOperands
  <2>4. Same(i, o, "link")
    BY <2>1 DEF Same
  <2> HIDE DEF w, o
  <2> QED BY <2>2, <2>3, <2>4 DEF ReadBack, w
<1> QED BY <1>1, <1>2, <1>3

(* Exceptions, MRS and MSR: the immediate, the register and the system     *)
(* register are read back.                                                 *)
LEMMA SystemBack ==
    ASSUME NEW i \in Exceptions \cup SystemMoves \cup Hints
    PROVE  ReadBack(i)
<1> DEFINE base == OpcodeBits(i.op)
<1>1. ASSUME i \in Exceptions PROVE ReadBack(i)
  <2> DEFINE imm == i.operands.imm
             w == Put(base, "imm16", imm)
             o == [imm |-> Get(w, "imm16")]
  <2>1. /\ i.class = "ExpGen" /\ imm \in Imm16 /\ DOMAIN i.operands = {"imm"}
        /\ i.op \notin {"CBZ", "CBNZ"}
    BY <1>1 DEF Exceptions, ExpGenOps
  <2>2. Assembled(i) = w
    BY <2>1 DEF Assembled
  <2>3. Operands(i.class, i.op, w) = {o}
    BY <2>1 DEF Operands
  <2>4. Get(w, "imm16") = imm
    <3> HIDE DEF imm, base
    <3>1. imm \in Nat /\ imm < 65536
      BY <2>1, FieldLimits
    <3> QED BY SMT, <3>1, FieldsReadBack
  <2>5. WrittenOperands(i) = {"imm"}
    BY <2>1 DEF WrittenOperands
  <2>6. Same(i, o, "imm")
    <3> HIDE DEF w
    <3> QED BY <2>4 DEF Same
  <2> HIDE DEF w, o
  <2> QED BY <2>2, <2>3, <2>5, <2>6 DEF ReadBack
<1>2. ASSUME i \in SystemMoves PROVE ReadBack(i)
  <2> DEFINE code == i.operands.rt.code
             reg == i.operands.system_register
             w == Put(Put(base, "Rd", code), "system_register", reg)
             o == [rt |-> XREG(Get(w, "Rd")), system_register |-> Get(w, "system_register")]
  <2>1. /\ i.class = "System" /\ i.op \in SystemOps /\ code \in 0..31 /\ reg \in SysRegs
        /\ DOMAIN i.operands = {"rt", "system_register"}
    BY <1>2 DEF SystemMoves, Register
  <2>2. Assembled(i) = w
    BY <2>1 DEF Assembled, PutReg
  <2>3. Operands(i.class, i.op, w) = {o}
    <3>1. Operands("System", i.op, w) = SystemOperands(i.op, w)
      BY DEF Operands
    <3>2. SystemOperands(i.op, w) = {o}
      BY <2>1 DEF SystemOperands, SystemOps
    <3> QED BY <2>1, <3>1, <3>2
  <2>4. Get(w, "Rd") = code /\ Get(w, "system_register") = reg
    <3> HIDE DEF code, reg, base
    <3>1. Get(Put(base, "Rd", code), "Rd") = code
      BY SMT, <2>1, FieldsReadBack
    <3>2. Get(w, "Rd") = code
      BY SMT, <3>1, FieldsBeside
    <3>3. reg \in Nat /\ reg < 32768
      BY <2>1, FieldLimits
    <3>4. Get(w, "system_register") = reg
      BY SMT, <3>3, FieldsReadBack
    <3> QED BY <3>2, <3>4
  <2>5. WrittenOperands(i) = {"rt", "system_register"}
    BY <2>1 DEF WrittenOperands, SystemOps
  <2>6. Same(i, o, "rt") /\ Same(i, o, "system_register")
    <3> HIDE DEF w
    <3> QED BY <2>4 DEF Same, XREG
  <2> HIDE DEF w, o
  <2> QED BY <2>2, <2>3, <2>5, <2>6 DEF ReadBack
<1>3. ASSUME i \in Hints PROVE ReadBack(i)
  <2> DEFINE w == Assembled(i)
  <2>1. i.class = "System" /\ i.op \in {"NOP", "YIELD"} /\ i.operands = <<>>
    BY <1>3 DEF Hints
  <2>2. Operands(i.class, i.op, w) = {<<>>}
    <3>1. Operands("System", i.op, w) = SystemOperands(i.op, w)
      BY DEF Operands
    <3> QED BY <2>1, <3>1 DEF SystemOperands
  <2>3. WrittenOperands(i) = {}
    <3>1. WrittenOperands(i) = DOMAIN i.operands
      BY <2>1 DEF WrittenOperands
    <3> QED BY <2>1, <3>1
  <2> HIDE DEF w
  <2> QED BY <2>2, <2>3 DEF ReadBack, w
<1> QED BY <1>1, <1>2, <1>3

(* ADR, ADRP and EXTR: Assemble writes the word it kept.                   *)
LEMMA AddressBack ==
    ASSUME NEW i \in Addresses \cup Extracts
    PROVE  ReadBack(i)
<1> DEFINE w == Assembled(i)
<1>1. i.class \in {"PCRelAdr", "Extract"} /\ i.op \in {"ADR", "ADRP", "EXTR"}
  BY DEF Addresses, Extracts
<1>2. WrittenOperands(i) = {}
  BY <1>1 DEF WrittenOperands
<1>3. \E o : o \in Operands(i.class, i.op, w)
  <2>1. Operands("PCRelAdr", i.op, w) = PCRelOperands(i.op, w)
    BY DEF Operands
  <2>2. PICK d : d \in Offsets
    BY ArgumentsAssumption
  <2>3. \E o : o \in PCRelOperands(i.op, w)
    BY <2>2 DEF PCRelOperands
  <2>4. \E o : o \in Operands("Extract", i.op, w)
    BY DEF Operands
  <2> QED BY <1>1, <2>1, <2>3, <2>4
<1> HIDE DEF w
<1> QED BY <1>2, <1>3 DEF ReadBack, w

(* Additions: width and sign, which share bit 30, the flags and both       *)
(* registers are read back.                                                *)
LEMMA AddSubBack ==
    ASSUME NEW i \in AddSubs
    PROVE  ReadBack(i)
<1> DEFINE p == i.operands
           s == Put(OpcodeBits(i.op), "addsub_imm_update_sub", IF p.is_sub THEN 1 ELSE 0)
           x == IF p.rd.x THEN 1 ELSE 0
           b == Put(s, "addsub_imm_update_64bit", x)
           u == IF p.update_flag THEN 1 ELSE 0
           f == Put(b, "addsub_imm_update_flag", u)
           d == Put(f, "Rd", p.rd.code)
           w == Put(d, "Rn", p.rn.code)
           is64 == Get(w, "addsub_imm_update_64bit") = 1
           o == [is_sub |-> Get(w, "addsub_imm_update_sub") = 1,
                 update_flag |-> Get(w, "addsub_imm_update_flag") = 1,
                 imm |-> Get(w, "dp_imm") * (IF Get(w, "shift") = 1 THEN 4096 ELSE 1),
                 rd |-> Reg(is64, Get(w, "Rd")), rn |-> Reg(is64, Get(w, "Rn"))]
<1>1. /\ i.class = "AddSubImmediate" /\ i.op \in AddSubOps
      /\ p.rd.code \in 0..31 /\ p.rn.code \in 0..31
      /\ p.rd.x \in BOOLEAN /\ p.update_flag \in BOOLEAN /\ p.is_sub = p.rd.x
  BY DEF AddSubs, AddSubOperandSet, Register
<1>2. Assembled(i) = w
  <2>1. Assembled(i) = AssembledAddSub(i.op, p)
    BY <1>1 DEF Assembled
  <2>2. AssembledAddSub(i.op, p) = w
    BY Zenon DEF AssembledAddSub, PutReg
  <2> QED BY <2>1, <2>2
<1>3. Operands(i.class, i.op, w) = {o}
  <2>1. Operands("AddSubImmediate", i.op, w) = AddSubOperands(w)
    BY DEF Operands
  <2> HIDE DEF w
  <2>2. AddSubOperands(w) = {o}
    BY Zenon DEF AddSubOperands
  <2> QED BY <1>1, <2>1, <2>2
<1>4. Get(w, "addsub_imm_update_64bit") = x /\ Get(w, "addsub_imm_update_sub") = x
  <2>1. x \in Nat /\ x < 2
    OBVIOUS
  <2> HIDE DEF x, s, u
  <2>2. Get(b, "addsub_imm_update_64bit") = x
    BY SMT, <2>1, FieldsReadBack
  <2> HIDE DEF b
  <2>3. Get(f, "addsub_imm_update_64bit") = x
    BY SMT, <2>2, FieldsBeside
  <2> HIDE DEF f
  <2>4. Get(d, "addsub_imm_update_64bit") = x
    BY SMT, <2>3, FieldsBeside
  <2> HIDE DEF d
  <2>5. Get(w, "addsub_imm_update_64bit") = x
    BY SMT, <2>4, FieldsBeside
  <2> HIDE DEF w
  <2> QED BY SMT, <2>5, SmallFields
<1>5. Get(w, "addsub_imm_update_flag") = u
  <2>1. u \in Nat /\ u < 2
    OBVIOUS
  <2> HIDE DEF u, b
  <2>2. Get(f, "addsub_imm_update_flag") = u
    BY SMT, <2>1, FieldsReadBack
  <2> HIDE DEF f
  <2>3. Get(d, "addsub_imm_update_flag") = u
    BY SMT, <2>2, FieldsBeside
  <2> HIDE DEF d
  <2> QED BY SMT, <2>3, FieldsBeside
<1>6. Get(w, "Rd") = p.rd.code /\ Get(w, "Rn") = p.rn.code
  <2> HIDE DEF f, p
  <2>1. Get(d, "Rd") = p.rd.code
    BY SMT, <1>1, FieldsReadBack
  <2> HIDE DEF d
  <2>2. Get(w, "Rd") = p.rd.code
    BY SMT, <2>1, FieldsBeside
  <2>3. Get(w, "Rn") = p.rn.code
    BY SMT, <1>1, FieldsReadBack
  <2> QED BY <2>2, <2>3
<1>7. WrittenOperands(i) = {"is_sub", "update_flag", "rd", "rn"}
  BY <1>1 DEF WrittenOperands, AddSubOps
<1>8. Same(i, o, "is_sub") /\ Same(i, o, "update_flag") /\ Same(i, o, "rd") /\ Same(i, o, "rn")
  <2> HIDE DEF w
  <2>1. o.is_sub = p.is_sub
    BY <1>1, <1>4
  <2>2. o.update_flag = p.update_flag
    BY <1>1, <1>5
  <2>3. o.rd.code = p.rd.code /\ o.rn.code = p.rn.code
    BY <1>6 DEF Reg, XREG, WREG
  <2> HIDE DEF o
  <2> QED BY <2>1, <2>2, <2>3 DEF Same
<1> HIDE DEF w, o
<1> QED BY <1>2, <1>3, <1>7, <1>8 DEF ReadBack

(* MOVN, MOVZ and MOVK: the register, the immediate and its shift.         *)
LEMMA MovWideBack ==
    ASSUME NEW i \in MovWides
    PROVE  ReadBack(i)
<1> DEFINE p == i.operands
           m == Put(OpcodeBits(i.op), "imm16", p.imm)
           q == p.shift \div 16
           h == Put(m, "hw", q)
           d == Put(h, "Rd", p.rd.code)
           w == Put(d, "sf", IF p.rd.x THEN 1 ELSE 0)
           o == [rd |-> Reg(Get(w, "addsub_imm_update_64bit") = 1, Get(w, "Rd")),
                 imm |-> Get(w, "imm16"), shift |-> Get(w, "hw") * 16]
<1>1. /\ i.class = "MovWide" /\ i.op \in {"MOVN", "MOVZ", "MOVK"}
      /\ p.rd.code \in 0..31 /\ p.imm \in Imm16 /\ p.shift \in {0, 16, 32, 48}
      /\ DOMAIN p = {"rd", "imm", "shift"}
  BY DEF MovWides, Register
<1>2. Assembled(i) = w
  <2>1. Assembled(i) = AssembledMovWide(i.op, p)
    BY <1>1 DEF Assembled
  <2>2. AssembledMovWide(i.op, p) = w
    BY Zenon DEF AssembledMovWide, PutReg
  <2> QED BY <2>1, <2>2
<1>3. Operands(i.class, i.op, w) = {o}
  <2> HIDE DEF w
  <2>1. Operands("MovWide", i.op, w) = {o}
    BY DEF Operands
  <2> QED BY <1>1, <2>1
<1>4. Get(w, "imm16") = p.imm
  <2> HIDE DEF p, q
  <2>1. p.imm \in Nat /\ p.imm < 65536
    BY <1>1, FieldLimits
  <2>2. Get(m, "imm16") = p.imm
    BY SMT, <2>1, FieldsReadBack
  <2> HIDE DEF m
  <2>3. Get(h, "imm16") = p.imm
    BY SMT, <2>2, FieldsBeside
  <2> HIDE DEF h
  <2>4. Get(d, "imm16") = p.imm
    BY SMT, <2>3, FieldsBeside
  <2> HIDE DEF d
  <2> QED BY SMT, <2>4, FieldsBeside
<1>5. Get(w, "hw") * 16 = p.shift
  <2>1. q \in Nat /\ q < 4 /\ q * 16 = p.shift
    BY SMT, <1>1
  <2> HIDE DEF p, q, m
  <2>2. Get(h, "hw") = q
    BY SMT, <2>1, FieldsReadBack
  <2> HIDE DEF h
  <2>3. Get(d, "hw") = q
    BY SMT, <2>2, FieldsBeside
  <2> HIDE DEF d
  <2>4. Get(w, "hw") = q
    BY SMT, <2>3, FieldsBeside
  <2> QED BY <2>1, <2>4
<1>6. Get(w, "Rd") = p.rd.code
  <2> HIDE DEF h, p
  <2>1. Get(d, "Rd") = p.rd.code
    BY SMT, <1>1, FieldsReadBack
  <2> HIDE DEF d
  <2> QED BY SMT, <2>1, FieldsBeside
<1>7. WrittenOperands(i) = {"rd", "imm", "shift"}
  BY <1>1 DEF WrittenOperands
<1>8. Same(i, o, "rd") /\ Same(i, o, "imm") /\ Same(i, o, "shift")
  <2> HIDE DEF w
  <2>1. o.rd.code = p.rd.code /\ o.imm = p.imm /\ o.shift = p.shift
    BY <1>4, <1>5, <1>6 DEF Reg, XREG, WREG
  <2> HIDE DEF o
  <2> QED BY <2>1 DEF Same
<1> HIDE DEF w, o
<1> QED BY <1>2, <1>3, <1>7, <1>8 DEF ReadBack

(* SBFM, BFM and UBFM: both registers, R and S.                            *)
LEMMA BitFieldBack ==
    ASSUME NEW i \in BitFields
    PROVE  ReadBack(i)
<1> DEFINE p == i.operands
           r == Put(OpcodeBits(i.op), "immr", p.R)
           s == Put(r, "imms", p.S)
           x == Put(s, "sf", IF p.rd.x THEN 1 ELSE 0)
           d == Put(x, "Rd", p.rd.code)
           w == Put(d, "Rn", p.rn.code)
           o == [R |-> Get(w, "immr"), S |-> Get(w, "imms"),
                 rd |-> Reg(Get(w, "sf") = 1, Get(w, "Rd")),
                 rn |-> Reg(Get(w, "sf") = 1, Get(w, "Rn"))]
<1>1. /\ i.class = "BitField" /\ i.op \in {"SBFM", "BFM", "UBFM"}
      /\ p.rd.code \in 0..31 /\ p.rn.code \in 0..31 /\ p.R \in 0..63 /\ p.S \in 0..63
      /\ DOMAIN p = {"R", "S", "rd", "rn"}
  BY DEF BitFields, BitFieldOperandSet, Register
<1>2. Assembled(i) = w
  <2>1. Assembled(i) = AssembledBitField(i.op, p)
    BY <1>1 DEF Assembled
  <2>2. AssembledBitField(i.op, p) = w
    BY Zenon DEF AssembledBitField, PutReg
  <2> QED BY <2>1, <2>2
<1>3. Operands(i.class, i.op, w) = {o}
  <2> HIDE DEF w
  <2>1. Operands("BitField", i.op, w) = {o}
    BY DEF Operands
  <2> QED BY <1>1, <2>1
<1>4. Get(w, "immr") = p.R /\ Get(w, "imms") = p.S
  <2> HIDE DEF p
  <2>1. Get(r, "immr") = p.R
    BY SMT, <1>1, FieldsReadBack
  <2> HIDE DEF r
  <2>2. Get(s, "immr") = p.R /\ Get(s, "imms") = p.S
    BY SMT, <1>1, <2>1, FieldsReadBack, FieldsBeside
  <2> HIDE DEF s
  <2>3. Get(x, "immr") = p.R /\ Get(x, "imms") = p.S
    BY SMT, <2>2, FieldsBeside
  <2> HIDE DEF x
  <2>4. Get(d, "immr") = p.R /\ Get(d, "imms") = p.S
    BY SMT, <2>3, FieldsBeside
  <2> HIDE DEF d
  <2> QED BY SMT, <2>4, FieldsBeside
<1>6. Get(w, "Rd") = p.rd.code /\ Get(w, "Rn") = p.rn.code
  <2> HIDE DEF x, p
  <2>1. Get(d, "Rd") = p.rd.code
    BY SMT, <1>1, FieldsReadBack
  <2> HIDE DEF d
  <2>2. Get(w, "Rd") = p.rd.code
    BY SMT, <2>1, FieldsBeside
  <2>3. Get(w, "Rn") = p.rn.code
    BY SMT, <1>1, FieldsReadBack
  <2> QED BY <2>2, <2>3
<1>7. WrittenOperands(i) = {"R", "S", "rd", "rn"}
  BY <1>1 DEF WrittenOperands
<1>8. Same(i, o, "R") /\ Same(i, o, "S") /\ Same(i, o, "rd") /\ Same(i, o, "rn")
  <2> HIDE DEF w
  <2>1. /\ o.rd.code = p.rd.code /\ o.rn.code = p.rn.code
        /\ o.R = p.R /\ o.S = p.S
    BY <1>4, <1>6 DEF Reg, XREG, WREG
  <2> HIDE DEF o
  <2> QED BY <2>1 DEF Same
<1> HIDE DEF w, o
<1> QED BY <1>2, <1>3, <1>7, <1>8 DEF ReadBack

(* The length of the elements is read back from the leading bits of imms.  *)
LEMMA LogicalBack ==
    ASSUME NEW i \in Logicals
    PROVE  ReadBack(i)
<1> DEFINE p == i.operands
           v == p.logical
           l == v[1]
           n == IF l = 6 THEN 1 ELSE 0
           imms == ((-(2^(l + 1))) % 64) + v[2]
           a == Put(OpcodeBits(i.op), "N", n)
           b == Put(a, "imms", imms)
           c == Put(b, "immr", v[3])
           d == Put(c, "Rd", p.rd.code)
           w == Assembled(i)
           o == [rd |-> Reg(Get(w, "sf") = 1, Get(w, "Rd")), logical |-> LogicalImmediate(w)]
<1>1. /\ i.class = "LogicalImmediate" /\ i.op \in LogicalOps
      /\ p.rd.code \in 0..31 /\ v \in LogicalValues
      /\ DOMAIN p = {"rd", "logical"}
  BY DEF Logicals, Register
<1>2. Operands(i.class, i.op, w) = {o}
  <2> HIDE DEF w
  <2>1. Operands("LogicalImmediate", i.op, w) = {o}
    BY DEF Operands
  <2> QED BY <1>1, <2>1
<1>3. ASSUME v = Ones PROVE ReadBack(i)
  <2>1. WrittenOperands(i) = {}
    BY <1>1, <1>3 DEF WrittenOperands, LogicalOps
  <2> HIDE DEF o, w
  <2> QED BY <1>2, <2>1 DEF ReadBack, w
<1>4. ASSUME v # Ones PROVE ReadBack(i)
  <2>1. /\ v = <<l, v[2], v[3]>> /\ l \in 1..6 /\ v[2] \in 0..62 /\ v[3] \in 0..63
        /\ v[2] < P2[l] - 1 /\ v[3] < P2[l]
    BY <1>1, <1>4 DEF LogicalValues
  <2>2. w = d
    <3>1. w = AssembledLogical(i.op, p)
      BY <1>1 DEF Assembled
    <3>2. AssembledLogical(i.op, p) = d
      BY Zenon, <1>4 DEF AssembledLogical, PutReg
    <3> QED BY <3>1, <3>2
  <2>3. WrittenOperands(i) = {"rd", "logical"}
    BY <1>1, <1>4 DEF WrittenOperands, LogicalOps
  <2> DEFINE S == v[2]
             R == v[3]
  <2>4. imms = (IF l = 6 THEN 0 ELSE 64 - P2[l + 1]) + S
    <3> HIDE DEF v
    <3>1. 2^(l + 1) = P2[l + 1]
      BY <2>1 DEF P2
    <3>2. (-P2[l + 1]) % 64 = IF l = 6 THEN 0 ELSE 64 - P2[l + 1]
      <4>1. P2[2] = 4 /\ P2[3] = 8 /\ P2[4] = 16 /\ P2[5] = 32 /\ P2[6] = 64 /\ P2[7] = 128
        BY SMT, Powers
      <4> HIDE DEF l
      <4>2. /\ l = 1 => (-P2[l + 1]) % 64 = 64 - P2[l + 1]
            /\ l = 2 => (-P2[l + 1]) % 64 = 64 - P2[l + 1]
            /\ l = 3 => (-P2[l + 1]) % 64 = 64 - P2[l + 1]
            /\ l = 4 => (-P2[l + 1]) % 64 = 64 - P2[l + 1]
            /\ l = 5 => (-P2[l + 1]) % 64 = 64 - P2[l + 1]
            /\ l = 6 => (-P2[l + 1]) % 64 = 0
        BY SMT, <4>1
      <4> QED BY SMT, <2>1, <4>2
    <3> QED BY <3>1, <3>2
  <2> HIDE DEF imms, n, v, l, S, R
  <2>5. n \in {0, 1} /\ (n = 1 <=> l = 6)
    BY DEF n
  <2>6. S \in 0..62 /\ R \in 0..63 /\ S < P2[l] - 1 /\ R < P2[l] /\ v = <<l, S, R>>
    BY <2>1 DEF S, R
  <2>7. /\ P2[1] = 2 /\ P2[2] = 4 /\ P2[3] = 8 /\ P2[4] = 16 /\ P2[5] = 32 /\ P2[6] = 64
    BY SMT, Powers
  <2> DEFINE size == 64 * n + 63 - imms
  <2> DEFINE Fit == /\ imms \in 0..63 /\ size \in Int /\ imms % P2[l] = S /\ R % P2[l] = R
                    /\ P2[l] <= size /\ (l < 6 => size < P2[l + 1])
  <2>8. Fit
    <3>1. l = 6 => Fit
      BY SMT, <2>4, <2>5, <2>6, <2>7
    <3>2. l = 5 => Fit
      BY SMT, <2>4, <2>5, <2>6, <2>7
    <3>3. l = 4 => Fit
      BY SMT, <2>4, <2>5, <2>6, <2>7
    <3>4. l = 3 => Fit
      BY SMT, <2>4, <2>5, <2>6, <2>7
    <3>5. l = 2 => Fit
      BY SMT, <2>4, <2>5, <2>6, <2>7
    <3>6. l = 1 => Fit
      BY SMT, <2>4, <2>5, <2>6, <2>7
    <3> HIDE DEF Fit
    <3> QED BY <2>1, <3>1, <3>2, <3>3, <3>4, <3>5, <3>6
  <2>9. Get(d, "N") = n /\ Get(d, "imms") = imms /\ Get(d, "immr") = R
    <3>1. v[3] = R
      BY DEF R
    <3>2. n \in Nat /\ n < 2
      BY <2>5
    <3>3. imms \in Nat /\ imms < 64 /\ R \in Nat /\ R < 64
      BY SMT, <2>6, <2>8
    <3> HIDE DEF p, Fit, size
    <3>4. Get(a, "N") = n
      BY SMT, <3>2, FieldsReadBack
    <3> HIDE DEF a
    <3>5. Get(b, "N") = n
      BY SMT, <3>4, FieldsBeside
    <3>6. Get(b, "imms") = imms
      BY SMT, <3>3, FieldsReadBack
    <3> HIDE DEF b
    <3>7. Get(c, "N") = n /\ Get(c, "imms") = imms
      BY SMT, <3>5, <3>6, FieldsBeside
    <3>8. Get(c, "immr") = R
      BY SMT, <3>1, <3>3, FieldsReadBack
    <3> HIDE DEF c
    <3> QED BY SMT, <3>7, <3>8, FieldsBeside
  <2>10. Get(d, "Rd") = p.rd.code
    <3> HIDE DEF c, p
    <3> QED BY SMT, <1>1, FieldsReadBack
  <2> HIDE DEF d, Fit
  <2>11. LogicalImmediate(w) = v
    <3>1. 64 * Get(w, "N") + 63 - Get(w, "imms") = size
      BY <2>2, <2>9
    <3>2. Max({k \in 0..6 : 2^k <= size \/ k = 0}) = l
      <4>1. size \in Int /\ l \in 1..6 /\ P2[l] <= size /\ (l < 6 => size < P2[l + 1])
        BY <2>1, <2>8 DEF Fit
      <4> HIDE DEF size
      <4> QED BY ONLY <4>1, Longest
    <3>3. LogicalImmediate(w) =
            IF imms % 2^l = 2^l - 1 THEN Ones ELSE <<l, imms % 2^l, R % 2^l>>
      <4> HIDE DEF size
      <4> QED BY <2>2, <2>9, <3>1, <3>2 DEF LogicalImmediate
    <3>4. 2^l = P2[l]
      BY <2>1 DEF P2
    <3>5. imms % P2[l] = S /\ R % P2[l] = R /\ S # P2[l] - 1
      <4>1. P2[l] \in Int
        BY <2>1, <2>7
      <4>2. S # P2[l] - 1
        BY SMT, <2>6, <4>1
      <4> QED BY <2>8, <4>2 DEF Fit
    <3>6. v = <<l, S, R>>
      BY <2>6
    <3> QED BY ONLY <3>3, <3>4, <3>5, <3>6
  <2>12. Same(i, o, "rd") /\ Same(i, o, "logical")
    <3>1. o.rd.code = p.rd.code
      BY <2>2, <2>10 DEF Reg, XREG, WREG
    <3>2. o.logical = p.logical
      BY <2>11 DEF v
    <3> HIDE DEF o
    <3> QED BY <3>1, <3>2 DEF Same
  <2> HIDE DEF o, w
  <2> QED BY <1>2, <2>3, <2>12 DEF ReadBack, w
<1> QED BY <1>3, <1>4

(* Every object is read back from the word it is assembled to.             *)
LEMMA ObjectsReadBack ==
    ASSUME NEW i \in Objects
    PROVE  ReadBack(i)
<1>1. i \in BranchObjects => ReadBack(i)
  BY CondBranchBack, JumpBack, OtherBranchBack DEF BranchObjects
<1>2. i \in Exceptions \cup SystemMoves \cup Hints => ReadBack(i)
  BY SystemBack
<1>3. i \in Addresses \cup Extracts => ReadBack(i)
  BY AddressBack
<1>4. i \in AddSubs \cup MovWides \cup Logicals \cup BitFields => ReadBack(i)
  BY AddSubBack, MovWideBack, LogicalBack, BitFieldBack
<1> QED BY <1>1, <1>2, <1>3, <1>4 DEF Objects

(* What Assemble wrote is read back by Disassemble: the operands of the    *)
(* object, edited or not, that are written and fit in their fields.        *)
THEOREM AssembledReadsBack == Spec => []OperandsReadBack
<1>1. Inv => OperandsReadBack
  <2> SUFFICES ASSUME Inv, step = "assembled"
               PROVE  \E o \in Operands(instr.class, instr.op, word) :
                        \A n \in WrittenOperands(instr) :
                          Fits(instr, n) =>
                            IF n \in {"rt", "rn", "rd"} THEN o[n].code = instr.operands[n].code
                            ELSE o[n] = instr.operands[n]
    BY DEF OperandsReadBack
  <2>1. instr \in Objects /\ word = Assembled(instr)
    BY DEF Inv
  <2>2. ReadBack(instr)
    BY <2>1, ObjectsReadBack
  <2> QED BY <2>1, <2>2 DEF ReadBack, Same
<1> QED BY <1>1, Invariance, PTL
=============================================================================
