-------------------------- MODULE MCDecoder_proofs --------------------------
(***************************************************************************)
(* The immediates of logical instructions, for registers of every width:   *)
(* what LogicalImm_proofs shows of any state, for the behaviours of        *)
(* MCDecoder that are of that part.                                        *)
(***************************************************************************)
EXTENDS MCDecoder, TLAPS

Proved == INSTANCE LogicalImm_proofs WITH step <- life

(* The two instances are of the same module with the same parameters.      *)
LEMMA SameValues ==
    /\ Proved!Fields = Logical!Fields /\ Proved!Values = Logical!Values
    /\ Proved!XRegSize = Logical!XRegSize /\ Proved!WRegSize = Logical!WRegSize
    /\ Proved!Modulus = Logical!Modulus /\ Proved!Refused = Logical!Refused
    /\ Proved!Opcode = Logical!Opcode
BY DEF Proved!Fields, Logical!Fields, Proved!Values, Logical!Values,
       Proved!Modulus, Logical!Modulus, Proved!XRegSize, Logical!XRegSize,
       Proved!WRegSize, Logical!WRegSize, Proved!Refused, Logical!Refused,
       Proved!Opcode, Logical!Opcode

(* The searches.                                                           *)
LEMMA SameSearch ==
    ASSUME NEW v
    PROVE  /\ Proved!Log2(v) = Logical!Log2(v)
           /\ Proved!LowestSetBit(v) = Logical!LowestSetBit(v)
           /\ Proved!IsPowerOf2(v) = Logical!IsPowerOf2(v)
           /\ Proved!CountLeadingZeros(v) = Logical!CountLeadingZeros(v)
<1>1. Proved!Log2(v) = Logical!Log2(v)
  BY SameValues DEF Proved!Log2, Logical!Log2, Proved!Max, Logical!Max
<1>2. Proved!LowestSetBit(v) = Logical!LowestSetBit(v)
  BY SameValues DEF Proved!LowestSetBit, Logical!LowestSetBit, Proved!Max, Logical!Max
<1>3. Proved!IsPowerOf2(v) = Logical!IsPowerOf2(v)
  BY SameValues DEF Proved!IsPowerOf2, Logical!IsPowerOf2
<1>4. Proved!CountLeadingZeros(v) = Logical!CountLeadingZeros(v)
  BY <1>1, SameValues DEF Proved!CountLeadingZeros, Logical!CountLeadingZeros
<1> QED BY <1>1, <1>2, <1>3, <1>4

(* The decoder.                                                            *)
LEMMA SameDecoding ==
    ASSUME NEW f
    PROVE  Proved!GetLogicalImmediate(f) = Logical!GetLogicalImmediate(f)
BY ZenonT(60) DEF Proved!GetLogicalImmediate, Logical!GetLogicalImmediate,
  Proved!Repeat, Logical!Repeat,
  Proved!Log2, Logical!Log2,
  Proved!Modulus, Logical!Modulus,
  Proved!XRegSize, Logical!XRegSize,
  Proved!Max, Logical!Max

(* The copies of an element.                                               *)
LEMMA SameRepeat ==
    ASSUME NEW elem, NEW size
    PROVE  Proved!Repeat(elem, size) = Logical!Repeat(elem, size)
BY SameValues DEF Proved!Repeat, Logical!Repeat

(* The encoder, from the operators it is made of.                          *)
LEMMA SameEncoding ==
    ASSUME NEW v, NEW x
    PROVE  Proved!IsImmLogical(v, x) = Logical!IsImmLogical(v, x)
<1>1. Proved!Doubled(v, x) = Logical!Doubled(v, x)
  BY Zenon DEF Proved!Doubled, Logical!Doubled, Proved!Modulus, Logical!Modulus,
     Proved!WRegSize, Logical!WRegSize, Proved!XRegSize, Logical!XRegSize
<1>2. \A a, c : Proved!Size(a, c) = Logical!Size(a, c)
  BY SameValues, SameSearch DEF Proved!Size, Logical!Size
<1>3. \A value, a, b, c : Proved!Accepted(value, a, b, c) <=> Logical!Accepted(value, a, b, c)
  BY <1>2, SameValues, SameSearch, SameRepeat DEF Proved!Accepted, Logical!Accepted
<1>4. \A negate, a, b, c : Proved!Answer(negate, a, b, c) = Logical!Answer(negate, a, b, c)
  BY <1>2, SameValues, SameSearch DEF Proved!Answer, Logical!Answer
<1> QED BY <1>1, <1>3, <1>4, SameValues, SameSearch DEF Proved!IsImmLogical, Logical!IsImmLogical

(* What the properties say of a state.                                     *)
LEMMA SameProperties ==
    /\ Proved!TypeOK <=> Logical!TypeOK
    /\ Proved!AssembleKeepsImm <=> Logical!AssembleKeepsImm
    /\ Proved!KeyIsImm <=> Logical!KeyIsImm
    /\ Proved!Seen(imm) = Logical!Seen(imm)
    /\ \A x \in BOOLEAN : Proved!Encodable(x) = Logical!Encodable(x)
<1>1. Proved!TypeOK <=> Logical!TypeOK
  BY SameValues DEF Proved!TypeOK, Logical!TypeOK
<1>2. \A v : Proved!Seen(v) = Logical!Seen(v)
  BY SameValues DEF Proved!Seen, Logical!Seen
<1>3. Proved!AssembleKeepsImm <=> Logical!AssembleKeepsImm
  BY <1>2, SameDecoding DEF Proved!AssembleKeepsImm, Logical!AssembleKeepsImm
<1>4. \A f : Proved!Key(f) = Logical!Key(f)
  BY SameValues, SameSearch DEF Proved!Key, Logical!Key
<1>5. Proved!KeyIsImm <=> Logical!KeyIsImm
  BY <1>4, SameValues, SameDecoding DEF Proved!KeyIsImm, Logical!KeyIsImm
<1>6. \A x \in BOOLEAN : Proved!Encodable(x) = Logical!Encodable(x)
  BY SameValues, SameDecoding DEF Proved!Encodable, Logical!Encodable
<1> QED BY <1>1, <1>2, <1>3, <1>5, <1>6

(* The initial states.                                                     *)
LEMMA SameInit == Logical!Init => Proved!Init
BY SameValues DEF Logical!Init, Proved!Init

(* Every operation of the object.                                          *)
LEMMA SameNext == Logical!Next => Proved!Next
<1>1. Logical!Disassemble => Proved!Disassemble
  BY SameDecoding DEF Logical!Disassemble, Proved!Disassemble
<1>2. Logical!SetImm => Proved!SetImm
  BY SameValues, SameDecoding DEF Logical!SetImm, Proved!SetImm
<1>3. Logical!Assemble => Proved!Assemble
  BY SameValues, SameEncoding DEF Logical!Assemble, Proved!Assemble
<1> QED BY <1>1, <1>2, <1>3 DEF Logical!Next, Proved!Next

(* The registers are as wide as those of LogicalImm_proofs.                *)
LEMMA Width == Proved!Wide
BY LogXAssumption DEF Proved!Wide

(* A behaviour stays with its part; that of an object keeps the invariant  *)
(* of LogicalImm_proofs.                                                   *)
PartsInv ==
    /\ part \in {"words", "immediates"}
    /\ part = "immediates" => Proved!Inv

(* The inductive invariant holds in every state: an object's steps are     *)
(* those of LogicalImm, and a word's leave the object alone.               *)
THEOREM PartsInvariant == PartsSpec => []PartsInv
<1>1. PartsInit => PartsInv
  BY SameInit, Width, Proved!InvInit DEF PartsInit, PartsInv
<1>2. ASSUME PartsInv, [PartsNext]_<<part, vars, ivars>>
      PROVE  PartsInv'
  <2>1. CASE part = "words" /\ part' = part
    BY <1>2, <2>1 DEF PartsInv
  <2>2. CASE part = "immediates" /\ part' = part
    <3>1. Logical!Next \/ UNCHANGED ivars
      BY <1>2, <2>2 DEF PartsNext
    <3>2. [Proved!Next]_Proved!vars
      BY <3>1, SameNext DEF ivars, Proved!vars
    <3>3. Proved!Inv
      BY <1>2, <2>2 DEF PartsInv
    <3>4. Proved!Inv'
      BY <3>2, <3>3, Width, Proved!InvNext
    <3> QED BY <2>2, <3>4 DEF PartsInv
  <2>3. part' = part
    BY <1>2 DEF PartsNext
  <2> QED BY <1>2, <2>1, <2>2, <2>3 DEF PartsInv
<1> QED BY <1>1, <1>2, PTL DEF PartsSpec

(* IsImmLogical and GetLogicalImmediate agree: the fields that Assemble    *)
(* writes stand for the immediate of the object, as far as the register    *)
(* holds it.                                                               *)
THEOREM ImmediatesKept == PartsSpec => []AssembleKeepsImm
<1>1. PartsInv => AssembleKeepsImm
  BY SameProperties, Width, Proved!InvKeepsImm DEF PartsInv, AssembleKeepsImm
<1> QED BY <1>1, PartsInvariant, PTL

(* Assemble refuses no immediate that some fields stand for, except all    *)
(* ones: decoded instructions can be assembled again.                      *)
THEOREM OnlyUnencodableRefused == PartsSpec => []RefusedOnlyUnencodable
<1>1. ASSUME PartsInv
      PROVE  RefusedOnlyUnencodable
  <2> SUFFICES ASSUME part = "immediates", life = "refused"
               PROVE  Logical!Seen(imm) \notin (IF is_x THEN EncodableX ELSE EncodableW)
    BY DEF RefusedOnlyUnencodable
  <2>1. Proved!Inv
    BY <1>1 DEF PartsInv
  <2>2. Proved!Seen(imm) \notin Proved!Encodable(is_x)
    BY <2>1, Width, Proved!InvRefused
  <2>3. is_x \in BOOLEAN
    BY <2>1 DEF Proved!Inv, Proved!TypeOK
  <2>4. Logical!Seen(imm) \notin Logical!Encodable(is_x)
    BY Zenon, <2>2, <2>3, SameProperties
  <2>5. CASE is_x
    <3>1. is_x = TRUE
      BY <2>3, <2>5
    <3>2. Logical!Seen(imm) \notin Logical!Encodable(TRUE)
      BY Zenon, <2>4, <3>1
    <3> QED BY Zenon, <2>5, <3>2 DEF EncodableX
  <2>6. CASE ~is_x
    <3>1. is_x = FALSE
      BY <2>3, <2>6
    <3>2. Logical!Seen(imm) \notin Logical!Encodable(FALSE)
      BY Zenon, <2>4, <3>1
    <3> QED BY Zenon, <2>6, <3>2 DEF EncodableW
  <2> QED BY <2>5, <2>6
<1> QED BY <1>1, PartsInvariant, PTL

(* Size, ones and rotation are as good as the immediate itself: what the   *)
(* module Decoder takes for an immediate loses nothing.                    *)
THEOREM KeysAreImmediates == PartsSpec => []KeyIsImm
<1>1. PartsInv => KeyIsImm
  BY SameProperties, Width, Proved!InvKeyIsImm DEF PartsInv, KeyIsImm
<1> QED BY <1>1, PartsInvariant, PTL
=============================================================================
