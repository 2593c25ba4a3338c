----------------------------- MODULE MCDecoder -----------------------------
(***************************************************************************)
(* Words for TLC: of every row of the table, with the bits in Varied and   *)
(* all others that the row leaves open either 0 or, for those in Fill, 1;  *)
(* and words of the neighbouring classes.  Beside them, the objects of     *)
(* logical instructions with registers of 2^LogX bits: a behaviour is of   *)
(* one part or of the other.                                               *)
(***************************************************************************)
EXTENDS Decoder

CONSTANT LogX               \* 6 in the code

ASSUME LogXAssumption == LogX \in Nat /\ LogX >= 2

VARIABLES
    part,                   \* "words" or "immediates"
    sf, fields, is_x, imm, life  \* of LogicalImm

Logical == INSTANCE LogicalImm WITH step <- life

\* Bits the decode tree looks at, and the ends of the immediate fields.
Varied == {0, 4, 5, 19, 21, 22, 23, 29, 31}

FixedBits(row) == UNION {f[1]..f[2] : f \in row.fixed}
FixedOnes(row) == UNION {OfNumber(f[3], f[1], f[2]) : f \in row.fixed}

RowWords(row, varied) ==
    LET fixed == FixedBits(row)
        ones == FixedOnes(row)
        fill == (6..20) \ (fixed \cup varied)
    IN {ones \cup v \cup f : v \in SUBSET (varied \ fixed), f \in {{}, fill}}

\* One row for each class of words that the table has no row for: data
\* processing (register), loads and stores, B.cond with bit 25, branches to a
\* register and a system instruction that fits the mirrored row of MRS.
OtherRows ==
    {Row("x", "x", {<<25, 28, 5>>}), Row("x", "x", {<<25, 28, 13>>}),
     Row("x", "x", {<<25, 28, 12>>}), Row("x", "x", {<<24, 31, 86>>}),
     Row("x", "x", {<<25, 31, 107>>, <<16, 20, 31>>}),
     Row("x", "x", {<<20, 31, 3409>>, <<0, 11, 3243>>})}

AllWords ==
    UNION {RowWords(Table[i], Varied) : i \in DOMAIN Table}
    \cup UNION {RowWords(r, Varied) : r \in OtherRows}

RowsOnly == UNION {RowWords(Table[i], {5, 22, 31}) : i \in DOMAIN Table}
FewWords ==
    RowsOnly \cup UNION {RowWords(r, {0, 22, 31}) : r \in OtherRows}
\* Offsets at both ends of the fields, one beyond, and backward.
EditOffsets == {-4, 0, 1048572, 1048576, -134217728}

ivars == <<sf, fields, is_x, imm, life>>

PartsInit ==
    \/ /\ part = "words" /\ Init
       /\ sf = 0 /\ fields = [N |-> 0, imms |-> 0, immr |-> 0]
       /\ is_x = FALSE /\ imm = 0 /\ life = "refused"
    \/ /\ part = "immediates" /\ Logical!Init
       /\ word = {} /\ instr = Null /\ step = "fetched"

PartsNext ==
    \/ part = "words" /\ Next /\ UNCHANGED <<part, ivars>>
    \/ part = "immediates" /\ Logical!Next /\ UNCHANGED <<part, vars>>

PartsSpec == PartsInit /\ [][PartsNext]_<<part, vars, ivars>>

\* The fields that Assemble writes stand for the immediate of the object.
AssembleKeepsImm == part = "immediates" => Logical!AssembleKeepsImm

\* Two encodings have the same size, ones and rotation just if they stand for
\* the same immediate: Decoder represents immediates so.
KeyIsImm == part = "immediates" => Logical!KeyIsImm

EncodableX == Logical!Encodable(TRUE)
EncodableW == Logical!Encodable(FALSE)

\* Assemble refuses an immediate only if no fields stand for it: what has
\* been decoded can be assembled, unless it is all ones.
RefusedOnlyUnencodable ==
    part = "immediates" /\ life = "refused" =>
        Logical!Seen(imm) \notin (IF is_x THEN EncodableX ELSE EncodableW)
=============================================================================
