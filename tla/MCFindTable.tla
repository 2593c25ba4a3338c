---------------------------- MODULE MCFindTable ----------------------------
(* Small instances of FindTable for TLC.                                   *)
EXTENDS FindTable, Bitwise, TLC

(* Small tables whose homes collide.  Both sides index 1 and 2 alike; the  *)
(* generated code looks for 4 one slot too early, and for 3, the only key  *)
(* of its table, past the last entry.                                      *)
SmallTableOf    == [k \in Keys |-> IF k = 3 THEN 1 ELSE 0]
SmallHomeOf     == [k \in Keys |-> IF k = 4 THEN 2 ELSE 1]
SmallReadHomeOf == [k \in Keys |-> IF k = 3 THEN 5 ELSE 1]

(* The two index computations with the numbers of the code, for the        *)
(* context's FindTable(48, 2): FillCodeAddress shifts by align_bits_ and   *)
(* 28 bits, under a mask too wide to matter, and GET_INDEX masks with size *)
(* 48 - 10; the generated code shifts by 18 bits, keeps TableBits = 20     *)
(* bits, and masks with 2^18 - 10.                                         *)
AsBuiltTableOf     == [k \in Keys |-> (k \div 4) \div 2^28]
AsBuiltHomeOf      == [k \in Keys |-> (k \div 4) & (48 - 10)]
AsBuiltReadTableOf == [k \in Keys |-> (k \div 2^18) % 2^20]
AsBuiltReadHomeOf  == [k \in Keys |-> (k \div 4) & (2^18 - 10)]

Permutable == Permutations(Values) \cup Permutations(Writers)
=============================================================================
