------------------------------ MODULE CodeMap ------------------------------
(***************************************************************************)
(* What a find table promises: a map from guest addresses to translated    *)
(* code.  A fill takes effect at once.  A lookup answers with the last     *)
(* fill of its address, or with nothing when there was none (Exact); it    *)
(* may miss a fill but answers with no other target (Safe); of the other   *)
(* addresses nothing is promised.                                          *)
(***************************************************************************)
CONSTANTS Keys, Exact, Safe, Values, Readers, None

VARIABLES map,           \* address -> its code
          rkey, answer   \* reader -> the address it asks for, the last answer

Init == /\ map = [k \in Keys |-> None]
        /\ rkey = [r \in Readers |-> None]
        /\ answer = [r \in Readers |-> None]

(* What a lookup of k may answer.                                          *)
May(k, v) == /\ k \in Exact => v = map[k]
             /\ k \in Safe => v \in {map[k], None}

Answer(r, k) == \E v \in Values \cup {None} :
                   May(k, v) /\ answer' = [answer EXCEPT ![r] = v]

Fill(k, v) == map' = [map EXCEPT ![k] = v] /\ UNCHANGED <<rkey, answer>>

(* A reader asks, and may be answered at once.                             *)
Ask(r, k) == /\ rkey' = [rkey EXCEPT ![r] = k]
             /\ answer' = answer \/ Answer(r, k)
             /\ UNCHANGED map

Reply(r) == rkey[r] \in Keys /\ Answer(r, rkey[r]) /\ UNCHANGED <<map, rkey>>

Next == \/ \E k \in Keys, v \in Values : Fill(k, v)
        \/ \E r \in Readers : Reply(r) \/ \E k \in Keys : Ask(r, k)

Spec == Init /\ [][Next]_<<map, rkey, answer>>
=============================================================================
