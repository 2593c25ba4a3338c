---------------------------- MODULE AddressSpace ----------------------------
(***************************************************************************)
(* What the MMU promises: a map from pages to page table entries, changed  *)
(* by one call at a time.  A lookup answers the last mapping of its page,  *)
(* NoPte once unmapped, or the one that is being made; anything for a page *)
(* that was never mapped, as a final table is allocated and not cleared.   *)
(* It may answer for another page that shares an entry with its own        *)
(* (Sharers), and that of translated code may miss.                        *)
(***************************************************************************)
CONSTANTS Pages, Ptes, Readers, Sharers, NoPte, Fresh, Miss

VARIABLES space,          \* page -> its entry
          pending,        \* the mapping that is being made, <<page, entry>>
          rpage, answer   \* reader -> the page it asks for, the last answer

Init == /\ space = [p \in Pages |-> Fresh]
        /\ pending = {}
        /\ rpage = [r \in Readers |-> 0]
        /\ answer = [r \in Readers |-> Miss]

Begin(p, v) == /\ pending = {} /\ pending' = {<<p, v>>}
               /\ UNCHANGED <<space, rpage, answer>>

End == /\ \E p \in Pages, v \in Ptes \cup {NoPte} :
              pending = {<<p, v>>} /\ space' = [space EXCEPT ![p] = v]
       /\ pending' = {}
       /\ UNCHANGED <<rpage, answer>>

Has(q, v) == space[q] \in {Fresh, v} \/ <<q, v>> \in pending

(* A reader asks, and may be told at once that the TLB has no such page.   *)
Ask(r, p) == /\ rpage' = [rpage EXCEPT ![r] = p]
             /\ \/ answer' = answer
                \/ answer' = [answer EXCEPT ![r] = Miss]
             /\ UNCHANGED <<space, pending>>

Reply(r) == /\ rpage[r] \in Pages
            /\ \E q \in Sharers[rpage[r]], v \in Ptes \cup {NoPte} :
                  Has(q, v) /\ answer' = [answer EXCEPT ![r] = v]
            /\ UNCHANGED <<space, pending, rpage>>

Next == \/ \E p \in Pages, v \in Ptes \cup {NoPte} : Begin(p, v)
        \/ End
        \/ \E r \in Readers : Reply(r) \/ \E p \in Pages : Ask(r, p)

Spec == Init /\ [][Next]_<<space, pending, rpage, answer>>
=============================================================================
