----------------------------- MODULE CodeStore -----------------------------
(***************************************************************************)
(* What the code cache promises of translated code, whatever the lengths   *)
(* of the blocks.  A thread is only ever sent to code that has been put in *)
(* place and was translated from the block it is about to run, and never   *)
(* sent back to older code (the comment on the dispatcher in               *)
(* block/host_code_block.h).  Code in place is damaged by one thing only:  *)
(* code of another length, and of the two the one further on is the        *)
(* shorter.  Where all the code has one length, it is never modified.      *)
(***************************************************************************)
EXTENDS Naturals

CONSTANTS Threads, Sources, None

VARIABLES
    placed,    \* the code put in place: records [offset, source, size]
    intact,    \* the part of it that has not been damaged
    redirect   \* thread -> source -> offset of the code it is sent to

Init == /\ placed = {}
        /\ intact = {}
        /\ redirect = [t \in Threads |-> [s \in Sources |-> None]]

CanDamage(c, d) == \/ c.offset < d.offset /\ d.size < c.size
                   \/ d.offset < c.offset /\ c.size < d.size

Place(c) ==
    /\ placed' = placed \cup {c}
    /\ \A d \in placed : d.offset # c.offset
    /\ intact' \subseteq intact \cup {c} /\ c \in intact'
    /\ \A d \in intact \ intact' : CanDamage(c, d)
    /\ UNCHANGED redirect

Redirect(t, s, c) ==
    /\ c \in placed /\ c.source = s
    /\ redirect[t][s] = None \/ redirect[t][s] < c.offset
    /\ redirect' = [redirect EXCEPT ![t][s] = c.offset]
    /\ UNCHANGED <<placed, intact>>

Next == \/ \E c \in placed' : Place(c)     \* c is what the step adds
        \/ \E c \in placed, t \in Threads, s \in Sources : Redirect(t, s, c)

Spec == Init /\ [][Next]_<<placed, intact, redirect>>
=============================================================================
