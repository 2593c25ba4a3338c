----------------------------- MODULE FindTable -----------------------------
(***************************************************************************)
(* The table a context looks translated code up in: FindTable              *)
(* (block/code_find_table.h), made of SimpleHashTables (base/hash_table.h),*)
(* filled by FillCodeAddress under lock_ and searched without a lock by    *)
(* the code FindForwardTarget generates (dbi/arm64/dbi_context_arm64.cc).  *)
(*                                                                         *)
(* The hash functions are constants: the C++ code and the generated code   *)
(* each compute a table and a slot from the address, not in the same way   *)
(* (AsBuilt in MCFindTable): a property says of which addresses it speaks, *)
(* those for which the two agree (Alike), or those whose lookup starts     *)
(* inside a table (Inside).  collisions_ and count_ are never read and     *)
(* are left out, as is the memory of a table past size_ entries, of which  *)
(* only what a load from it can give (UninitKeys) is kept.                 *)
(***************************************************************************)
EXTENDS Naturals

CONSTANTS
    Writers,      \* threads that call FillCodeAddress
    Readers,      \* threads that run generated lookups
    Keys,         \* guest addresses
    Values,       \* addresses in the code cache
    Tables,       \* indices of tables_ and table_entries_
    TableOf,      \* key -> table, in FillCodeAddress
    HomeOf,       \* key -> first slot, GET_INDEX
    ReadTableOf,  \* key -> table, in the generated code
    ReadHomeOf,   \* key -> first slot, in the generated code
    Size,         \* size_ of each table
    UninitKeys,   \* key_ values a load past size_ can give
    None, Uninit  \* no value; a value_ that was never written

ASSUME KeysAssumption == Keys \subseteq Nat \ {0}
ASSUME SizeAssumption == Size \in Nat \ {0, 1}
ASSUME HashAssumption ==
    /\ TableOf \in [Keys -> Tables] /\ HomeOf \in [Keys -> 0 .. Size - 2]
    /\ ReadTableOf \in [Keys -> Tables] /\ ReadHomeOf \in [Keys -> Nat]
ASSUME ValuesAssumption ==
    /\ None \notin Values \cup {Uninit} /\ Uninit \notin Values
    /\ None \notin Readers \cup Writers /\ None \notin Nat
    /\ UninitKeys \subseteq Nat

Slots == 0 .. Size - 1

(* The generated code starts to look for k inside a table; it starts where *)
(* Add does.                                                               *)
Inside(k) == ReadHomeOf[k] \in Slots
Alike(k)  == ReadTableOf[k] = TableOf[k] /\ ReadHomeOf[k] = HomeOf[k]

VARIABLES
    created,         \* tables whose pointer is in table_entries_
    key, value,      \* table -> slot -> key_, value_
    lock,            \* the writer that holds lock_
    wpc, wjob,       \* writer -> where it is, <<vaddr, target>>
    rpc, rkey, rslot, answer,   \* reader -> where it is, rt, the entry, the result
    aborted,         \* abort() was called
    map,             \* history: key -> target of the last fill that completed
    known            \* history: reader -> map[key] when its lookup began

tableVars  == <<created, key, value>>
writerVars == <<lock, wpc, wjob>>
readerVars == <<rpc, rkey, rslot, answer, known>>
vars == <<tableVars, writerVars, readerVars, aborted, map>>

Init ==
    /\ created = {}
    /\ key = [i \in Tables |-> [s \in Slots |-> 0]]
    /\ value = [i \in Tables |-> [s \in Slots |-> Uninit]]
    /\ lock = None
    /\ wpc = [w \in Writers |-> "idle"]
    /\ wjob = [w \in Writers |-> None]
    /\ rpc = [r \in Readers |-> "idle"]
    /\ rkey = [r \in Readers |-> None]
    /\ rslot = [r \in Readers |-> 0]
    /\ answer = [r \in Readers |-> None]
    /\ aborted = FALSE
    /\ map = [k \in Keys |-> None]
    /\ known = [r \in Readers |-> None]

----------------------------------------------------------------------------
(* FillCodeAddress up to the creation of the table: the constructor zeroes *)
(* the keys before the pointer is stored in table_entries_.                *)
BeginFill(w) ==
    /\ ~aborted /\ wpc[w] = "idle" /\ lock = None
    /\ \E k \in Keys, v \in Values :
          /\ wjob' = [wjob EXCEPT ![w] = <<k, v>>]
          /\ created' = created \cup {TableOf[k]}
    /\ lock' = w
    /\ wpc' = [wpc EXCEPT ![w] = "key"]
    /\ UNCHANGED <<key, value, readerVars, aborted, map>>

(* Variants called ...Bug are the operators that follow with a mistake in  *)
(* them, each of which breaks a property (the mutants of PROJECT.json).    *)

(* A slot that holds the key is passed over.                               *)
UsableBug(i, k) == {s \in HomeOf[k] .. Size - 2 : key[i][s] = 0}

(* The slot the probe loop of Add stops at: the first one from the home of *)
(* the key on that is free or holds the key.                               *)
Usable(i, k) == {s \in HomeOf[k] .. Size - 2 : key[i][s] \in {0, k}}
IsSlotForBug(s, i, k) == s \in Usable(i, k)
IsSlotFor(s, i, k) == s \in Usable(i, k) /\ \A u \in Usable(i, k) : s <= u

(* Add: the key is stored, visible to the readers, before the value.       *)
StoreKey(w) ==
    /\ ~aborted /\ wpc[w] = "key"
    /\ LET k == wjob[w][1]
           i == TableOf[k]
       IN  \E s \in Slots :
              /\ IsSlotFor(s, i, k)
              /\ key' = [key EXCEPT ![i][s] = k]
    /\ wpc' = [wpc EXCEPT ![w] = "value"]
    /\ UNCHANGED <<created, value, lock, wjob, readerVars, aborted, map>>

(* Add has reached the last slot: abort().                                 *)
AddAborts(w) ==
    /\ ~aborted /\ wpc[w] = "key"
    /\ Usable(TableOf[wjob[w][1]], wjob[w][1]) = {}
    /\ aborted' = TRUE
    /\ UNCHANGED <<tableVars, writerVars, readerVars, map>>

(* The value is stored at the same slot, and the lock released.            *)
StoreValue(w) ==
    /\ ~aborted /\ wpc[w] = "value"
    /\ LET k == wjob[w][1]
           i == TableOf[k]
       IN  /\ \E s \in Slots :
                 /\ IsSlotFor(s, i, k)
                 /\ value' = [value EXCEPT ![i][s] = wjob[w][2]]
           /\ map' = [map EXCEPT ![k] = wjob[w][2]]
    /\ lock' = None
    /\ wpc' = [wpc EXCEPT ![w] = "idle"]
    /\ wjob' = [wjob EXCEPT ![w] = None]
    /\ UNCHANGED <<created, key, readerVars, aborted>>

----------------------------------------------------------------------------
Answer(r, v) == /\ answer' = [answer EXCEPT ![r] = v]
                /\ rpc' = [rpc EXCEPT ![r] = "idle"]

(* The generated code loads the pointer of the table: null is a miss.      *)
BeginLookup(r) ==
    /\ ~aborted /\ rpc[r] = "idle"
    /\ \E k \in Keys :
          /\ rkey' = [rkey EXCEPT ![r] = k]
          /\ known' = [known EXCEPT ![r] = map[k]]
          /\ rslot' = [rslot EXCEPT ![r] = ReadHomeOf[k]]
          /\ IF ReadTableOf[k] \in created
             THEN /\ rpc' = [rpc EXCEPT ![r] = "probe"]
                  /\ answer' = answer
             ELSE Answer(r, None)
    /\ UNCHANGED <<tableVars, writerVars, aborted, map>>

LoadedKeys(r) == IF rslot[r] \in Slots
                 THEN {key[ReadTableOf[rkey[r]]][rslot[r]]}
                 ELSE UninitKeys

(* An empty slot does not end the loop.                                    *)
ProbeEmptyBug(r) ==
    /\ ~aborted /\ rpc[r] = "probe"
    /\ \E c \in LoadedKeys(r) :
          \/ /\ c = rkey[r]
             /\ rpc' = [rpc EXCEPT ![r] = "hit"] /\ rslot' = rslot
          \/ /\ c # rkey[r]
             /\ rslot' = [rslot EXCEPT ![r] = @ + 1] /\ rpc' = rpc
    /\ UNCHANGED <<tableVars, writerVars, rkey, answer, known, aborted, map>>

(* The entry is not advanced.                                              *)
ProbeLoopBug(r) ==
    /\ ~aborted /\ rpc[r] = "probe"
    /\ \E c \in LoadedKeys(r) :
          \/ c = 0 /\ Answer(r, None)
          \/ c = rkey[r] /\ rpc' = [rpc EXCEPT ![r] = "hit"] /\ answer' = answer
          \/ c \notin {0, rkey[r]} /\ UNCHANGED <<rpc, answer>>
    /\ UNCHANGED <<tableVars, writerVars, rkey, rslot, known, aborted, map>>

(* Any entry that is not empty is taken.                                   *)
ProbeMatchBug(r) ==
    /\ ~aborted /\ rpc[r] = "probe"
    /\ \E c \in LoadedKeys(r) :
          \/ c = 0 /\ Answer(r, None)
          \/ c # 0 /\ rpc' = [rpc EXCEPT ![r] = "hit"] /\ answer' = answer
    /\ UNCHANGED <<tableVars, writerVars, rkey, rslot, known, aborted, map>>

(* One turn of label_loop: a zero key is a miss, there is no other limit.  *)
Probe(r) ==
    /\ ~aborted /\ rpc[r] = "probe"
    /\ \E c \in LoadedKeys(r) :
          \/ /\ c = 0
             /\ Answer(r, None) /\ rslot' = rslot
          \/ /\ c = rkey[r]
             /\ rpc' = [rpc EXCEPT ![r] = "hit"]
             /\ UNCHANGED <<answer, rslot>>
          \/ /\ c \notin {0, rkey[r]}
             /\ rslot' = [rslot EXCEPT ![r] = @ + 1]
             /\ UNCHANGED <<rpc, answer>>
    /\ UNCHANGED <<tableVars, writerVars, rkey, known, aborted, map>>

(* The key is loaded, at offset 0 of the entry.                            *)
LoadValueBug(r) ==
    /\ ~aborted /\ rpc[r] = "hit"
    /\ Answer(r, IF rslot[r] \in Slots THEN key[ReadTableOf[rkey[r]]][rslot[r]]
                                       ELSE Uninit)
    /\ UNCHANGED <<tableVars, writerVars, rkey, rslot, known, aborted, map>>

(* The target is loaded from the entry whose key was found.                *)
LoadValue(r) ==
    /\ ~aborted /\ rpc[r] = "hit"
    /\ Answer(r, IF rslot[r] \in Slots THEN value[ReadTableOf[rkey[r]]][rslot[r]]
                                       ELSE Uninit)
    /\ UNCHANGED <<tableVars, writerVars, rkey, rslot, known, aborted, map>>

----------------------------------------------------------------------------
Write(w) == StoreKey(w) \/ AddAborts(w) \/ StoreValue(w)
Read(r)  == Probe(r) \/ LoadValue(r)

Next == \/ \E w \in Writers : BeginFill(w) \/ Write(w)
        \/ \E r \in Readers : BeginLookup(r) \/ Read(r)

Spec == Init /\ [][Next]_vars

(* Generated code and FillCodeAddress run to their end once begun.         *)
FairSpec == /\ Spec
            /\ \A w \in Writers : WF_vars(Write(w))
            /\ \A r \in Readers : WF_vars(Read(r))

----------------------------------------------------------------------------
TypeOK ==
    /\ created \subseteq Tables
    /\ key \in [Tables -> [Slots -> Keys \cup {0}]]
    /\ value \in [Tables -> [Slots -> Values \cup {Uninit}]]
    /\ lock \in Writers \cup {None}
    /\ wpc \in [Writers -> {"idle", "key", "value"}]
    /\ wjob \in [Writers -> (Keys \X Values) \cup {None}]
    /\ rpc \in [Readers -> {"idle", "probe", "hit"}]
    /\ rkey \in [Readers -> Keys \cup {None}]
    /\ \A r \in Readers : rpc[r] # "idle" => rkey[r] # None
    /\ rslot \in [Readers -> Nat]
    /\ answer \in [Readers -> Values \cup {None, Uninit}]
    /\ aborted \in BOOLEAN
    /\ map \in [Keys -> Values \cup {None}]
    /\ known \in [Readers -> Values \cup {None}]

(* A key lies in its own table, at or after its home, once, and no slot    *)
(* between its home and it is free: the probe loops of Add and of the      *)
(* generated code find the same slot.                                      *)
ProbeChains ==
    \A i \in Tables, s \in Slots : key[i][s] # 0 =>
        /\ TableOf[key[i][s]] = i
        /\ HomeOf[key[i][s]] <= s
        /\ \A u \in HomeOf[key[i][s]] .. s - 1 : key[i][u] \notin {0, key[i][s]}

(* The loop of the generated code has no bound; from inside a table it     *)
(* stays inside, because Add gives up before it would fill the last slot.  *)
ReaderStaysInTable ==
    \A r \in Readers : rpc[r] # "idle" /\ Inside(rkey[r]) => rslot[r] \in Slots

(* A lookup that hits is at the entry of its key, although no lock is held *)
(* between the two loads.                                                  *)
HitIsOwnEntry ==
    \A r \in Readers : rpc[r] = "hit" /\ Inside(rkey[r]) =>
        key[ReadTableOf[rkey[r]]][rslot[r]] = rkey[r]

(* A lookup that begins after a fill of its address has completed does not *)
(* miss and does not load a value that was never written.  It may, where   *)
(* the code that fills and the code that looks compute different indices.  *)
FoundAfterFill ==
    \A r \in Readers : rpc[r] = "idle" /\ known[r] # None =>
        answer[r] \in Values

(* Where the indices are the same it does not, however the fill and the    *)
(* lookup interleave with fills of other addresses in the same slots.      *)
FoundWhereAlike ==
    \A r \in Readers : rpc[r] = "idle" /\ known[r] # None /\ Alike(rkey[r]) =>
        answer[r] \in Values

(* The find table implements the map, for any number of threads: a fill    *)
(* takes effect when its value is stored, a lookup when it loads the value *)
(* or an empty key.  A value that was never written, which a lookup finds  *)
(* beside the key of a fill that is in progress, counts as nothing.        *)
Found(r) == IF answer[r] = Uninit THEN None ELSE answer[r]
Map == INSTANCE CodeMap WITH
           answer <- [r \in Readers |-> Found(r)],
           Exact  <- {k \in Keys : Alike(k)},
           Safe   <- {k \in Keys : Inside(k)}
ImplementsCodeMap == Map!Spec

(* A lookup that starts inside a table ends, whatever is added meanwhile.  *)
LookupEnds ==
    \A r \in Readers :
        (rpc[r] # "idle" /\ Inside(rkey[r])) ~> (rpc[r] = "idle" \/ aborted)
============================================================================
