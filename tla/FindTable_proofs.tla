-------------------------- MODULE FindTable_proofs --------------------------
(***************************************************************************)
(* What holds of the find table for any keys, any hash functions of the   *)
(* writers and of the readers, and any number of both: the probe chains;   *)
(* of a lookup that starts inside a table, that it stays inside and takes  *)
(* the entry of its own key; of an address that both sides index alike,    *)
(* that it is found once filled.                                           *)
(***************************************************************************)
EXTENDS FindTable, TLAPS

(* What Add knows of the slot its probe loop stops at.                     *)
LEMMA SlotFacts ==
    ASSUME NEW i \in Tables, NEW k \in Keys, NEW s \in Slots, IsSlotFor(s, i, k)
    PROVE  /\ HomeOf[k] \in Nat /\ s \in Nat /\ HomeOf[k] <= s /\ s <= Size - 2
           /\ key[i][s] \in {0, k}
           /\ \A u \in HomeOf[k] .. s - 1 : key[i][u] \notin {0, k}
<1>1. HomeOf[k] \in Nat /\ HomeOf[k] <= Size - 2 /\ s \in Nat /\ Size \in Nat
  BY HashAssumption, SizeAssumption DEF Slots
<1>2. HomeOf[k] <= s /\ s <= Size - 2 /\ key[i][s] \in {0, k}
  BY <1>1 DEF IsSlotFor, Usable
<1>3. ASSUME NEW u \in HomeOf[k] .. s - 1, key[i][u] \in {0, k} PROVE FALSE
  <2>1. u \in Usable(i, k)
    BY <1>1, <1>2, <1>3 DEF Usable
  <2> QED BY <1>1, <1>2, <1>3, <2>1 DEF IsSlotFor
<1> QED BY <1>1, <1>2, <1>3

(* The writer in the middle of a fill holds the lock, and once it has      *)
(* stored the key it is at the slot of the key.                            *)
WriterInv ==
    \A w \in Writers :
        /\ wpc[w] # "idle" => lock = w /\ wjob[w] \in Keys \X Values
                              /\ TableOf[wjob[w][1]] \in created
        /\ wpc[w] = "value" =>
              \E s \in Slots : /\ IsSlotFor(s, TableOf[wjob[w][1]], wjob[w][1])
                               /\ key[TableOf[wjob[w][1]]][s] = wjob[w][1]

(* The last slot is never used, and only created tables have keys.         *)
LastSlotFree ==
    \A i \in Tables : /\ key[i][Size - 1] = 0
                      /\ i \notin created => \A s \in Slots : key[i][s] = 0

TableInv == TypeOK /\ WriterInv /\ ProbeChains /\ LastSlotFree

(* The tables are empty at the start.                                      *)
LEMMA TableInit == Init => TableInv
<1> SUFFICES ASSUME Init PROVE TableInv
  OBVIOUS
<1> USE DEF Init
<1>1. TypeOK
  BY DEF TypeOK
<1>2. WriterInv
  BY DEF WriterInv
<1>3. ProbeChains
  BY DEF ProbeChains
<1>4. LastSlotFree
  BY SizeAssumption DEF LastSlotFree, Slots
<1> QED BY <1>1, <1>2, <1>3, <1>4 DEF TableInv

(* Storing a key at the slot Add stops at keeps the probe chains.          *)
LEMMA StoreKeyChains ==
    ASSUME TypeOK, ProbeChains, NEW k \in Keys, NEW s \in Slots,
           IsSlotFor(s, TableOf[k], k), key' = [key EXCEPT ![TableOf[k]][s] = k]
    PROVE  ProbeChains'
<1> DEFINE i == TableOf[k]
<1>1. i \in Tables
  BY HashAssumption
<1>2. /\ HomeOf[k] \in Nat /\ s \in Nat /\ HomeOf[k] <= s
      /\ key[i][s] \in {0, k}
      /\ \A u \in HomeOf[k] .. s - 1 : key[i][u] \notin {0, k}
  BY <1>1, SlotFacts
<1>3. /\ key'[i][s] = k
      /\ \A j \in Tables, u \in Slots : j # i \/ u # s => key'[j][u] = key[j][u]
  BY <1>1 DEF TypeOK
<1>4. \A u \in HomeOf[k] .. s - 1 : u \in Slots /\ u # s
  BY <1>2, SizeAssumption DEF Slots
<1>5. SUFFICES ASSUME NEW j \in Tables, NEW t \in Slots, key'[j][t] # 0
               PROVE  /\ TableOf[key'[j][t]] = j
                      /\ HomeOf[key'[j][t]] <= t
                      /\ \A u \in HomeOf[key'[j][t]] .. t - 1 :
                            key'[j][u] \notin {0, key'[j][t]}
  BY DEF ProbeChains
<1>6. CASE j = i /\ t = s
  BY <1>2, <1>3, <1>4, <1>6, <1>1
<1>7. CASE j # i \/ t # s
  <2> DEFINE q == key[j][t]
  <2>1. key'[j][t] = q /\ q # 0 /\ q \in Keys
    BY <1>3, <1>5, <1>7 DEF TypeOK
  <2>2. /\ TableOf[q] = j /\ HomeOf[q] <= t
        /\ \A u \in HomeOf[q] .. t - 1 : key[j][u] \notin {0, q}
    BY <2>1 DEF ProbeChains
  <2>3. HomeOf[q] \in Nat /\ t \in Nat
    BY <2>1, HashAssumption, SizeAssumption DEF Slots
  <2>4. \A u \in HomeOf[q] .. t - 1 : u \in Slots
    BY <2>3, SizeAssumption DEF Slots
  <2>5. ASSUME NEW u \in HomeOf[q] .. t - 1 PROVE key'[j][u] \notin {0, q}
    <3>1. CASE j # i \/ u # s
      BY <1>3, <2>2, <2>4, <3>1
    <3>2. CASE j = i /\ u = s
      <4>1. key'[j][u] = k /\ k # 0
        BY <1>3, <3>2, KeysAssumption
      <4>2. ASSUME q = k PROVE FALSE
        BY <1>2, <2>2, <3>2, <4>2
      <4> QED BY <4>1, <4>2
    <3> QED BY <3>1, <3>2
  <2> QED BY <2>1, <2>2, <2>5
<1> QED BY <1>6, <1>7

(* Types are kept by every step.                                           *)
LEMMA TypeNext == TypeOK /\ WriterInv /\ [Next]_vars => TypeOK'
<1> SUFFICES ASSUME TypeOK, WriterInv, [Next]_vars PROVE TypeOK'
  OBVIOUS
<1> USE DEF TypeOK
<1>1. ASSUME NEW w \in Writers, BeginFill(w) PROVE TypeOK'
  BY <1>1, HashAssumption DEF BeginFill, readerVars
<1>2. ASSUME NEW w \in Writers, StoreKey(w) PROVE TypeOK'
  <2> DEFINE k == wjob[w][1]
  <2>1. k \in Keys /\ TableOf[k] \in Tables
    BY <1>2, HashAssumption DEF StoreKey, WriterInv
  <2>2. PICK s \in Slots : key' = [key EXCEPT ![TableOf[k]][s] = k]
    BY <1>2 DEF StoreKey
  <2> HIDE DEF k
  <2>3. key' \in [Tables -> [Slots -> Keys \cup {0}]]
    BY <2>1, <2>2
  <2> QED BY <1>2, <2>3 DEF StoreKey, readerVars
<1>3. ASSUME NEW w \in Writers, StoreValue(w) PROVE TypeOK'
  <2> DEFINE k == wjob[w][1]
             v == wjob[w][2]
  <2>1. k \in Keys /\ v \in Values /\ TableOf[k] \in Tables
    BY <1>3, HashAssumption DEF StoreValue, WriterInv
  <2>2. PICK s \in Slots : value' = [value EXCEPT ![TableOf[k]][s] = v]
    BY <1>3 DEF StoreValue
  <2>3. map' = [map EXCEPT ![k] = v]
    BY <1>3 DEF StoreValue
  <2> HIDE DEF k, v
  <2>4. value' \in [Tables -> [Slots -> Values \cup {Uninit}]]
    BY <2>1, <2>2
  <2>5. map' \in [Keys -> Values \cup {None}]
    BY <2>1, <2>3
  <2> QED BY <1>3, <2>4, <2>5 DEF StoreValue, readerVars
<1>4. ASSUME NEW w \in Writers, AddAborts(w) PROVE TypeOK'
  BY <1>4 DEF AddAborts, tableVars, writerVars, readerVars
<1>5. ASSUME NEW r \in Readers, BeginLookup(r) PROVE TypeOK'
  <2>1. PICK k \in Keys :
           /\ rkey' = [rkey EXCEPT ![r] = k]
           /\ known' = [known EXCEPT ![r] = map[k]]
           /\ rslot' = [rslot EXCEPT ![r] = ReadHomeOf[k]]
           /\ IF ReadTableOf[k] \in created
              THEN rpc' = [rpc EXCEPT ![r] = "probe"] /\ answer' = answer
              ELSE Answer(r, None)
    BY <1>5 DEF BeginLookup
  <2>2. ReadHomeOf[k] \in Nat /\ k # None
    BY HashAssumption, KeysAssumption, ValuesAssumption
  <2>3. UNCHANGED <<tableVars, writerVars, aborted, map>>
    BY <1>5 DEF BeginLookup
  <2>4. rpc' \in [Readers -> {"idle", "probe", "hit"}]
        /\ answer' \in [Readers -> Values \cup {None, Uninit}]
    BY <2>1 DEF Answer
  <2>5. \A q \in Readers : rpc'[q] # "idle" => rkey'[q] # None
    BY <2>1, <2>2 DEF Answer
  <2> QED BY <2>1, <2>2, <2>3, <2>4, <2>5 DEF tableVars, writerVars
<1>6. ASSUME NEW r \in Readers, Probe(r) PROVE TypeOK'
  <2>1. /\ rpc' \in [Readers -> {"idle", "probe", "hit"}]
        /\ answer' \in [Readers -> Values \cup {None, Uninit}]
        /\ rslot' \in [Readers -> Nat]
    <3>1. CASE Answer(r, None) /\ rslot' = rslot
      BY <3>1 DEF Answer
    <3>2. CASE /\ rpc' = [rpc EXCEPT ![r] = "hit"]
               /\ UNCHANGED <<answer, rslot>>
      BY <3>2
    <3>3. CASE /\ rslot' = [rslot EXCEPT ![r] = @ + 1]
               /\ UNCHANGED <<rpc, answer>>
      BY <3>3
    <3> QED BY <1>6, <3>1, <3>2, <3>3 DEF Probe
  <2>2. \A q \in Readers : rpc'[q] # "idle" => rpc[q] # "idle"
    BY <1>6 DEF Probe, Answer
  <2> QED BY <1>6, <2>1, <2>2 DEF Probe, tableVars, writerVars
<1>7. ASSUME NEW r \in Readers, LoadValue(r) PROVE TypeOK'
  <2> DEFINE v == IF rslot[r] \in Slots THEN value[ReadTableOf[rkey[r]]][rslot[r]]
                                        ELSE Uninit
  <2>1. rkey[r] \in Keys /\ ReadTableOf[rkey[r]] \in Tables
    BY <1>7, HashAssumption DEF LoadValue
  <2>2. v \in Values \cup {Uninit}
    BY <2>1
  <2>3. answer' = [answer EXCEPT ![r] = v] /\ rpc' = [rpc EXCEPT ![r] = "idle"]
    BY <1>7 DEF LoadValue, Answer
  <2> HIDE DEF v
  <2> QED BY <1>7, <2>2, <2>3 DEF LoadValue, tableVars, writerVars
<1>8. CASE UNCHANGED vars
  BY <1>8 DEF vars, tableVars, writerVars, readerVars
<1> QED
  BY <1>1, <1>2, <1>3, <1>4, <1>5, <1>6, <1>7, <1>8 DEF Next, Write, Read

(* The probe chains, the lock and the free last slot are inductive.        *)
LEMMA TableNext == TableInv /\ [Next]_vars => TableInv'
<1> SUFFICES ASSUME TableInv, [Next]_vars PROVE TableInv'
  OBVIOUS
<1>0. TypeOK'
  BY TypeNext DEF TableInv
<1> USE DEF TableInv
<1>1. ASSUME UNCHANGED <<key, created, lock, wpc, wjob>> PROVE TableInv'
  <2>1. \A i, s, k : IsSlotFor(s, i, k)' <=> IsSlotFor(s, i, k)
    BY <1>1 DEF IsSlotFor, Usable
  <2> QED BY <1>0, <1>1, <2>1 DEF WriterInv, ProbeChains, LastSlotFree
<1>2. ASSUME NEW w \in Writers, BeginFill(w) PROVE TableInv'
  <2>1. PICK k \in Keys, v \in Values :
           wjob' = [wjob EXCEPT ![w] = <<k, v>>] /\ created' = created \cup {TableOf[k]}
    BY <1>2 DEF BeginFill
  <2>2. \A u \in Writers : wpc[u] = "idle"
    BY <1>2, ValuesAssumption DEF BeginFill, WriterInv
  <2>3. WriterInv'
    BY <1>2, <2>1, <2>2 DEF BeginFill, WriterInv, TypeOK
  <2>4. key' = key
    BY <1>2 DEF BeginFill
  <2> QED BY <1>0, <2>1, <2>3, <2>4 DEF ProbeChains, LastSlotFree
<1>3. ASSUME NEW w \in Writers, StoreKey(w) PROVE TableInv'
  <2>0. wjob[w][1] \in Keys /\ wjob[w] \in Keys \X Values /\ TableOf[wjob[w][1]] \in created
        /\ lock = w /\ \A u \in Writers : u # w => wpc[u] = "idle"
    BY <1>3 DEF StoreKey, WriterInv
  <2>1. PICK k \in Keys, i \in Tables : k = wjob[w][1] /\ i = TableOf[k] /\ i \in created
    BY <2>0, HashAssumption
  <2>2. PICK s \in Slots : IsSlotFor(s, i, k) /\ key' = [key EXCEPT ![i][s] = k]
    BY <1>3, <2>1 DEF StoreKey
  <2>3. ProbeChains'
    BY <2>1, <2>2, StoreKeyChains
  <2>4. /\ s \in Nat /\ HomeOf[k] \in Nat /\ HomeOf[k] <= s /\ s <= Size - 2
        /\ \A u \in HomeOf[k] .. s - 1 : key[i][u] \notin {0, k}
    BY <2>1, <2>2, SlotFacts
  <2>5. /\ key'[i][s] = k
        /\ \A j \in Tables, u \in Slots : j # i \/ u # s => key'[j][u] = key[j][u]
    BY <2>1, <2>2 DEF TypeOK
  <2>6. LastSlotFree'
    <3>1. created' = created /\ Size - 1 \in Slots /\ s # Size - 1
      BY <1>3, <2>4, SizeAssumption DEF StoreKey, Slots
    <3> QED BY <2>1, <2>5, <3>1 DEF LastSlotFree
  <2>7. IsSlotFor(s, i, k)'
    <3>1. s \in Usable(i, k)'
      BY <2>4, <2>5, SizeAssumption DEF Usable
    <3>2. ASSUME NEW u \in Usable(i, k)', u < s PROVE FALSE
      <4>1. u \in HomeOf[k] .. s - 1 /\ u \in Slots /\ key'[i][u] \in {0, k}
        BY <2>4, <3>2, SizeAssumption DEF Usable, Slots
      <4>2. key'[i][u] = key[i][u]
        BY <2>1, <2>4, <2>5, <4>1
      <4> QED BY <2>4, <4>1, <4>2
    <3>3. \A u \in Usable(i, k)' : u \in Nat
      BY <2>4, SizeAssumption DEF Usable
    <3>4. \A u \in Usable(i, k)' : s <= u
      BY <2>4, <3>2, <3>3
    <3> QED BY <3>1, <3>4 DEF IsSlotFor
  <2>8. WriterInv'
    <3>1. /\ wpc' = [wpc EXCEPT ![w] = "value"] /\ UNCHANGED <<wjob, lock, created>>
      BY <1>3 DEF StoreKey
    <3>2. \A u \in Writers : wpc'[u] # "idle" => u = w
      BY <2>0, <3>1 DEF TypeOK
    <3>3. \E q \in Slots : IsSlotFor(q, i, k)' /\ key'[i][q] = k
      BY <2>5, <2>7
    <3>4. wjob'[w][1] = k /\ TableOf[wjob'[w][1]] = i
      BY <2>1, <3>1
    <3> HIDE DEF TableInv
    <3> QED BY ONLY <2>0, <2>1, <3>1, <3>2, <3>3, <3>4 DEF WriterInv, IsSlotFor, Usable
  <2> QED BY <1>0, <2>3, <2>6, <2>8
<1>4. ASSUME NEW w \in Writers, StoreValue(w) PROVE TableInv'
  <2>1. \A u \in Writers : u # w => wpc[u] = "idle"
    BY <1>4 DEF StoreValue, WriterInv
  <2>2. \A u \in Writers : wpc'[u] = "idle"
    BY <1>4, <2>1 DEF StoreValue, TypeOK
  <2>3. WriterInv'
    BY <2>2 DEF WriterInv
  <2> QED BY <1>0, <1>4, <2>3 DEF StoreValue, ProbeChains, LastSlotFree
<1>5. ASSUME NEW w \in Writers, AddAborts(w) PROVE TableInv'
  BY <1>1, <1>5 DEF AddAborts, tableVars, writerVars
<1>6. ASSUME NEW r \in Readers, BeginLookup(r) \/ Probe(r) \/ LoadValue(r) PROVE TableInv'
  BY <1>1, <1>6 DEF BeginLookup, Probe, LoadValue, tableVars, writerVars
<1>7. CASE UNCHANGED vars
  BY <1>1, <1>7 DEF vars, tableVars, writerVars
<1> QED
  BY <1>2, <1>3, <1>4, <1>5, <1>6, <1>7 DEF Next, Write, Read

(* The probe loops of Add and of the generated code agree on where a key   *)
(* is, in every reachable state.                                           *)
THEOREM ProbeChainsHold == Spec => []ProbeChains
<1>1. TableInv => ProbeChains
  BY DEF TableInv
<1> QED BY TableInit, TableNext, <1>1, PTL DEF Spec

(* Every variable keeps its type: a fill holds a key and a value from when *)
(* it begins until its value is stored, a lookup its address.              *)
THEOREM FindTableTypes == Spec => []TypeOK
<1>1. TableInv => TypeOK
  BY DEF TableInv
<1> QED BY TableInit, TableNext, <1>1, PTL DEF Spec

(* A key, once in a slot, stays there: nothing removes it.                 *)
LEMMA KeysStay ==
    TableInv /\ [Next]_vars =>
        \A i \in Tables, s \in Slots : key[i][s] # 0 => key'[i][s] = key[i][s]
<1> SUFFICES ASSUME TableInv, [Next]_vars, NEW i \in Tables, NEW s \in Slots,
                    key[i][s] # 0
             PROVE  key'[i][s] = key[i][s]
  OBVIOUS
<1>1. ASSUME NEW w \in Writers, StoreKey(w) PROVE key'[i][s] = key[i][s]
  <2>1. wjob[w][1] \in Keys /\ TableOf[wjob[w][1]] \in Tables
    BY <1>1, HashAssumption DEF StoreKey, TableInv, WriterInv
  <2>2. PICK t \in Slots :
           /\ IsSlotFor(t, TableOf[wjob[w][1]], wjob[w][1])
           /\ key' = [key EXCEPT ![TableOf[wjob[w][1]]][t] = wjob[w][1]]
    BY <1>1 DEF StoreKey
  <2>3. key[TableOf[wjob[w][1]]][t] \in {0, wjob[w][1]}
    BY <2>1, <2>2, SlotFacts
  <2> QED BY <2>1, <2>2, <2>3 DEF TableInv, TypeOK
<1>2. ASSUME key' = key PROVE key'[i][s] = key[i][s]
  BY <1>2
<1> QED
  BY <1>1, <1>2 DEF Next, Write, Read, BeginFill, AddAborts, StoreValue, BeginLookup,
     Probe, LoadValue, vars, tableVars

(* A reader that starts inside the table stays inside it, has passed only  *)
(* slots of other keys, and when it hits is at the entry of its key.       *)
ReaderAt(r, k, i) ==
    /\ rslot[r] \in Slots
    /\ ReadHomeOf[k] <= rslot[r]
    /\ \A u \in ReadHomeOf[k] .. rslot[r] - 1 : key[i][u] \notin {0, k}
    /\ rpc[r] = "hit" => key[i][rslot[r]] = k

ReaderInv ==
    \A r \in Readers : rpc[r] # "idle" /\ Inside(rkey[r]) =>
        ReaderAt(r, rkey[r], ReadTableOf[rkey[r]])

(* No reader is running at the start.                                      *)
LEMMA ReaderInit == Init => ReaderInv
BY DEF Init, ReaderInv

(* A reader that does not move keeps what it has seen.                     *)
LEMMA ReaderRests ==
    ASSUME TableInv, TableInv', ReaderInv, [Next]_vars,
           NEW r \in Readers, rpc[r] # "idle", Inside(rkey[r]),
           rpc'[r] = rpc[r], rkey'[r] = rkey[r], rslot'[r] = rslot[r]
    PROVE  ReaderAt(r, rkey[r], ReadTableOf[rkey[r]])'
<1>1. PICK k \in Keys, i \in Tables : k = rkey[r] /\ i = ReadTableOf[k]
  BY HashAssumption DEF TableInv, TypeOK
<1>2. ReaderAt(r, k, i)
  BY <1>1 DEF ReaderInv
<1>3. rslot[r] \in Nat /\ ReadHomeOf[k] \in Nat /\ k # 0
  BY <1>1, <1>2, SizeAssumption, KeysAssumption, HashAssumption DEF ReaderAt, Slots
<1>4. \A s \in Slots : key[i][s] # 0 => key'[i][s] = key[i][s]
  BY KeysStay
<1>5. ASSUME NEW u \in ReadHomeOf[k] .. rslot[r] - 1 PROVE key'[i][u] \notin {0, k}
  <2>1. u \in Slots
    BY <1>2, <1>3, SizeAssumption DEF ReaderAt, Slots
  <2> QED BY <1>2, <1>4, <2>1 DEF ReaderAt
<1>6. rpc'[r] = "hit" => key'[i][rslot[r]] = k
  BY <1>2, <1>3, <1>4 DEF ReaderAt
<1>7. k = rkey'[r] /\ i = ReadTableOf[rkey'[r]]
  BY <1>1
<1> QED BY <1>2, <1>5, <1>6, <1>7 DEF ReaderAt

(* The loop of the generated code keeps what it has seen.                  *)
LEMMA ReaderNext == TableInv /\ ReaderInv /\ [Next]_vars => ReaderInv'
<1> SUFFICES ASSUME TableInv, ReaderInv, [Next]_vars,
                    NEW r \in Readers, rpc'[r] # "idle", Inside(rkey'[r])
             PROVE  ReaderAt(r, rkey[r], ReadTableOf[rkey[r]])'
  BY DEF ReaderInv, Inside
<1>0. TableInv'
  BY TableNext
<1>1. ASSUME BeginLookup(r) PROVE ReaderAt(r, rkey[r], ReadTableOf[rkey[r]])'
  <2>1. PICK k \in Keys : /\ rkey'[r] = k /\ rslot'[r] = ReadHomeOf[k]
                          /\ rpc'[r] = "probe"
    BY <1>1 DEF BeginLookup, Answer, TableInv, TypeOK
  <2>2. ReadHomeOf[k] \in Slots /\ ReadHomeOf[k] \in Nat
    BY <2>1, HashAssumption DEF Inside
  <2>3. ReadHomeOf[k] .. ReadHomeOf[k] - 1 = {}
    BY <2>2
  <2> QED BY <2>1, <2>2, <2>3 DEF ReaderAt
<1>2. ASSUME Probe(r) PROVE ReaderAt(r, rkey[r], ReadTableOf[rkey[r]])'
  <2>1. PICK k \in Keys, i \in Tables : k = rkey[r] /\ i = ReadTableOf[k]
    BY <1>2, HashAssumption DEF Probe, TableInv, TypeOK
  <2>2. ReaderAt(r, k, i)
    BY <1>2, <2>1 DEF ReaderInv, Probe
  <2>3. rslot[r] \in Nat /\ ReadHomeOf[k] \in Nat /\ Size \in Nat /\ Size > 1
    BY <2>1, <2>2, SizeAssumption, HashAssumption DEF ReaderAt, Slots
  <2>4. UNCHANGED <<key, rkey>>
    BY <1>2 DEF Probe, tableVars
  <2>5. LoadedKeys(r) = {key[i][rslot[r]]}
    BY <2>1, <2>2 DEF LoadedKeys, ReaderAt
  <2>6. CASE rpc'[r] = "hit"
    <3>1. rslot' = rslot /\ key[i][rslot[r]] = k
      BY <1>2, <2>1, <2>5, <2>6 DEF Probe, Answer, TableInv, TypeOK
    <3> QED BY <2>1, <2>2, <2>4, <3>1 DEF ReaderAt
  <2>7. CASE rpc'[r] # "hit"
    <3>1. /\ key[i][rslot[r]] \notin {0, k} /\ rslot'[r] = rslot[r] + 1
      BY <1>2, <2>1, <2>5, <2>7 DEF Probe, Answer, TableInv, TypeOK
    <3>2. rslot[r] # Size - 1
      BY <3>1 DEF TableInv, LastSlotFree
    <3>3. rslot'[r] \in Slots /\ ReadHomeOf[k] <= rslot'[r]
      BY <2>2, <2>3, <3>1, <3>2 DEF ReaderAt, Slots
    <3>4. ASSUME NEW u \in ReadHomeOf[k] .. rslot'[r] - 1 PROVE key[i][u] \notin {0, k}
      <4>1. u = rslot[r] \/ u \in ReadHomeOf[k] .. rslot[r] - 1
        BY <2>3, <3>1
      <4> QED BY <2>2, <3>1, <4>1 DEF ReaderAt
    <3>5. k = rkey'[r] /\ i = ReadTableOf[rkey'[r]] /\ key' = key
      BY <2>1, <2>4
    <3> QED BY <2>7, <3>3, <3>4, <3>5 DEF ReaderAt
  <2> QED BY <2>6, <2>7
<1>3. ASSUME rpc'[r] = rpc[r], rkey'[r] = rkey[r], rslot'[r] = rslot[r]
      PROVE  ReaderAt(r, rkey[r], ReadTableOf[rkey[r]])'
  BY <1>0, <1>3, ReaderRests
<1>4. ASSUME NEW q \in Readers, q # r, BeginLookup(q) \/ Probe(q) \/ LoadValue(q)
      PROVE  rpc'[r] = rpc[r] /\ rkey'[r] = rkey[r] /\ rslot'[r] = rslot[r]
  BY <1>4 DEF BeginLookup, Probe, LoadValue, Answer, TableInv, TypeOK
<1>5. ASSUME NEW w \in Writers, BeginFill(w) \/ Write(w)
      PROVE  rpc'[r] = rpc[r] /\ rkey'[r] = rkey[r] /\ rslot'[r] = rslot[r]
  BY <1>5 DEF BeginFill, Write, StoreKey, AddAborts, StoreValue, readerVars
<1>6. ASSUME LoadValue(r) PROVE FALSE
  BY <1>6 DEF LoadValue, Answer, TableInv, TypeOK
<1>7. CASE UNCHANGED vars
  BY <1>3, <1>7 DEF vars, readerVars
<1> QED
  BY <1>1, <1>2, <1>3, <1>4, <1>5, <1>6, <1>7 DEF Next, Read

(* Whatever the hash functions, a lookup that starts inside a table never  *)
(* leaves it.                                                              *)
THEOREM ReaderStays == Spec => []ReaderStaysInTable
<1>1. ReaderInv => ReaderStaysInTable
  BY DEF ReaderInv, ReaderAt, ReaderStaysInTable
<1> QED BY TableInit, TableNext, ReaderInit, ReaderNext, <1>1, PTL DEF Spec

(* Nor does it take the entry of another key, although it holds no lock.   *)
THEOREM HitsAreOwn == Spec => []HitIsOwnEntry
<1>1. ReaderInv => HitIsOwnEntry
  BY DEF ReaderInv, ReaderAt, HitIsOwnEntry
<1> QED BY TableInit, TableNext, ReaderInit, ReaderNext, <1>1, PTL DEF Spec

----------------------------------------------------------------------------
(* A key is where its last fill left it; a key whose fill has stored no    *)
(* value yet belongs to a writer that is about to.                         *)
StoredAt(k, s) == key[TableOf[k]][s] = k

MapInv ==
    /\ \A i \in Tables, s \in Slots : key[i][s] = 0 => value[i][s] = Uninit
    /\ \A k \in Keys : map[k] # None => \E s \in Slots : StoredAt(k, s)
    /\ \A k \in Keys, s \in Slots : StoredAt(k, s) =>
          /\ value[TableOf[k]][s] = IF map[k] = None THEN Uninit ELSE map[k]
          /\ map[k] = None => \E w \in Writers : wpc[w] = "value" /\ wjob[w][1] = k

(* Nothing has been filled at the start.                                   *)
LEMMA MapInit == Init => MapInv
<1> SUFFICES ASSUME Init PROVE MapInv
  OBVIOUS
<1>1. \A k \in Keys, s \in Slots : ~StoredAt(k, s)
  BY KeysAssumption, HashAssumption DEF Init, StoredAt
<1> QED BY <1>1 DEF Init, MapInv

(* A key is in one slot.                                                   *)
LEMMA StoredOnce ==
    ASSUME TableInv, NEW k \in Keys, NEW s \in Slots, NEW t \in Slots,
           StoredAt(k, s), StoredAt(k, t)
    PROVE  s = t
<1>1. /\ TableOf[k] \in Tables /\ k # 0 /\ HomeOf[k] \in Nat /\ s \in Nat /\ t \in Nat
  BY HashAssumption, KeysAssumption, SizeAssumption DEF Slots
<1>2. /\ HomeOf[k] <= s /\ \A u \in HomeOf[k] .. s - 1 : key[TableOf[k]][u] # k
      /\ HomeOf[k] <= t /\ \A u \in HomeOf[k] .. t - 1 : key[TableOf[k]][u] # k
  BY <1>1 DEF TableInv, ProbeChains, StoredAt
<1> QED BY <1>1, <1>2 DEF StoredAt

(* Add stops at the slot of a key that is stored.                          *)
LEMMA SlotIsStored ==
    ASSUME TableInv, NEW k \in Keys, NEW s \in Slots, NEW t \in Slots,
           IsSlotFor(s, TableOf[k], k), StoredAt(k, t)
    PROVE  s = t
<1>1. /\ TableOf[k] \in Tables /\ k # 0 /\ HomeOf[k] \in Nat /\ s \in Nat /\ t \in Nat
  BY HashAssumption, KeysAssumption, SizeAssumption DEF Slots
<1>2. /\ HomeOf[k] <= s /\ key[TableOf[k]][s] \in {0, k}
      /\ \A u \in HomeOf[k] .. s - 1 : key[TableOf[k]][u] \notin {0, k}
  BY <1>1, SlotFacts
<1>3. HomeOf[k] <= t /\ \A u \in HomeOf[k] .. t - 1 : key[TableOf[k]][u] \notin {0, k}
  BY <1>1 DEF TableInv, ProbeChains, StoredAt
<1> QED BY <1>1, <1>2, <1>3 DEF StoredAt

(* Every step keeps the entries equal to the last fills.                   *)
LEMMA MapNext == TableInv /\ MapInv /\ [Next]_vars => MapInv'
<1> SUFFICES ASSUME TableInv, MapInv, [Next]_vars PROVE MapInv'
  OBVIOUS
<1>1. ASSUME UNCHANGED <<key, value, map>>,
             \A w \in Writers : wpc[w] = "value" => wpc'[w] = "value" /\ wjob'[w] = wjob[w]
      PROVE  MapInv'
  BY <1>1 DEF MapInv, StoredAt
<1>2. ASSUME NEW w \in Writers, BeginFill(w) PROVE MapInv'
  BY <1>1, <1>2 DEF BeginFill, TableInv, TypeOK
<1>3. ASSUME NEW w \in Writers, StoreKey(w) PROVE MapInv'
  <2>1. PICK k \in Keys : k = wjob[w][1] /\ TableOf[k] \in Tables
    BY <1>3, HashAssumption DEF StoreKey, TableInv, WriterInv
  <2>2. PICK s \in Slots : IsSlotFor(s, TableOf[k], k)
                           /\ key' = [key EXCEPT ![TableOf[k]][s] = k]
    BY <1>3, <2>1 DEF StoreKey
  <2>3. /\ key'[TableOf[k]][s] = k /\ k # 0 /\ key[TableOf[k]][s] \in {0, k}
        /\ \A j \in Tables, u \in Slots :
              j # TableOf[k] \/ u # s => key'[j][u] = key[j][u]
    BY <2>1, <2>2, SlotFacts, KeysAssumption DEF TableInv, TypeOK
  <2>4. UNCHANGED <<value, map, wjob>> /\ wpc' = [wpc EXCEPT ![w] = "value"]
    BY <1>3 DEF StoreKey
  <2>5. \A j \in Tables, u \in Slots : key'[j][u] = 0 => value'[j][u] = Uninit
    BY <2>1, <2>3, <2>4 DEF MapInv
  <2>6. \A q \in Keys, u \in Slots : StoredAt(q, u) => StoredAt(q, u)'
    <3>1. \A q \in Keys : q # 0 /\ TableOf[q] \in Tables
      BY KeysAssumption, HashAssumption
    <3> QED BY <2>3, <3>1 DEF StoredAt
  <2>7. \A q \in Keys : map'[q] # None => \E u \in Slots : StoredAt(q, u)'
    BY <2>4, <2>6 DEF MapInv
  <2>8. ASSUME NEW q \in Keys, NEW u \in Slots, StoredAt(q, u)'
        PROVE  /\ value'[TableOf[q]][u] = IF map'[q] = None THEN Uninit ELSE map'[q]
               /\ map'[q] = None => \E v \in Writers : wpc'[v] = "value" /\ wjob'[v][1] = q
    <3>1. CASE StoredAt(q, u)
      <4>1. \A v \in Writers : wpc[v] = "value" => wpc'[v] = "value"
        BY <2>4 DEF TableInv, TypeOK
      <4> QED BY <2>4, <3>1, <4>1 DEF MapInv
    <3>2. CASE ~StoredAt(q, u)
      <4>1. q = k /\ u = s /\ key[TableOf[k]][s] = 0
        BY <2>1, <2>3, <2>8, <3>2, HashAssumption DEF StoredAt
      <4>2. map[k] = None
        BY <2>2, <3>2, <4>1, SlotIsStored DEF MapInv
      <4>3. value[TableOf[k]][s] = Uninit
        BY <2>1, <4>1 DEF MapInv
      <4>4. wpc'[w] = "value" /\ wjob'[w][1] = k
        BY <2>1, <2>4 DEF TableInv, TypeOK
      <4> QED BY <2>4, <4>1, <4>2, <4>3, <4>4
    <3> QED BY <3>1, <3>2
  <2> QED BY <2>5, <2>7, <2>8 DEF MapInv
<1>4. ASSUME NEW w \in Writers, StoreValue(w) PROVE MapInv'
  <2>1. PICK k \in Keys, v \in Values :
           /\ k = wjob[w][1] /\ v = wjob[w][2] /\ TableOf[k] \in Tables
    BY <1>4, HashAssumption DEF StoreValue, TableInv, WriterInv
  <2>2. PICK t \in Slots : StoredAt(k, t)
    BY <1>4, <2>1 DEF StoreValue, TableInv, WriterInv, StoredAt
  <2>3. PICK s \in Slots : IsSlotFor(s, TableOf[k], k)
                           /\ value' = [value EXCEPT ![TableOf[k]][s] = v]
    BY <1>4, <2>1 DEF StoreValue
  <2>4. s = t
    BY <2>2, <2>3, SlotIsStored
  <2>5. /\ key' = key /\ wjob' = [wjob EXCEPT ![w] = None]
        /\ map' = [map EXCEPT ![k] = v] /\ wpc' = [wpc EXCEPT ![w] = "idle"]
    BY <1>4, <2>1 DEF StoreValue
  <2>6. /\ value'[TableOf[k]][s] = v
        /\ \A j \in Tables, u \in Slots :
              j # TableOf[k] \/ u # s => value'[j][u] = value[j][u]
    BY <2>1, <2>3 DEF TableInv, TypeOK
  <2>7. \A j \in Tables, u \in Slots : key'[j][u] = 0 => value'[j][u] = Uninit
    BY <2>1, <2>2, <2>4, <2>5, <2>6, KeysAssumption DEF MapInv, StoredAt
  <2>8. /\ map'[k] = v /\ v # None /\ \A q \in Keys : q # k => map'[q] = map[q]
    BY <2>5, ValuesAssumption DEF TableInv, TypeOK
  <2>9. \A q \in Keys : map'[q] # None => \E u \in Slots : StoredAt(q, u)'
    BY <2>2, <2>5, <2>8 DEF MapInv, StoredAt
  <2>10. ASSUME NEW q \in Keys, NEW u \in Slots, StoredAt(q, u)
         PROVE  /\ value'[TableOf[q]][u] = IF map'[q] = None THEN Uninit ELSE map'[q]
                /\ map'[q] = None => \E x \in Writers : wpc'[x] = "value" /\ wjob'[x][1] = q
    <3>1. CASE q = k
      <4>1. u = s
        BY <2>2, <2>4, <2>10, <3>1, StoredOnce
      <4> QED BY <2>6, <2>8, <3>1, <4>1
    <3>2. CASE q # k
      <4>1. TableOf[q] # TableOf[k] \/ u # s
        BY <2>2, <2>4, <2>10, <3>2 DEF StoredAt
      <4>2. value'[TableOf[q]][u] = value[TableOf[q]][u] /\ map'[q] = map[q]
        BY <2>6, <2>8, <3>2, <4>1, HashAssumption
      <4>3. map[q] = None => \E x \in Writers : wpc[x] = "value" /\ wjob[x][1] = q
        BY <2>10 DEF MapInv
      <4>4. \A x \in Writers : wpc[x] = "value" /\ wjob[x][1] = q =>
               wpc'[x] = "value" /\ wjob'[x][1] = q
        BY <2>1, <2>5, <3>2 DEF TableInv, TypeOK
      <4> QED BY <2>10, <4>2, <4>3, <4>4 DEF MapInv
    <3> QED BY <3>1, <3>2
  <2>11. \A q \in Keys, u \in Slots : StoredAt(q, u)' <=> StoredAt(q, u)
    BY <2>5 DEF StoredAt
  <2> QED BY <2>7, <2>9, <2>10, <2>11 DEF MapInv
<1>5. ASSUME NEW w \in Writers, AddAborts(w) PROVE MapInv'
  BY <1>1, <1>5 DEF AddAborts, tableVars, writerVars
<1>6. ASSUME NEW r \in Readers, BeginLookup(r) \/ Probe(r) \/ LoadValue(r) PROVE MapInv'
  BY <1>1, <1>6 DEF BeginLookup, Probe, LoadValue, tableVars, writerVars
<1>7. CASE UNCHANGED vars
  BY <1>1, <1>7 DEF vars, tableVars, writerVars
<1> QED
  BY <1>2, <1>3, <1>4, <1>5, <1>6, <1>7 DEF Next, Write, Read

(* What Add starts from is inside the table.                               *)
LEMMA AlikeInside == ASSUME NEW k \in Keys, Alike(k) PROVE Inside(k)
BY HashAssumption, SizeAssumption DEF Alike, Inside, Slots

(* A reader at a free slot has searched enough: its key is nowhere.        *)
LEMMA FreeSlotMeansAbsent ==
    ASSUME TableInv, ReaderInv, NEW r \in Readers, NEW k \in Keys,
           rpc[r] # "idle", rkey[r] = k, Alike(k), key[TableOf[k]][rslot[r]] = 0,
           NEW t \in Slots
    PROVE  ~StoredAt(k, t)
<1>0. Inside(k)
  BY AlikeInside
<1>1. /\ TableOf[k] \in Tables /\ k # 0 /\ HomeOf[k] \in Nat /\ t \in Nat
      /\ rslot[r] \in Slots /\ rslot[r] \in Nat
  BY <1>0, HashAssumption, KeysAssumption, SizeAssumption
  DEF Slots, ReaderInv, ReaderAt
<1>2. /\ HomeOf[k] <= rslot[r]
      /\ \A u \in HomeOf[k] .. rslot[r] - 1 : key[TableOf[k]][u] # k
  BY <1>0 DEF ReaderInv, ReaderAt, Alike
<1>3. SUFFICES ASSUME StoredAt(k, t) PROVE FALSE
  OBVIOUS
<1>4. HomeOf[k] <= t /\ \A u \in HomeOf[k] .. t - 1 : key[TableOf[k]][u] \notin {0, k}
  BY <1>1, <1>3 DEF TableInv, ProbeChains, StoredAt
<1> QED BY <1>1, <1>2, <1>3, <1>4 DEF StoredAt

(* A reader whose address was filled when it began, at the index where it  *)
(* looks, has or will have a target.                                       *)
KnownInv ==
    \A r \in Readers : known[r] # None =>
        /\ rkey[r] \in Keys /\ map[rkey[r]] # None
        /\ rpc[r] = "idle" /\ Alike(rkey[r]) => answer[r] \in Values

(* Nothing is known at the start.                                          *)
LEMMA KnownInit == Init => KnownInv
BY DEF Init, KnownInv

(* The steps of a lookup of a filled address end in a target.              *)
LEMMA KnownNext ==
    TableInv /\ ReaderInv /\ MapInv /\ KnownInv /\ [Next]_vars => KnownInv'
<1> SUFFICES ASSUME TableInv, ReaderInv, MapInv, KnownInv, [Next]_vars,
                    NEW r \in Readers, known'[r] # None
             PROVE  /\ rkey'[r] \in Keys /\ map'[rkey'[r]] # None
                    /\ rpc'[r] = "idle" /\ Alike(rkey'[r]) => answer'[r] \in Values
  BY DEF KnownInv, Alike
<1> DEFINE Goal == /\ rkey'[r] \in Keys /\ map'[rkey'[r]] # None
                   /\ rpc'[r] = "idle" /\ Alike(rkey'[r]) => answer'[r] \in Values
<1>1. ASSUME rkey'[r] = rkey[r], known'[r] = known[r], rpc'[r] = rpc[r],
             answer'[r] = answer[r], \A k \in Keys : map[k] # None => map'[k] # None
      PROVE  Goal
  BY <1>1 DEF KnownInv
<1>2. ASSUME BeginLookup(r) PROVE Goal
  <2>1. PICK k \in Keys :
           /\ rkey'[r] = k /\ known'[r] = map[k] /\ map' = map
           /\ ReadTableOf[k] \in created => rpc'[r] = "probe"
    BY <1>2 DEF BeginLookup, Answer, TableInv, TypeOK
  <2>2. PICK s \in Slots : StoredAt(k, s)
    BY <2>1 DEF MapInv
  <2>3. TableOf[k] \in created
    BY <2>2, HashAssumption, KeysAssumption DEF TableInv, LastSlotFree, StoredAt
  <2> QED BY <2>1, <2>3 DEF Alike
<1>3. ASSUME Probe(r) PROVE Goal
  <2>1. PICK k \in Keys : k = rkey[r] /\ TableOf[k] \in Tables
    BY <1>3, HashAssumption DEF Probe, TableInv, TypeOK
  <2>2. UNCHANGED <<rkey, known, map>>
    BY <1>3 DEF Probe
  <2> SUFFICES ASSUME Alike(k) PROVE Goal
    BY <2>1, <2>2 DEF KnownInv
  <2>9. Inside(k)
    BY <2>1, AlikeInside
  <2>3. LoadedKeys(r) = {key[TableOf[k]][rslot[r]]}
    BY <1>3, <2>1, <2>9 DEF Probe, LoadedKeys, ReaderInv, ReaderAt, Alike
  <2>4. PICK t \in Slots : StoredAt(k, t)
    BY <2>1, <2>2 DEF KnownInv, MapInv
  <2>5. key[TableOf[k]][rslot[r]] # 0
    BY <1>3, <2>1, <2>4, FreeSlotMeansAbsent DEF Probe
  <2>6. rpc'[r] # "idle"
    BY <1>3, <2>3, <2>5 DEF Probe, TableInv, TypeOK
  <2> QED BY <2>2, <2>6 DEF KnownInv
<1>4. ASSUME LoadValue(r) PROVE Goal
  <2>1. PICK k \in Keys : k = rkey[r] /\ TableOf[k] \in Tables
    BY <1>4, HashAssumption DEF LoadValue, TableInv, TypeOK
  <2>2. UNCHANGED <<rkey, known, map>>
    BY <1>4 DEF LoadValue
  <2> SUFFICES ASSUME Alike(k) PROVE Goal
    BY <2>1, <2>2 DEF KnownInv
  <2>9. Inside(k)
    BY <2>1, AlikeInside
  <2>3. rslot[r] \in Slots /\ StoredAt(k, rslot[r])
    BY <1>4, <2>1, <2>9 DEF LoadValue, ReaderInv, ReaderAt, Alike, StoredAt
  <2>4. map[k] # None /\ map[k] \in Values
    BY <2>1, <2>2 DEF KnownInv, TableInv, TypeOK
  <2>5. value[TableOf[k]][rslot[r]] = map[k]
    BY <2>3, <2>4 DEF MapInv
  <2>6. answer'[r] = map[k]
    BY <1>4, <2>1, <2>3, <2>5 DEF LoadValue, Answer, Alike, TableInv, TypeOK
  <2> QED BY <2>1, <2>2, <2>4, <2>6
<1>5. ASSUME NEW q \in Readers, q # r, BeginLookup(q) \/ Probe(q) \/ LoadValue(q) PROVE Goal
  <2>1. /\ rkey'[r] = rkey[r] /\ known'[r] = known[r] /\ rpc'[r] = rpc[r]
        /\ answer'[r] = answer[r] /\ map' = map
    BY <1>5 DEF BeginLookup, Probe, LoadValue, Answer, TableInv, TypeOK
  <2> QED BY <1>1, <2>1
<1>6. ASSUME NEW w \in Writers, StoreValue(w) PROVE Goal
  <2>1. wjob[w] \in Keys \X Values
    BY <1>6 DEF StoreValue, TableInv, WriterInv
  <2>2. \A k \in Keys : map[k] # None => map'[k] # None
    BY <1>6, <2>1, ValuesAssumption DEF StoreValue, TableInv, TypeOK
  <2> QED BY <1>1, <1>6, <2>2 DEF StoreValue, readerVars
<1>7. ASSUME NEW w \in Writers, BeginFill(w) \/ StoreKey(w) \/ AddAborts(w) PROVE Goal
  BY <1>1, <1>7 DEF BeginFill, StoreKey, AddAborts, readerVars
<1>8. CASE UNCHANGED vars
  BY <1>1, <1>8 DEF vars, readerVars
<1> QED
  BY <1>2, <1>3, <1>4, <1>5, <1>6, <1>7, <1>8 DEF Next, Read, Write

(* An address that both sides index alike, filled before a lookup begins,  *)
(* is found, also by readers that race with other fills, and whatever the  *)
(* indices of the other addresses are.                                     *)
THEOREM FilledIsFound == Spec => []FoundWhereAlike
<1>1. KnownInv => FoundWhereAlike
  BY DEF KnownInv, FoundWhereAlike
<1> QED
  BY TableInit, TableNext, ReaderInit, ReaderNext, MapInit, MapNext, KnownInit,
     KnownNext, <1>1, PTL DEF Spec

----------------------------------------------------------------------------
(* What the map has seen answered.                                         *)
MapAnswer == [r \in Readers |-> Found(r)]

(* An answer of one reader changes what the map has seen of that reader.   *)
LEMMA AnswerSeen ==
    ASSUME TableInv, NEW r \in Readers, NEW v, NEW m,
           answer' = [answer EXCEPT ![r] = v], m = IF v = Uninit THEN None ELSE v
    PROVE  MapAnswer' = [MapAnswer EXCEPT ![r] = m]
<1>1. \A q \in Readers : answer'[q] = IF q = r THEN v ELSE answer[q]
  BY DEF TableInv, TypeOK
<1> QED BY <1>1 DEF MapAnswer, Found

(* A lookup that starts inside a table and finds its key there finds what  *)
(* the map holds.                                                          *)
LEMMA HitMaps ==
    ASSUME TableInv, ReaderInv, MapInv, NEW r \in Readers, NEW k \in Keys,
           rpc[r] = "hit", rkey[r] = k, Inside(k)
    PROVE  /\ rslot[r] \in Slots
           /\ value[ReadTableOf[k]][rslot[r]] = IF map[k] = None THEN Uninit ELSE map[k]
<1>1. rslot[r] \in Slots /\ key[ReadTableOf[k]][rslot[r]] = k
  BY DEF ReaderInv, ReaderAt
<1>2. ReadTableOf[k] \in Tables /\ k # 0
  BY HashAssumption, KeysAssumption
<1>3. TableOf[k] = ReadTableOf[k]
  BY <1>1, <1>2 DEF TableInv, ProbeChains
<1>4. StoredAt(k, rslot[r])
  BY <1>1, <1>3 DEF StoredAt
<1> QED BY <1>1, <1>3, <1>4 DEF MapInv

(* A lookup that misses an address that both sides index alike finds what  *)
(* the map holds, nothing.                                                 *)
LEMMA MissMaps ==
    ASSUME TableInv, ReaderInv, MapInv, NEW r \in Readers, NEW k \in Keys, Alike(k),
           \/ ReadTableOf[k] \notin created
           \/ /\ rpc[r] # "idle" /\ rkey[r] = k
              /\ key[TableOf[k]][rslot[r]] = 0
    PROVE  map[k] = None
<1>1. \A s \in Slots : ~StoredAt(k, s)
  <2>1. CASE ReadTableOf[k] \notin created
    BY <2>1, HashAssumption, KeysAssumption DEF TableInv, LastSlotFree, StoredAt, Alike
  <2>2. CASE rpc[r] # "idle" /\ rkey[r] = k /\ key[TableOf[k]][rslot[r]] = 0
    BY <2>2, FreeSlotMeansAbsent
  <2> QED BY <2>1, <2>2
<1> QED BY <1>1 DEF MapInv

(* A lookup answers with what the map lets it answer.                      *)
LEMMA LookupMaps ==
    ASSUME TableInv, ReaderInv, MapInv, NEW r \in Readers
    PROVE  BeginLookup(r) \/ Probe(r) \/ LoadValue(r) =>
              [Map!Next]_<<map, rkey, MapAnswer>>
<1>1. ASSUME NEW k \in Keys, NEW v \in Values \cup {None}, Map!May(k, v),
             MapAnswer' = [MapAnswer EXCEPT ![r] = v]
      PROVE  Map!Answer(r, k)
  BY <1>1 DEF Map!Answer, MapAnswer
<1>2. ASSUME BeginLookup(r) PROVE [Map!Next]_<<map, rkey, MapAnswer>>
  <2>1. PICK k \in Keys : /\ rkey' = [rkey EXCEPT ![r] = k] /\ map' = map
                          /\ \/ answer' = answer
                             \/ /\ answer' = [answer EXCEPT ![r] = None]
                                /\ ReadTableOf[k] \notin created
    BY <1>2 DEF BeginLookup, Answer
  <2>2. CASE answer' = answer
    <3>1. MapAnswer' = MapAnswer
      BY <2>2 DEF MapAnswer, Found
    <3> QED BY <2>1, <3>1 DEF Map!Next, Map!Ask, MapAnswer
  <2>3. CASE answer' = [answer EXCEPT ![r] = None] /\ ReadTableOf[k] \notin created
    <3>1. MapAnswer' = [MapAnswer EXCEPT ![r] = None]
      BY <2>3, AnswerSeen
    <3>2. Map!May(k, None)
      BY <2>3, MissMaps DEF Map!May
    <3>3. Map!Answer(r, k)
      BY <1>1, <3>1, <3>2
    <3> QED BY <2>1, <3>3 DEF Map!Next, Map!Ask, MapAnswer
  <2> QED BY <2>1, <2>2, <2>3
<1>3. ASSUME Probe(r) PROVE [Map!Next]_<<map, rkey, MapAnswer>>
  <2>1. PICK k \in Keys : k = rkey[r] /\ TableOf[k] \in Tables
    BY <1>3, HashAssumption DEF Probe, TableInv, TypeOK
  <2>2. UNCHANGED <<rkey, map>>
    BY <1>3 DEF Probe
  <2>3. CASE answer' = answer
    BY <2>2, <2>3 DEF MapAnswer, Found
  <2>4. CASE answer' # answer
    <3>1. 0 \in LoadedKeys(r) /\ answer' = [answer EXCEPT ![r] = None]
      BY <1>3, <2>4 DEF Probe, Answer
    <3>2. ASSUME Alike(k) PROVE map[k] = None
      <4>1. Inside(k)
        BY <3>2, AlikeInside
      <4>2. LoadedKeys(r) = {key[TableOf[k]][rslot[r]]}
        BY <1>3, <2>1, <3>2, <4>1 DEF Probe, LoadedKeys, ReaderInv, ReaderAt, Alike
      <4> QED BY <1>3, <2>1, <3>1, <3>2, <4>2, MissMaps DEF Probe
    <3>3. Map!May(k, None)
      BY <3>2 DEF Map!May
    <3>4. MapAnswer' = [MapAnswer EXCEPT ![r] = None]
      BY <3>1, AnswerSeen
    <3>5. Map!Answer(r, k)
      BY <1>1, <3>3, <3>4
    <3> QED BY <2>1, <2>2, <3>5 DEF Map!Next, Map!Reply, MapAnswer
  <2> QED BY <2>3, <2>4
<1>4. ASSUME LoadValue(r) PROVE [Map!Next]_<<map, rkey, MapAnswer>>
  <2>1. PICK k \in Keys : k = rkey[r] /\ ReadTableOf[k] \in Tables /\ rpc[r] = "hit"
    BY <1>4, HashAssumption DEF LoadValue, TableInv, TypeOK
  <2>2. UNCHANGED <<rkey, map>>
    BY <1>4 DEF LoadValue
  <2>3. PICK v : /\ answer' = [answer EXCEPT ![r] = v]
                 /\ v = IF rslot[r] \in Slots THEN value[ReadTableOf[k]][rslot[r]]
                                               ELSE Uninit
    BY <1>4, <2>1 DEF LoadValue, Answer
  <2>4. v \in Values \cup {Uninit}
    BY <2>1, <2>3 DEF TableInv, TypeOK
  <2>5. PICK m : m = IF v = Uninit THEN None ELSE v
    OBVIOUS
  <2>6. m \in Values \cup {None}
    BY <2>4, <2>5
  <2>7. ASSUME Inside(k) PROVE m = map[k]
    <3>1. v = IF map[k] = None THEN Uninit ELSE map[k]
      BY <2>1, <2>3, <2>7, HitMaps
    <3>2. map[k] # Uninit
      BY ValuesAssumption DEF TableInv, TypeOK
    <3> QED BY <2>5, <3>1, <3>2
  <2>8. Map!May(k, m)
    BY <2>7, AlikeInside DEF Map!May
  <2>9. MapAnswer' = [MapAnswer EXCEPT ![r] = m]
    BY <2>3, <2>5, AnswerSeen
  <2>10. Map!Answer(r, k)
    BY <1>1, <2>6, <2>8, <2>9
  <2> QED BY <2>1, <2>2, <2>10 DEF Map!Next, Map!Reply, MapAnswer
<1> QED BY <1>2, <1>3, <1>4

(* The table, its lock, its lock-free lookups and the two stores of every  *)
(* fill behave as one atomic map, of which lookups with indices of their   *)
(* own may miss entries, and take no wrong ones if they start in a table.  *)
THEOREM TableImplementsMap == Spec => ImplementsCodeMap
<1>1. Init => Map!Init
  BY ValuesAssumption DEF Init, Map!Init, Found
<1>2. TableInv /\ ReaderInv /\ MapInv /\ [Next]_vars => [Map!Next]_<<map, rkey, MapAnswer>>
  <2> SUFFICES ASSUME TableInv, ReaderInv, MapInv, [Next]_vars
               PROVE  [Map!Next]_<<map, rkey, MapAnswer>>
    OBVIOUS
  <2>1. ASSUME NEW w \in Writers, StoreValue(w) PROVE Map!Next
    <3>1. PICK k \in Keys, v \in Values : k = wjob[w][1] /\ v = wjob[w][2]
      BY <2>1 DEF StoreValue, TableInv, WriterInv
    <3>2. map' = [map EXCEPT ![k] = v] /\ UNCHANGED <<rkey, answer>>
      BY <2>1, <3>1 DEF StoreValue, readerVars
    <3>3. MapAnswer' = MapAnswer
      BY <3>2 DEF MapAnswer, Found
    <3> QED BY <3>2, <3>3 DEF Map!Next, Map!Fill, MapAnswer
  <2>2. ASSUME UNCHANGED <<map, rkey, answer>> PROVE UNCHANGED <<map, rkey, MapAnswer>>
    BY <2>2 DEF MapAnswer, Found
  <2>3. ASSUME NEW w \in Writers, BeginFill(w) \/ StoreKey(w) \/ AddAborts(w)
        PROVE  UNCHANGED <<map, rkey, answer>>
    BY <2>3 DEF BeginFill, StoreKey, AddAborts, readerVars
  <2>4. CASE UNCHANGED vars
    BY <2>2, <2>4 DEF vars, readerVars
  <2> QED BY <2>1, <2>2, <2>3, <2>4, LookupMaps DEF Next, Write, Read
<1> QED
  BY TableInit, TableNext, ReaderInit, ReaderNext, MapInit, MapNext, <1>1, <1>2, PTL
  DEF Spec, ImplementsCodeMap, Map!Spec, MapAnswer
=============================================================================
