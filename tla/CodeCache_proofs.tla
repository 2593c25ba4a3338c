-------------------------- MODULE CodeCache_proofs --------------------------
(***************************************************************************)
(* What holds of the code cache for any number of threads, any blocks, any *)
(* code lengths and any limits.  The invariant is proved in layers: types, *)
(* then the order in which stubs are installed, then the reservations,     *)
(* then the ids, then the memory and the tables.                           *)
(***************************************************************************)
EXTENDS CodeCache, TLAPS

(* RoundUp never moves the offset back.                                    *)
LEMMA RoundUpBound ==
    ASSUME NEW x \in Nat, NEW n \in Nat \ {0}
    PROVE  RoundUp(x, n) \in Nat /\ RoundUp(x, n) >= x
<1> DEFINE y == x + n - 1
<1>1. y \in Nat /\ y - (n - 1) = x
  OBVIOUS
<1>2. y = (y \div n) * n + (y % n) /\ y % n \in 0 .. (n - 1) /\ y \div n \in Nat
  <2> HIDE DEF y
  <2> QED BY <1>1
<1> DEFINE q == y \div n
           r == y % n
           p == q * n
<1>3. p \in Nat /\ r \in 0 .. (n - 1) /\ y = p + r
  <2>1. q \in Nat BY <1>2
  <2>2. p \in Nat
    <3> HIDE DEF q
    <3> QED BY <2>1
  <2> QED BY <1>2, <2>2
<1>4. p >= x
  <2> HIDE DEF p, r, y
  <2> QED BY <1>1, <1>3
<1> QED BY <1>3, <1>4 DEF RoundUp

(* The sizes of blocks and stubs are positive naturals.                    *)
LEMMA SizesPositive == Sizes \subseteq Nat \ {0}
BY LengthsAssumption DEF Sizes

----------------------------------------------------------------------------
(* Stubs are installed one at a time, and nothing is translated until all  *)
(* four are there.                                                         *)
StubInv ==
    \A t \in Threads : pc[t] # "idle" =>
        IF IsStub(t)
        THEN /\ installed < StubCount
             /\ \A u \in Threads : u # t => pc[u] = "idle"
        ELSE job[t].source \in Sources

TypeInv == TypeOK /\ StubInv

(* Types, and the order of the stubs, hold initially.                      *)
LEMMA TypeInit == Init => TypeInv
<1> SUFFICES ASSUME Init PROVE TypeInv
  OBVIOUS
<1> USE LimitsAssumption DEF Init
<1>1. TypeOK
  <2>1. current_buffer_id \in Ids /\ current_offset \in Nat /\ nalloc \in Nat
    BY DEF Ids
  <2>2. buffers \in [BufferIds -> [source : Sources \cup {StubSource, None},
                                  offset : JunkOffsets]]
    <3>1. [source : {None}, offset : JunkOffsets]
             \subseteq [source : Sources \cup {StubSource, None}, offset : JunkOffsets]
      OBVIOUS
    <3> QED BY <3>1
  <2>3. installed \in 0 .. StubCount
    BY DEF StubCount
  <2>4. aborted \in BOOLEAN
    OBVIOUS
  <2> QED BY <2>1, <2>2, <2>3, <2>4 DEF TypeOK
<1>2. StubInv
  BY DEF StubInv
<1> QED BY <1>1, <1>2 DEF TypeInv

(* What AllocCodeBuffer leaves well typed.                                 *)
LEMMA AllocType ==
    ASSUME TypeOK, NEW t \in Threads, NEW s \in Sources \cup {StubSource},
           AllocCodeBuffer(t, s)
    PROVE  /\ current_buffer_id' \in Ids
           /\ buffers' \in [BufferIds -> [source : Sources \cup {StubSource, None},
                                          offset : JunkOffsets]]
           /\ buffers_map' \in [Sources \cup {StubSource} -> Ids \cup {None}]
           /\ DOMAIN buffer' = Threads
           /\ buffer'[t] \in Allocated
           /\ \A u \in Threads : u # t => buffer'[u] = buffer[u]
           /\ nalloc' \in Nat
<1> USE DEF TypeOK, AllocCodeBuffer
<1>1. current_buffer_id' \in Ids
  BY LimitsAssumption DEF Ids
<1>2. buffers' \in [BufferIds -> [source : Sources \cup {StubSource, None},
                                  offset : JunkOffsets]]
  <2>1. CASE current_buffer_id \in BufferIds
    <3>1. buffers[current_buffer_id].offset \in JunkOffsets
      BY <2>1
    <3> QED BY <2>1, <3>1
  <2>2. CASE current_buffer_id \notin BufferIds
    BY <2>2
  <2> QED BY <2>1, <2>2
<1>3. buffers_map' \in [Sources \cup {StubSource} -> Ids \cup {None}]
  OBVIOUS
<1>4. DOMAIN buffer' = Threads /\ \A u \in Threads : u # t => buffer'[u] = buffer[u]
  OBVIOUS
<1>5. buffer'[t] \in Allocated
  BY DEF Allocated
<1>6. nalloc' \in Nat
  OBVIOUS
<1> QED BY <1>1, <1>2, <1>3, <1>4, <1>5, <1>6

(* Every step keeps the types and the order of the stubs.                  *)
LEMMA TypeNext == TypeInv /\ [Next]_vars => TypeInv'
<1> SUFFICES ASSUME TypeInv, [Next]_vars PROVE TypeInv'
  OBVIOUS
<1> USE DEF TypeInv
<1>1. ASSUME NEW t \in Threads, BeginFlush(t) PROVE TypeInv'
  <2>1. PICK s \in Sources, n \in Lengths, bind \in BOOLEAN :
           /\ AllocCodeBuffer(t, s)
           /\ job' = [job EXCEPT ![t] = [source |-> s, length |-> n, bind |-> bind]]
    BY <1>1 DEF BeginFlush
  <2>2. [source |-> s, length |-> n, bind |-> bind] \in Jobs
    BY DEF Jobs, Sizes
  <2>3. TypeOK'
    BY <1>1, <2>1, <2>2, AllocType DEF BeginFlush, TypeOK
  <2>4. StubInv'
    <3>1. s # StubSource
      BY SourcesAssumption DEF StubSource
    <3> QED BY <1>1, <2>1, <3>1 DEF BeginFlush, TypeOK, StubInv, IsStub
  <2> QED BY <2>3, <2>4
<1>2. ASSUME NEW t \in Threads, BeginStub(t) PROVE TypeInv'
  <2>1. PICK n \in StubLengths :
           /\ AllocCodeBuffer(t, StubSource)
           /\ job' = [job EXCEPT ![t] =
                         [source |-> StubSource, length |-> n, bind |-> FALSE]]
    BY <1>2 DEF BeginStub
  <2>2. [source |-> StubSource, length |-> n, bind |-> FALSE] \in Jobs
    BY DEF Jobs, Sizes
  <2>3. TypeOK'
    BY <1>2, <2>1, <2>2, AllocType DEF BeginStub, TypeOK
  <2>4. StubInv'
    BY <1>2, <2>1 DEF BeginStub, TypeOK, StubInv, IsStub
  <2> QED BY <2>3, <2>4
<1>3. ASSUME NEW t \in Threads, FlushCodeBuffer(t) PROVE TypeInv'
  <2> DEFINE b == [id |-> buffer[t].id, source |-> buffer[t].source,
                   offset |-> current_offset', size |-> job[t].length]
  <2>1. job[t] \in Jobs /\ buffer[t] \in Allocated
    BY <1>3 DEF FlushCodeBuffer, TypeOK
  <2>2. job[t].length \in Nat /\ current_offset' \in Nat
    BY <1>3, <2>1, SizesPositive DEF FlushCodeBuffer, TypeOK, Jobs
  <2>3. b \in Buffers
    BY <2>1, <2>2 DEF Buffers, Allocated, Jobs
  <2>4. buffer' = [buffer EXCEPT ![t] = b] /\ reserved' = reserved \cup {b}
    BY <1>3 DEF FlushCodeBuffer
  <2>5. TypeOK'
    BY <1>3, <2>2, <2>3, <2>4 DEF FlushCodeBuffer, TypeOK
  <2>6. StubInv'
    BY <1>3 DEF FlushCodeBuffer, TypeOK, StubInv, IsStub
  <2> QED BY <2>5, <2>6
<1>4. ASSUME Abort PROVE TypeInv'
  BY <1>4 DEF Abort, TypeOK, StubInv, IsStub, blockVars, threadVars, historyVars
<1>5. ASSUME NEW t \in Threads, GenDispatcher(t) PROVE TypeInv'
  <2>1. buffer[t].offset \in Nat
    BY <1>5 DEF GenDispatcher, TypeOK, Buffers
  <2>2. TypeOK'
    BY <1>5, <2>1 DEF GenDispatcher, TypeOK, historyVars
  <2>3. StubInv'
    BY <1>5 DEF GenDispatcher, TypeOK, StubInv, IsStub
  <2> QED BY <2>2, <2>3
<1>6. ASSUME NEW t \in Threads, BindTrampolines(t) PROVE TypeInv'
  BY <1>6 DEF BindTrampolines, TypeOK, StubInv, IsStub, blockVars, historyVars
<1>7. ASSUME NEW t \in Threads, CopyCode(t) PROVE TypeInv'
  <2>1. buffer[t].offset \in Nat
    BY <1>7 DEF CopyCode, TypeOK, Buffers
  <2>2. memory' \in [Words -> Nat \cup {None}]
    BY <1>7, <2>1 DEF CopyCode, TypeOK
  <2>3. installed' \in 0 .. StubCount
    BY <1>7 DEF CopyCode, TypeOK, StubInv, StubCount
  <2>4. TypeOK'
    BY <1>7, <2>2, <2>3 DEF CopyCode, TypeOK, historyVars
  <2>5. StubInv'
    BY <1>7 DEF CopyCode, TypeOK, StubInv, IsStub
  <2> QED BY <2>4, <2>5
<1>8. ASSUME NEW t \in Threads, FillCodeAddress(t) PROVE TypeInv'
  <2>1. buffer[t].offset \in Nat /\ job[t] \in Jobs
    BY <1>8 DEF FillCodeAddress, TypeOK, Buffers
  <2>2. TypeOK'
    BY <1>8, <2>1 DEF FillCodeAddress, TypeOK, blockVars, historyVars
  <2>3. StubInv'
    BY <1>8 DEF FillCodeAddress, TypeOK, StubInv, IsStub
  <2> QED BY <2>2, <2>3
<1>9. ASSUME NEW n \in Alignments, Align(n) PROVE TypeInv'
  <2>1. current_offset' \in Nat
    BY <1>9, RoundUpBound, AlignmentsAssumption DEF Align, TypeOK
  <2> QED BY <1>9, <2>1 DEF Align, TypeOK, StubInv, IsStub, threadVars, historyVars
<1>10. CASE UNCHANGED vars
  BY <1>10 DEF vars, blockVars, threadVars, historyVars, TypeOK, StubInv, IsStub
<1> QED
  BY <1>1, <1>2, <1>3, <1>4, <1>5, <1>6, <1>7, <1>8, <1>9, <1>10
  DEF Next, Step, FlushCodeBufferAssert, GenDispatcherAssert

(* Every variable has its type, in every reachable state.                  *)
THEOREM TypeCorrect == Spec => []TypeOK
<1>1. TypeInv => TypeOK
  BY DEF TypeInv
<1> QED BY TypeInit, TypeNext, <1>1, PTL DEF Spec

----------------------------------------------------------------------------
(* A thread between AllocCodeBuffer and the end of its flush works on the  *)
(* source of its job; from FlushCodeBuffer on, its buffer is reserved.     *)
Holds(t) == pc[t] \notin {"idle", "flush"}

ResInv ==
    /\ \A b \in reserved :
          b.offset <= current_offset /\ b.offset <= MaxOffset /\ b.size <= MaxSize
    /\ ReservationsDisjoint
    /\ \A t \in Threads :
          /\ pc[t] # "idle" => buffer[t].source = job[t].source
          /\ Holds(t) => buffer[t] \in reserved

(* The reservations are in order at the start.                             *)
LEMMA ResInit == Init => ResInv
BY DEF Init, ResInv, ReservationsDisjoint, Holds

(* A new reservation starts where current_offset_ was, after all others.   *)
LEMMA ResNext == TypeInv /\ ResInv /\ [Next]_vars => ResInv'
<1> SUFFICES ASSUME TypeInv, ResInv, [Next]_vars PROVE ResInv'
  OBVIOUS
<1> USE DEF TypeInv, TypeOK, ResInv, Holds
<1>1. ASSUME NEW t \in Threads, NEW s \in Sources \cup {StubSource},
             NEW n, NEW bind, AllocCodeBuffer(t, s),
             job' = [job EXCEPT ![t] = [source |-> s, length |-> n, bind |-> bind]],
             pc' = [pc EXCEPT ![t] = "flush"],
             UNCHANGED <<current_offset, reserved>>
      PROVE  ResInv'
  <2>1. buffer'[t].source = job'[t].source
    BY <1>1 DEF AllocCodeBuffer
  <2>2. \A u \in Threads : u # t => buffer'[u] = buffer[u] /\ job'[u] = job[u]
    BY <1>1 DEF AllocCodeBuffer
  <2> QED BY <1>1, <2>1, <2>2 DEF ReservationsDisjoint
<1>2. ASSUME NEW t \in Threads, BeginFlush(t) PROVE ResInv'
  BY <1>1, <1>2 DEF BeginFlush
<1>3. ASSUME NEW t \in Threads, BeginStub(t) PROVE ResInv'
  <2>1. PICK n \in StubLengths :
           /\ AllocCodeBuffer(t, StubSource)
           /\ job' = [job EXCEPT ![t] =
                         [source |-> StubSource, length |-> n, bind |-> FALSE]]
    BY <1>3 DEF BeginStub
  <2>2. StubSource \in Sources \cup {StubSource}
    OBVIOUS
  <2>3. pc' = [pc EXCEPT ![t] = "flush"] /\ UNCHANGED <<current_offset, reserved>>
    BY <1>3 DEF BeginStub
  <2> HIDE DEF TypeInv, TypeOK, ResInv
  <2> QED BY <1>1, <2>1, <2>2, <2>3
<1>4. ASSUME NEW t \in Threads, FlushCodeBuffer(t) PROVE ResInv'
  <2> DEFINE b == [id |-> buffer[t].id, source |-> buffer[t].source,
                   offset |-> current_offset', size |-> job[t].length]
  <2>1. buffer' = [buffer EXCEPT ![t] = b] /\ reserved' = reserved \cup {b}
    BY <1>4 DEF FlushCodeBuffer
  <2>2. job[t].length \in Nat /\ current_offset' = current_offset + job[t].length
    BY <1>4, SizesPositive DEF FlushCodeBuffer, Jobs
  <2>3. \A a \in reserved : a.offset \in Nat /\ a.offset <= current_offset
    BY DEF Buffers
  <2>4. \A a \in reserved' :
           a.offset <= current_offset' /\ a.offset <= MaxOffset /\ a.size <= MaxSize
    BY <1>4, <2>1, <2>2, <2>3 DEF FlushCodeBuffer
  <2>5. \A a \in reserved : a.offset + b.size <= b.offset
    BY <2>2, <2>3
  <2>6. ReservationsDisjoint'
    BY <2>1, <2>5 DEF ReservationsDisjoint
  <2>7. \A u \in Threads :
           /\ pc'[u] # "idle" => buffer'[u].source = job'[u].source
           /\ Holds(u)' => buffer'[u] \in reserved'
    BY <1>4, <2>1 DEF FlushCodeBuffer
  <2> QED BY <2>4, <2>6, <2>7
<1>5. ASSUME NEW t \in Threads,
             GenDispatcher(t) \/ BindTrampolines(t) \/ CopyCode(t) \/ FillCodeAddress(t)
      PROVE  ResInv'
  <2>1. UNCHANGED <<job, buffer, reserved, current_offset>>
    BY <1>5 DEF GenDispatcher, BindTrampolines, CopyCode, FillCodeAddress,
       blockVars, historyVars
  <2>2. \A u \in Threads : Holds(u)' => Holds(u)
    BY <1>5 DEF GenDispatcher, BindTrampolines, CopyCode, FillCodeAddress
  <2>3. \A u \in Threads : pc'[u] # "idle" => pc[u] # "idle"
    BY <1>5 DEF GenDispatcher, BindTrampolines, CopyCode, FillCodeAddress
  <2> QED BY <2>1, <2>2, <2>3 DEF ReservationsDisjoint
<1>6. ASSUME NEW n \in Alignments, Align(n) PROVE ResInv'
  <2>1. current_offset' \in Nat /\ current_offset <= current_offset'
    BY <1>6, RoundUpBound, AlignmentsAssumption DEF Align
  <2>2. UNCHANGED <<pc, job, buffer, reserved>>
    BY <1>6 DEF Align, threadVars, historyVars
  <2>3. \A b \in reserved' :
           b.offset <= current_offset' /\ b.offset <= MaxOffset /\ b.size <= MaxSize
    BY <2>1, <2>2 DEF Buffers
  <2> QED BY <2>2, <2>3 DEF ReservationsDisjoint
<1>7. ASSUME UNCHANGED <<current_offset, reserved, pc, job, buffer>> PROVE ResInv'
  BY <1>7 DEF ReservationsDisjoint
<1>8. CASE UNCHANGED vars
  BY <1>7, <1>8 DEF vars, blockVars, threadVars, historyVars
<1>9. ASSUME Abort PROVE ResInv'
  BY <1>7, <1>9 DEF Abort, blockVars, threadVars, historyVars
<1> QED
  BY <1>2, <1>3, <1>4, <1>5, <1>6, <1>8, <1>9
  DEF Next, Step, FlushCodeBufferAssert, GenDispatcherAssert

(* No two reservations of the code block share a word.                     *)
THEOREM ReservationsAreDisjoint == Spec => []ReservationsDisjoint
<1>1. ResInv => ReservationsDisjoint
  BY DEF ResInv
<1> QED BY TypeInit, TypeNext, ResInit, ResNext, <1>1, PTL DEF Spec

----------------------------------------------------------------------------
(* Until the u16 counter wraps, the next id is the number of allocations,  *)
(* and every id in use is smaller and used once.                           *)
IdsBeforeWrap ==
    /\ nalloc <= MaxBuffer => current_buffer_id = nalloc
    /\ \A b \in reserved : b.id < nalloc
    /\ \A t \in Threads : pc[t] = "flush" =>
          /\ buffer[t].id < nalloc
          /\ \A b \in reserved : b.id # buffer[t].id
          /\ \A u \in Threads : pc[u] = "flush" /\ u # t =>
                buffer[u].id # buffer[t].id
    /\ \A a, b \in reserved : a.id = b.id => a = b

IdInv == nalloc <= MaxBuffer + 1 => IdsBeforeWrap

(* The first id is 0 and no id is in use.                                  *)
LEMMA IdInit == Init => IdInv
BY LimitsAssumption DEF Init, IdInv, IdsBeforeWrap

(* A new id is larger than all the others.                                 *)
LEMMA IdNext == TypeInv /\ IdInv /\ [Next]_vars => IdInv'
<1> SUFFICES ASSUME TypeInv, IdInv, [Next]_vars, nalloc' <= MaxBuffer + 1
             PROVE  IdsBeforeWrap'
  BY DEF IdInv
<1>1. ASSUME NEW t \in Threads, NEW s, AllocCodeBuffer(t, s),
             pc' = [pc EXCEPT ![t] = "flush"], UNCHANGED reserved
      PROVE  IdsBeforeWrap'
  <2> USE <1>1 DEF TypeInv, TypeOK, IdsBeforeWrap
  <2>1. nalloc \in Nat /\ MaxBuffer \in Nat /\ nalloc' = nalloc + 1 /\ nalloc <= MaxBuffer
    BY LimitsAssumption DEF AllocCodeBuffer
  <2>2. IdsBeforeWrap /\ current_buffer_id = nalloc
    BY <2>1 DEF IdInv
  <2>3. nalloc' <= MaxBuffer => current_buffer_id' = nalloc'
    BY <2>1, <2>2 DEF AllocCodeBuffer
  <2>4. \A b \in reserved : b.id \in Nat /\ b.id < nalloc
    BY <2>2, LimitsAssumption DEF Buffers, Ids
  <2>5. buffer'[t].id = nalloc /\ \A u \in Threads : u # t => buffer'[u] = buffer[u]
    BY <2>2 DEF AllocCodeBuffer
  <2>6. \A u \in Threads : pc'[u] = "flush" => u = t \/ pc[u] = "flush"
    OBVIOUS
  <2>7. \A u \in Threads : pc[u] = "flush" => buffer[u].id \in Nat /\ buffer[u].id < nalloc
    BY <2>2, LimitsAssumption DEF Allocated, Ids
  <2>8. \A u \in Threads : pc'[u] = "flush" =>
           /\ buffer'[u].id < nalloc'
           /\ \A b \in reserved : b.id # buffer'[u].id
           /\ \A v \in Threads : pc'[v] = "flush" /\ v # u => buffer'[v].id # buffer'[u].id
    BY <2>1, <2>2, <2>4, <2>5, <2>6, <2>7
  <2>9. \A b \in reserved : b.id < nalloc'
    BY <2>1, <2>4
  <2> QED BY <2>2, <2>3, <2>8, <2>9
<1>2. ASSUME NEW t \in Threads, BeginFlush(t) PROVE IdsBeforeWrap'
  BY <1>1, <1>2 DEF BeginFlush
<1>3. ASSUME NEW t \in Threads, BeginStub(t) PROVE IdsBeforeWrap'
  BY <1>1, <1>3 DEF BeginStub
<1>4. ASSUME UNCHANGED <<nalloc, current_buffer_id>> PROVE IdsBeforeWrap
  BY <1>4 DEF IdInv
<1>5. ASSUME NEW t \in Threads, FlushCodeBuffer(t) PROVE IdsBeforeWrap'
  <2> USE DEF TypeInv, TypeOK, IdsBeforeWrap
  <2> DEFINE b == [id |-> buffer[t].id, source |-> buffer[t].source,
                   offset |-> current_offset', size |-> job[t].length]
  <2>1. /\ buffer' = [buffer EXCEPT ![t] = b] /\ reserved' = reserved \cup {b}
        /\ pc[t] = "flush" /\ pc' = [pc EXCEPT ![t] = "dispatch"]
        /\ UNCHANGED <<nalloc, current_buffer_id>>
    BY <1>5 DEF FlushCodeBuffer
  <2>2. IdsBeforeWrap
    BY <1>4, <2>1
  <2>3. /\ b.id = buffer[t].id
        /\ \A u \in Threads : pc'[u] = "flush" =>
              u # t /\ pc[u] = "flush" /\ buffer'[u] = buffer[u]
    BY <2>1
  <2>4. b.id < nalloc /\ \A a \in reserved : a.id # b.id
    BY <2>1, <2>2, <2>3
  <2>5. \A u \in Threads : pc'[u] = "flush" => buffer'[u].id # b.id
    BY <2>1, <2>2, <2>3
  <2> HIDE DEF b
  <2> QED BY <2>1, <2>2, <2>3, <2>4, <2>5
<1>6. ASSUME UNCHANGED <<nalloc, current_buffer_id, reserved, buffer>>,
             \A t \in Threads : pc'[t] = "flush" => pc[t] = "flush"
      PROVE  IdsBeforeWrap'
  BY <1>4, <1>6 DEF IdsBeforeWrap
<1>7. ASSUME NEW t \in Threads,
             GenDispatcher(t) \/ BindTrampolines(t) \/ CopyCode(t) \/ FillCodeAddress(t)
      PROVE  IdsBeforeWrap'
  BY <1>6, <1>7 DEF GenDispatcher, BindTrampolines, CopyCode, FillCodeAddress,
     TypeInv, TypeOK, blockVars, historyVars
<1>8. ASSUME Abort PROVE IdsBeforeWrap'
  BY <1>6, <1>8 DEF Abort, blockVars, threadVars, historyVars
<1>9. ASSUME NEW n \in Alignments, Align(n) PROVE IdsBeforeWrap'
  BY <1>6, <1>9 DEF Align, threadVars, historyVars
<1>10. CASE UNCHANGED vars
  BY <1>6, <1>10 DEF vars, blockVars, threadVars, historyVars
<1> QED
  BY <1>2, <1>3, <1>5, <1>7, <1>8, <1>9, <1>10
  DEF Next, Step, FlushCodeBufferAssert, GenDispatcherAssert

(* Up to the wrap of the counter, a buffer id stands for one buffer.       *)
THEOREM IdsAreUnique == Spec => []UniqueIds
<1>1. IdInv => UniqueIds
  BY DEF IdInv, IdsBeforeWrap, UniqueIds
<1> QED BY TypeInit, TypeNext, IdInit, IdNext, <1>1, PTL DEF Spec

----------------------------------------------------------------------------
(* Every word of code, every entry of a find table and every branch of the *)
(* dispatcher table comes from a reserved buffer; a buffer that has passed *)
(* GenDispatcher has an entry in buffers_, and a thread's next code lies   *)
(* after all it has published.                                             *)
TableInv ==
    /\ \A w \in Words : memory[w] # None =>
          \E b \in reserved : b.offset = memory[w] /\ w \in Extent(b)
    /\ \A t \in Threads, s \in Sources : code_find_table[t][s] # None =>
          \E b \in reserved : /\ b.source = s /\ b.offset = code_find_table[t][s]
                              /\ b.id \in BufferIds
    /\ \A i \in 0 .. DispatcherCount - 1 : dispatcher[i] # None =>
          \E b \in reserved : b.id = i /\ b.offset = dispatcher[i]
    /\ \A t \in Threads : pc[t] \in {"bind", "copy", "fill"} => buffer[t].id \in BufferIds
    /\ \A t \in Threads, s \in Sources : Holds(t) =>
          code_find_table[t][s] = None \/ code_find_table[t][s] < buffer[t].offset

(* The memory and the tables are empty at the start.                       *)
LEMMA TableInit == Init => TableInv
BY DEF Init, TableInv, Holds

(* The steps that fill the tables have a reserved buffer to fill them with. *)
LEMMA TableNext == TypeInv /\ ResInv /\ TableInv /\ [Next]_vars => TableInv'
<1> SUFFICES ASSUME TypeInv, ResInv, TableInv, [Next]_vars PROVE TableInv'
  OBVIOUS
<1> USE DEF TypeInv, TypeOK, Holds
<1>1. ASSUME UNCHANGED <<reserved, memory, dispatcher, code_find_table>>,
             \A t \in Threads : pc'[t] \in {"idle", "flush"} \/
                (pc'[t] = pc[t] /\ buffer'[t] = buffer[t])
      PROVE  TableInv'
  BY <1>1 DEF TableInv, Extent
<1>2. ASSUME NEW t \in Threads, BeginFlush(t) \/ BeginStub(t) PROVE TableInv'
  BY <1>1, <1>2 DEF BeginFlush, BeginStub, AllocCodeBuffer
<1>3. ASSUME NEW t \in Threads, FlushCodeBuffer(t) PROVE TableInv'
  <2> DEFINE b == [id |-> buffer[t].id, source |-> buffer[t].source,
                   offset |-> current_offset', size |-> job[t].length]
  <2>1. /\ buffer' = [buffer EXCEPT ![t] = b] /\ reserved' = reserved \cup {b}
        /\ pc' = [pc EXCEPT ![t] = "dispatch"]
        /\ UNCHANGED <<memory, dispatcher, code_find_table>>
    BY <1>3 DEF FlushCodeBuffer
  <2>2. job[t].length \in Nat \ {0} /\ current_offset' = current_offset + job[t].length
    BY <1>3, SizesPositive DEF FlushCodeBuffer, Jobs
  <2>3. \A s \in Sources : code_find_table[t][s] = None \/ code_find_table[t][s] < b.offset
    <3> SUFFICES ASSUME NEW s \in Sources, code_find_table[t][s] # None
                 PROVE  code_find_table[t][s] < b.offset
      OBVIOUS
    <3>1. PICK a \in reserved : a.offset = code_find_table[t][s]
      BY DEF TableInv
    <3>2. a.offset <= current_offset /\ a.offset \in Nat
      BY <3>1 DEF ResInv, Buffers
    <3> QED BY <2>2, <3>1, <3>2
  <2>4. \A u \in Threads, s \in Sources : Holds(u)' =>
           code_find_table'[u][s] = None \/ code_find_table'[u][s] < buffer'[u].offset
    <3> HIDE DEF b
    <3> QED BY <2>1, <2>3 DEF TableInv
  <2>5. \A u \in Threads : pc'[u] \in {"bind", "copy", "fill"} => buffer'[u].id \in BufferIds
    BY <2>1 DEF TableInv
  <2> QED BY <2>1, <2>4, <2>5 DEF TableInv, Extent
<1>4. ASSUME NEW t \in Threads, GenDispatcher(t) PROVE TableInv'
  <2>1. buffer[t] \in reserved /\ buffer[t] \in Buffers
    BY <1>4 DEF ResInv, GenDispatcher
  <2>2. buffer[t].id \in BufferIds
    BY <1>4, <2>1, LimitsAssumption DEF GenDispatcher, BufferIds, Ids, Buffers
  <2>3. \A i \in 0 .. DispatcherCount - 1 : dispatcher'[i] # None =>
           \E b \in reserved : b.id = i /\ b.offset = dispatcher'[i]
    BY <1>4, <2>1 DEF GenDispatcher, TableInv
  <2>4. UNCHANGED <<reserved, memory, code_find_table, buffer>>
    BY <1>4 DEF GenDispatcher, historyVars
  <2>5. \A u \in Threads : pc'[u] \in {"bind", "copy", "fill"} => buffer[u].id \in BufferIds
    BY <1>4, <2>2 DEF GenDispatcher, TableInv
  <2>6. \A u \in Threads : Holds(u)' => Holds(u)
    BY <1>4 DEF GenDispatcher
  <2> QED BY <2>3, <2>4, <2>5, <2>6 DEF TableInv, Extent
<1>5. ASSUME NEW t \in Threads, BindTrampolines(t) PROVE TableInv'
  BY <1>5 DEF BindTrampolines, TableInv, Extent, blockVars, historyVars
<1>6. ASSUME NEW t \in Threads, CopyCode(t) PROVE TableInv'
  <2>1. buffer[t] \in reserved
    BY <1>6 DEF ResInv, CopyCode
  <2>2. \A w \in Words : memory'[w] # None =>
           \E b \in reserved : b.offset = memory'[w] /\ w \in Extent(b)
    BY <1>6, <2>1 DEF CopyCode, TableInv
  <2>3. UNCHANGED <<reserved, dispatcher, code_find_table, buffer>>
    BY <1>6 DEF CopyCode, historyVars
  <2>4. \A u \in Threads : pc'[u] \in {"bind", "copy", "fill"} => buffer[u].id \in BufferIds
    BY <1>6 DEF CopyCode, TableInv
  <2>5. \A u \in Threads : Holds(u)' => Holds(u)
    BY <1>6 DEF CopyCode
  <2> QED BY <2>2, <2>3, <2>4, <2>5 DEF TableInv, Extent
<1>7. ASSUME NEW t \in Threads, FillCodeAddress(t) PROVE TableInv'
  <2>1. buffer[t] \in reserved /\ buffer[t].source = job[t].source
    BY <1>7 DEF ResInv, FillCodeAddress
  <2>2. buffer[t].id \in BufferIds
    BY <1>7 DEF FillCodeAddress, TableInv
  <2> QED BY <1>7, <2>1, <2>2 DEF FillCodeAddress, TableInv, Extent, blockVars, historyVars
<1>8. ASSUME Abort PROVE TableInv'
  BY <1>1, <1>8 DEF Abort, blockVars, threadVars, historyVars
<1>9. ASSUME NEW n \in Alignments, Align(n) PROVE TableInv'
  BY <1>1, <1>9 DEF Align, threadVars, historyVars
<1>10. CASE UNCHANGED vars
  BY <1>1, <1>10 DEF vars, blockVars, threadVars, historyVars
<1> QED
  BY <1>2, <1>3, <1>4, <1>5, <1>6, <1>7, <1>8, <1>9, <1>10
  DEF Next, Step, FlushCodeBufferAssert, GenDispatcherAssert

IInv == TypeInv /\ ResInv /\ TableInv

(* The layers together are inductive.                                      *)
LEMMA Inductive == Spec => []IInv
BY TypeInit, TypeNext, ResInit, ResNext, TableInit, TableNext, PTL DEF Spec, IInv

(* A thread sent somewhere by its find table or by the dispatcher table    *)
(* arrives at the first word of a buffer of that block, or of that id.     *)
THEOREM EntriesAreReserved == Spec => []EntriesReserved
<1>1. IInv => EntriesReserved
  BY DEF IInv, TableInv, EntriesReserved
<1> QED BY Inductive, <1>1, PTL

(* A word of one buffer that holds another's code lies where the two meet, *)
(* they differ in length, and the one given the later offset is shorter.   *)
THEOREM OverwrittenWhereLengthsDiffer == Spec => []OverwrittenOnlyWhereLengthsDiffer
<1>1. IInv => OverwrittenOnlyWhereLengthsDiffer
  <2> SUFFICES ASSUME IInv, NEW b \in reserved, NEW w \in Extent(b),
                      memory[w] \notin {None, b.offset}
               PROVE  \E c \in reserved :
                         /\ w \in Extent(c) /\ memory[w] = c.offset
                         /\ \/ c.offset > b.offset /\ c.size < b.size
                            \/ b.offset > c.offset /\ b.size < c.size
    BY DEF OverwrittenOnlyWhereLengthsDiffer
  <2> USE DEF IInv, TypeInv, TypeOK
  <2>1. \A c \in reserved : c.offset \in Nat /\ c.size \in Nat \ {0}
    BY SizesPositive DEF Buffers
  <2>2. w \in Words
    BY <2>1, LimitsAssumption DEF ResInv, Extent, Words
  <2>3. PICK c \in reserved : c.offset = memory[w] /\ w \in Extent(c)
    BY <2>2 DEF TableInv
  <2>4. b.offset + c.size <= c.offset \/ c.offset + b.size <= b.offset
    BY <2>3 DEF ResInv, ReservationsDisjoint
  <2>5. /\ c.offset <= w /\ w < c.offset + c.size
        /\ b.offset <= w /\ w < b.offset + b.size /\ w \in Nat
    BY <2>1, <2>3 DEF Extent
  <2>6. \/ c.offset > b.offset /\ c.size < b.size
        \/ b.offset > c.offset /\ b.size < c.size
    BY <2>1, <2>4, <2>5
  <2> QED BY <2>3, <2>6
<1> QED BY Inductive, <1>1, PTL

(* A buffer without an entry in buffers_ is stopped by GenDispatcher.      *)
THEOREM OutOfArrayIsNeverPublished == Spec => []OutOfArrayNeverPublished
<1>1. IInv => OutOfArrayNeverPublished
  <2> SUFFICES ASSUME IInv, NEW b \in reserved, NEW t \in Threads, NEW s \in Sources,
                      code_find_table[t][s] = b.offset
               PROVE  b.id \in BufferIds
    BY DEF OutOfArrayNeverPublished
  <2> USE DEF IInv, TypeInv, TypeOK
  <2>1. \A c \in reserved : c.offset \in Nat /\ c.size \in Nat \ {0}
    BY SizesPositive DEF Buffers
  <2>2. PICK c \in reserved : c.offset = b.offset /\ c.id \in BufferIds
    BY <2>1, NoneAssumption DEF TableInv
  <2>3. c = b
    BY <2>1, <2>2 DEF ResInv, ReservationsDisjoint
  <2> QED BY <2>2, <2>3
<1> QED BY Inductive, <1>1, PTL

(* A find table only moves to code reserved later.                         *)
THEOREM RedirectsGoForward == Spec => RedirectsForward
<1>1. ASSUME IInv, [Next]_vars, NEW t \in Threads, NEW s \in Sources,
             code_find_table'[t][s] # code_find_table[t][s]
      PROVE  code_find_table[t][s] = None \/ code_find_table[t][s] < code_find_table'[t][s]
  <2>1. PICK u \in Threads : FillCodeAddress(u)
    BY <1>1 DEF Next, Step, BeginFlush, BeginStub, FlushCodeBuffer,
       FlushCodeBufferAssert, GenDispatcher, GenDispatcherAssert, BindTrampolines,
       CopyCode, Align, Abort, vars
  <2>2. u = t /\ s = job[t].source /\ code_find_table'[t][s] = buffer[t].offset
    BY <1>1, <2>1 DEF FillCodeAddress, IInv, TypeInv, TypeOK
  <2>3. Holds(t)
    BY <2>1, <2>2 DEF FillCodeAddress, Holds
  <2> QED BY <1>1, <2>2, <2>3 DEF IInv, TableInv
<1>2. IInv /\ [Next]_vars =>
         [\A t \in Threads, s \in Sources :
             code_find_table'[t][s] # code_find_table[t][s] =>
                \/ code_find_table[t][s] = None
                \/ code_find_table[t][s] < code_find_table'[t][s]]_vars
  BY <1>1
<1> QED BY Inductive, <1>2, PTL DEF Spec, RedirectsForward

----------------------------------------------------------------------------
(* A thread whose buffer has its words and not yet its code.               *)
Waiting(t) == pc[t] \in {"dispatch", "bind", "copy"}

(* Threads work on different buffers; the words of a buffer that has been  *)
(* copied hold some code; find tables lead to buffers that have been.      *)
CopiedInv ==
    /\ \A t, u \in Threads : Holds(t) /\ Holds(u) /\ t # u => buffer[t] # buffer[u]
    /\ \A b \in Copied : \A w \in Extent(b) : memory[w] # None
    /\ \A t \in Threads, s \in Sources : code_find_table[t][s] # None =>
          \E b \in Copied : b.source = s /\ b.offset = code_find_table[t][s]

(* Buffers are known by their offsets.                                     *)
LEMMA OffsetsUnique ==
    ASSUME IInv, NEW a \in reserved, NEW b \in reserved, a.offset = b.offset
    PROVE  a = b
<1>1. /\ a.offset \in Nat /\ a.size \in Nat \ {0}
      /\ b.offset \in Nat /\ b.size \in Nat \ {0}
  BY SizesPositive DEF IInv, TypeInv, TypeOK, Buffers
<1>2. a # b => a.offset + b.size <= b.offset \/ b.offset + a.size <= a.offset
  BY DEF IInv, ResInv, ReservationsDisjoint
<1> QED BY <1>1, <1>2

(* Of two buffers that share a word, the one further on is the shorter.    *)
LEMMA MeetsShorter ==
    ASSUME IInv, NEW a \in reserved, NEW b \in reserved, a # b,
           NEW w \in Extent(a), w \in Extent(b)
    PROVE  \/ a.offset < b.offset /\ b.size < a.size
           \/ b.offset < a.offset /\ a.size < b.size
<1>1. /\ a.offset \in Nat /\ a.size \in Nat \ {0}
      /\ b.offset \in Nat /\ b.size \in Nat \ {0}
  BY SizesPositive DEF IInv, TypeInv, TypeOK, Buffers
<1>2. a.offset + b.size <= b.offset \/ b.offset + a.size <= a.offset
  BY DEF IInv, ResInv, ReservationsDisjoint
<1>3. /\ a.offset <= w /\ w < a.offset + a.size
      /\ b.offset <= w /\ w < b.offset + b.size /\ w \in Nat
  BY <1>1 DEF Extent
<1> QED BY <1>1, <1>2, <1>3

(* The words of every buffer are words of the mapping that is modelled.    *)
LEMMA ExtentInWords ==
    ASSUME IInv, NEW b \in reserved
    PROVE  Extent(b) \subseteq Words
<1>1. /\ b.offset \in Nat /\ b.offset <= MaxOffset
      /\ b.size \in Nat \ {0} /\ b.size <= MaxSize
  BY SizesPositive DEF IInv, TypeInv, TypeOK, ResInv, Buffers
<1> QED BY <1>1, LimitsAssumption DEF Extent, Words

(* The buffer FlushCodeBuffer makes lies further on than all the others.   *)
LEMMA FlushReserves ==
    ASSUME IInv, NEW t \in Threads, FlushCodeBuffer(t)
    PROVE  /\ reserved' = reserved \cup {buffer'[t]}
           /\ buffer'[t] \notin reserved
           /\ \A u \in Threads : u # t => buffer'[u] = buffer[u]
           /\ pc[t] = "flush" /\ pc' = [pc EXCEPT ![t] = "dispatch"]
           /\ UNCHANGED <<memory, code_find_table>>
<1> USE DEF IInv, TypeInv, TypeOK
<1> DEFINE b == [id |-> buffer[t].id, source |-> buffer[t].source,
                 offset |-> current_offset', size |-> job[t].length]
<1>1. /\ buffer' = [buffer EXCEPT ![t] = b] /\ reserved' = reserved \cup {b}
      /\ pc[t] = "flush" /\ pc' = [pc EXCEPT ![t] = "dispatch"]
      /\ UNCHANGED <<memory, code_find_table>>
  BY DEF FlushCodeBuffer
<1>2. current_offset' \in Nat /\ current_offset < current_offset'
  BY SizesPositive DEF FlushCodeBuffer, Jobs
<1>3. \A a \in reserved : a.offset \in Nat /\ a.offset <= current_offset
  BY DEF ResInv, Buffers
<1>4. b.offset = current_offset'
  OBVIOUS
<1>5. b \notin reserved
  <2> HIDE DEF b
  <2> QED BY <1>2, <1>3, <1>4
<1>6. buffer'[t] = b /\ \A u \in Threads : u # t => buffer'[u] = buffer[u]
  <2> HIDE DEF b
  <2> QED BY <1>1
<1> HIDE DEF b
<1> QED BY <1>1, <1>5, <1>6

(* What a step copies is the buffer of the thread at memcpy, if it is one. *)
LEMMA CopiedSame ==
    ASSUME UNCHANGED reserved,
           \A t \in Threads : Waiting(t)' <=> Waiting(t),
           \A t \in Threads : Waiting(t) => buffer'[t] = buffer[t]
    PROVE  Copied' = Copied
BY DEF Copied, Waiting

(* Reserving words copies nothing.                                         *)
LEMMA FlushCopies ==
    ASSUME IInv, NEW t \in Threads, FlushCodeBuffer(t)
    PROVE  Copied' = Copied
<1>1. /\ reserved' = reserved \cup {buffer'[t]} /\ buffer'[t] \notin reserved
      /\ \A u \in Threads : u # t => buffer'[u] = buffer[u]
      /\ pc[t] = "flush" /\ pc' = [pc EXCEPT ![t] = "dispatch"]
  BY FlushReserves
<1>2. pc'[t] = "dispatch" /\ \A u \in Threads : u # t => pc'[u] = pc[u]
  BY <1>1 DEF IInv, TypeInv, TypeOK
<1>3. ASSUME NEW b PROVE b \in Copied' <=> b \in Copied
  BY <1>1, <1>2 DEF Copied
<1> QED BY <1>3

(* A copy adds the buffer of its thread, and fills its words.              *)
LEMMA CopyCopies ==
    ASSUME IInv, CopiedInv, NEW t \in Threads, CopyCode(t)
    PROVE  /\ buffer[t] \in reserved \ Copied
           /\ Copied' = Copied \cup {buffer[t]}
           /\ UNCHANGED <<reserved, buffer, code_find_table>>
           /\ memory' = [w \in Words |-> IF w \in Extent(buffer[t])
                                         THEN buffer[t].offset ELSE memory[w]]
<1> USE DEF IInv, TypeInv, TypeOK
<1>1. /\ buffer[t] \in reserved /\ pc[t] = "copy"
      /\ UNCHANGED <<reserved, buffer, code_find_table>>
      /\ memory' = [w \in Words |-> IF w \in Extent(buffer[t])
                                    THEN buffer[t].offset ELSE memory[w]]
  BY DEF CopyCode, ResInv, Holds, historyVars
<1>2. buffer[t] \notin Copied
  BY <1>1 DEF Copied
<1>3. pc'[t] \in {"idle", "fill"} /\ \A u \in Threads : u # t => pc'[u] = pc[u]
  BY DEF CopyCode
<1>4. \A u \in Threads : pc[u] \in {"dispatch", "bind", "copy"} /\ u # t =>
         buffer[u] # buffer[t]
  BY <1>1 DEF CopiedInv, Holds
<1>5. ASSUME NEW b PROVE b \in Copied' <=> b \in Copied \cup {buffer[t]}
  <2>1. CASE b = buffer[t]
    BY <1>1, <1>3, <1>4, <2>1 DEF Copied
  <2>2. CASE b # buffer[t]
    BY <1>1, <1>3, <2>2 DEF Copied
  <2> QED BY <2>1, <2>2
<1> QED BY <1>1, <1>2, <1>5

(* Nothing is in place at the start.                                       *)
LEMMA CopiedInit == Init => CopiedInv
BY DEF Init, CopiedInv, Copied, Holds

(* Every step keeps the copied buffers filled and the entries among them.  *)
LEMMA CopiedNext == IInv /\ CopiedInv /\ [Next]_vars => CopiedInv'
<1> SUFFICES ASSUME IInv, CopiedInv, [Next]_vars PROVE CopiedInv'
  OBVIOUS
<1> USE DEF IInv, TypeInv, TypeOK
<1>1. ASSUME UNCHANGED <<reserved, memory, code_find_table>>,
             \A t \in Threads : Waiting(t)' <=> Waiting(t),
             \A t \in Threads : Holds(t)' => Holds(t),
             \A t \in Threads : Holds(t) => buffer'[t] = buffer[t]
      PROVE  CopiedInv'
  <2>1. Copied' = Copied
    BY <1>1, CopiedSame DEF Waiting, Holds
  <2> QED BY <1>1, <2>1 DEF CopiedInv, Extent
<1>2. ASSUME NEW t \in Threads, BeginFlush(t) \/ BeginStub(t) PROVE CopiedInv'
  BY <1>1, <1>2 DEF BeginFlush, BeginStub, AllocCodeBuffer, Waiting, Holds
<1>3. ASSUME NEW t \in Threads, FlushCodeBuffer(t) PROVE CopiedInv'
  <2>1. /\ reserved' = reserved \cup {buffer'[t]} /\ buffer'[t] \notin reserved
        /\ \A u \in Threads : u # t => buffer'[u] = buffer[u]
        /\ pc[t] = "flush" /\ pc' = [pc EXCEPT ![t] = "dispatch"]
        /\ UNCHANGED <<memory, code_find_table>>
    BY <1>3, FlushReserves
  <2>2. Copied' = Copied
    BY <1>3, FlushCopies
  <2>3. \A u \in Threads : u # t /\ Holds(u)' => Holds(u) /\ buffer[u] \in reserved
    BY <2>1 DEF Holds, ResInv
  <2>4. \A u, v \in Threads : Holds(u)' /\ Holds(v)' /\ u # v => buffer'[u] # buffer'[v]
    BY <2>1, <2>3 DEF CopiedInv
  <2> QED BY <2>1, <2>2, <2>4 DEF CopiedInv, Extent
<1>4. ASSUME NEW t \in Threads, GenDispatcher(t) \/ BindTrampolines(t) PROVE CopiedInv'
  BY <1>1, <1>4 DEF GenDispatcher, BindTrampolines, Waiting, Holds, blockVars, historyVars
<1>5. ASSUME NEW t \in Threads, CopyCode(t) PROVE CopiedInv'
  <2>1. /\ Copied' = Copied \cup {buffer[t]} /\ buffer[t] \in reserved
        /\ UNCHANGED <<reserved, buffer, code_find_table>>
        /\ memory' = [w \in Words |-> IF w \in Extent(buffer[t])
                                      THEN buffer[t].offset ELSE memory[w]]
    BY <1>5, CopyCopies
  <2>2. \A u \in Threads : Holds(u)' => Holds(u)
    BY <1>5 DEF CopyCode, Holds
  <2>3. buffer[t].offset # None
    BY <2>1, NoneAssumption DEF Buffers
  <2>4. ASSUME NEW b \in Copied', NEW w \in Extent(b) PROVE memory'[w] # None
    <3>1. b \in reserved /\ (b = buffer[t] \/ b \in Copied)
      BY <2>1, <2>4 DEF Copied
    <3>2. w \in Words
      BY <2>4, <3>1, ExtentInWords
    <3> QED BY <2>1, <2>3, <2>4, <3>1, <3>2 DEF CopiedInv
  <2>5. \A u \in Threads, s \in Sources : code_find_table'[u][s] # None =>
           \E b \in Copied' : b.source = s /\ b.offset = code_find_table'[u][s]
    BY <2>1 DEF CopiedInv
  <2>6. \A b : Extent(b)' = Extent(b)
    BY DEF Extent
  <2>7. \A u, v \in Threads : Holds(u)' /\ Holds(v)' /\ u # v => buffer'[u] # buffer'[v]
    BY <2>1, <2>2 DEF CopiedInv
  <2> QED BY ONLY <2>4, <2>5, <2>6, <2>7 DEF CopiedInv
<1>6. ASSUME NEW t \in Threads, FillCodeAddress(t) PROVE CopiedInv'
  <2>1. /\ pc[t] = "fill" /\ pc' = [pc EXCEPT ![t] = "idle"]
        /\ UNCHANGED <<reserved, buffer, memory>>
        /\ code_find_table' =
              [code_find_table EXCEPT ![t][job[t].source] = buffer[t].offset]
    BY <1>6 DEF FillCodeAddress, blockVars, historyVars
  <2>2. Copied' = Copied
    BY <2>1, CopiedSame DEF Waiting
  <2>3. buffer[t] \in Copied /\ buffer[t].source = job[t].source
    BY <2>1 DEF CopiedInv, ResInv, Holds, Copied
  <2>4. \A u \in Threads : Holds(u)' => Holds(u)
    BY <2>1 DEF Holds
  <2>5. \A u \in Threads, s \in Sources : code_find_table'[u][s] # None =>
          \E b \in Copied : b.source = s /\ b.offset = code_find_table'[u][s]
    BY <2>1, <2>3 DEF CopiedInv
  <2> QED BY <2>1, <2>2, <2>4, <2>5 DEF CopiedInv, Extent
<1>7. ASSUME Abort PROVE CopiedInv'
  BY <1>1, <1>7 DEF Abort, Waiting, Holds, blockVars, threadVars, historyVars
<1>8. ASSUME NEW n \in Alignments, Align(n) PROVE CopiedInv'
  BY <1>1, <1>8 DEF Align, Waiting, Holds, threadVars, historyVars
<1>9. CASE UNCHANGED vars
  BY <1>1, <1>9 DEF vars, Waiting, Holds, blockVars, threadVars, historyVars
<1> QED
  BY <1>2, <1>3, <1>4, <1>5, <1>6, <1>7, <1>8, <1>9
  DEF Next, Step, FlushCodeBufferAssert, GenDispatcherAssert

(* Published code is all there, up to words where it meets code of another *)
(* length: every word of a copied buffer holds some code, and code that    *)
(* lies in two buffers of one length lies in one buffer.                   *)
THEOREM PublishedCodeIsThere == Spec => []PublishedUpToOtherLengths
<1>1. IInv /\ CopiedInv => PublishedUpToOtherLengths
  <2> SUFFICES ASSUME IInv, CopiedInv, NEW t \in Threads, NEW s \in Sources,
                      NEW b \in reserved, code_find_table[t][s] = b.offset,
                      NEW w \in Extent(b), memory[w] # b.offset
               PROVE  \E c \in reserved : /\ c.size # b.size /\ w \in Extent(c)
                                          /\ memory[w] = c.offset
    BY DEF PublishedUpToOtherLengths
  <2> USE DEF IInv, TypeInv, TypeOK
  <2>1. b.offset # None /\ w \in Words
    BY NoneAssumption, ExtentInWords DEF Buffers
  <2>2. PICK a \in Copied : a.offset = b.offset
    BY <2>1 DEF CopiedInv
  <2>3. a = b
    BY <2>2, OffsetsUnique DEF Copied
  <2>4. memory[w] # None
    BY <2>2, <2>3 DEF CopiedInv
  <2>5. PICK c \in reserved : c.offset = memory[w] /\ w \in Extent(c)
    BY <2>1, <2>4 DEF TableInv
  <2>6. c.size \in Nat /\ b.size \in Nat
    BY SizesPositive DEF Buffers
  <2>7. \/ c.offset < b.offset /\ b.size < c.size
        \/ b.offset < c.offset /\ c.size < b.size
    <3>1. c # b
      BY <2>5
    <3> QED BY <2>5, <3>1, MeetsShorter
  <2>8. c.size # b.size
    BY <2>6, <2>7
  <2> QED BY <2>5, <2>8
<1> QED BY Inductive, CopiedInit, CopiedNext, <1>1, PTL DEF Spec

(* Hence code of one length, once published, stays what was copied.        *)
COROLLARY UniformCodeStaysIntact ==
    ASSUME \A m, n \in Sizes : m = n
    PROVE  Spec => []PublishedCodeIntact
<1>1. TypeInv /\ PublishedUpToOtherLengths => PublishedCodeIntact
  BY DEF TypeInv, TypeOK, Buffers, PublishedUpToOtherLengths, PublishedCodeIntact
<1> QED BY TypeInit, TypeNext, PublishedCodeIsThere, <1>1, PTL DEF Spec

----------------------------------------------------------------------------
(* The copied buffers that hold all their code.                            *)
Safe == {b \in Copied : Intact(b)}

(* Steps that neither copy nor damage leave both as they are.              *)
LEMMA StoreSame ==
    ASSUME Copied' = Copied, UNCHANGED memory
    PROVE  Placed' = Placed /\ Sound' = Sound
<1>1. Safe' = Safe
  BY DEF Safe, Intact, Extent
<1> QED BY <1>1 DEF Placed, Sound, CodeOf, Safe

(* A copy puts one buffer's code in place, and damages only code it meets. *)
LEMMA CopyPlaces ==
    ASSUME IInv, CopiedInv, NEW t \in Threads, CopyCode(t)
    PROVE  Store!Place(CodeOf(buffer[t])) /\ CodeOf(buffer[t]) \in Placed'
<1> USE DEF IInv, TypeInv, TypeOK
<1> DEFINE b == buffer[t]
<1>1. /\ b \in reserved \ Copied /\ Copied' = Copied \cup {b}
      /\ UNCHANGED <<reserved, code_find_table>>
      /\ memory' = [w \in Words |-> IF w \in Extent(b) THEN b.offset ELSE memory[w]]
  BY CopyCopies
<1>2. Copied \subseteq reserved
  BY DEF Copied
<1> HIDE DEF b
<1>3. \A a \in Copied : a.offset # b.offset
  BY <1>1, <1>2, OffsetsUnique
<1>4. Placed' = Placed \cup {CodeOf(b)}
  BY <1>1 DEF Placed, CodeOf
<1>5. \A d \in Placed : d.offset # CodeOf(b).offset
  BY <1>3 DEF Placed, CodeOf
<1>6. b \in Safe'
  <2>1. \A w \in Extent(b) : memory'[w] = b.offset
    BY <1>1, ExtentInWords
  <2> QED BY <1>1, <2>1 DEF Safe, Intact, Extent
<1>7. ASSUME NEW a \in Copied, ~(Intact(a)' <=> Intact(a))
      PROVE  \E w \in Extent(a) : w \in Extent(b)
  <2>1. \A w \in Extent(a) : w \in Words
    BY <1>2, ExtentInWords
  <2> QED BY <1>1, <1>7, <2>1 DEF Intact, Extent
<1>8. ASSUME NEW a \in Copied, Intact(a)' PROVE Intact(a)
  <2> SUFFICES ASSUME NEW w \in Extent(a) PROVE memory[w] = a.offset
    BY DEF Intact
  <2>1. memory'[w] = a.offset /\ w \in Words
    BY <1>2, <1>8, ExtentInWords DEF Intact, Extent
  <2> QED BY <1>1, <1>3, <2>1
<1>9. Safe' \subseteq Safe \cup {b}
  BY <1>1, <1>8 DEF Safe
<1>10. Sound' \subseteq Sound \cup {CodeOf(b)} /\ CodeOf(b) \in Sound'
  BY <1>6, <1>9 DEF Sound, CodeOf, Safe
<1>11. ASSUME NEW d \in Sound \ Sound' PROVE Store!CanDamage(CodeOf(b), d)
  <2>1. PICK a \in Safe : d = CodeOf(a)
    BY DEF Sound, Safe
  <2>2. a \in Copied /\ Intact(a) /\ ~Intact(a)'
    BY <1>1, <1>11, <2>1 DEF Safe, Sound, CodeOf
  <2>3. PICK w \in Extent(a) : w \in Extent(b)
    BY <1>7, <2>2
  <2>4. \/ a.offset < b.offset /\ b.size < a.size
        \/ b.offset < a.offset /\ a.size < b.size
    BY <1>1, <1>2, <2>2, <2>3, MeetsShorter
  <2> QED BY <2>1, <2>4 DEF CodeOf, Store!CanDamage
<1>12. Store!Place(CodeOf(b))
  BY <1>1, <1>4, <1>5, <1>10, <1>11 DEF Store!Place
<1> QED BY <1>4, <1>12 DEF b

(* Every step of the code cache is a step of the code store, or none.      *)
LEMMA StoreStep ==
    IInv /\ CopiedInv /\ [Next]_vars => [Store!Next]_<<Placed, Sound, code_find_table>>
<1> SUFFICES ASSUME IInv, CopiedInv, [Next]_vars
             PROVE  [Store!Next]_<<Placed, Sound, code_find_table>>
  OBVIOUS
<1> USE DEF IInv, TypeInv, TypeOK
<1>1. ASSUME UNCHANGED <<reserved, memory, code_find_table>>,
             \A t \in Threads : Waiting(t)' <=> Waiting(t),
             \A t \in Threads : Waiting(t) => buffer'[t] = buffer[t]
      PROVE  UNCHANGED <<Placed, Sound, code_find_table>>
  BY <1>1, CopiedSame, StoreSame
<1>2. ASSUME NEW t \in Threads,
             BeginFlush(t) \/ BeginStub(t) \/ GenDispatcher(t) \/ BindTrampolines(t)
      PROVE  UNCHANGED <<Placed, Sound, code_find_table>>
  BY <1>1, <1>2 DEF BeginFlush, BeginStub, AllocCodeBuffer, GenDispatcher,
     BindTrampolines, Waiting, blockVars, historyVars
<1>3. ASSUME NEW t \in Threads, FlushCodeBuffer(t)
      PROVE  UNCHANGED <<Placed, Sound, code_find_table>>
  BY <1>3, FlushCopies, FlushReserves, StoreSame
<1>4. ASSUME NEW t \in Threads, CopyCode(t) PROVE Store!Next
  <2>1. Store!Place(CodeOf(buffer[t])) /\ CodeOf(buffer[t]) \in Placed'
    BY <1>4, CopyPlaces
  <2> QED BY <2>1 DEF Store!Next
<1>5. ASSUME NEW t \in Threads, FillCodeAddress(t), job[t].source \in Sources
      PROVE  Store!Next
  <2> DEFINE b == buffer[t]
             s == job[t].source
  <2>1. /\ pc[t] = "fill" /\ pc' = [pc EXCEPT ![t] = "idle"]
        /\ UNCHANGED <<reserved, buffer, memory>>
        /\ code_find_table' = [code_find_table EXCEPT ![t][s] = b.offset]
    BY <1>5 DEF FillCodeAddress, blockVars, historyVars
  <2>2. Copied' = Copied
    BY <2>1, CopiedSame DEF Waiting
  <2>3. b \in Copied /\ b.source = s
    BY <2>1 DEF CopiedInv, ResInv, Holds, Copied
  <2>4. UNCHANGED <<Placed, Sound>>
    BY <2>1, <2>2, StoreSame
  <2>5. code_find_table[t][s] = None \/ code_find_table[t][s] < b.offset
    BY <1>5, <2>1 DEF TableInv, Holds
  <2>6. CodeOf(b) \in Placed /\ CodeOf(b).source = s /\ CodeOf(b).offset = b.offset
    BY <2>3 DEF Placed, CodeOf
  <2>7. Store!Redirect(t, s, CodeOf(b))
    BY <2>1, <2>4, <2>5, <2>6 DEF Store!Redirect
  <2> QED BY <1>5, <2>6, <2>7 DEF Store!Next
<1>6. ASSUME NEW t \in Threads, FillCodeAddress(t), job[t].source \notin Sources
      PROVE  UNCHANGED <<Placed, Sound, code_find_table>>
  BY <1>1, <1>6 DEF FillCodeAddress, Waiting, blockVars, historyVars
<1>7. ASSUME Abort PROVE UNCHANGED <<Placed, Sound, code_find_table>>
  BY <1>1, <1>7 DEF Abort, Waiting, blockVars, threadVars, historyVars
<1>8. ASSUME NEW n \in Alignments, Align(n)
      PROVE  UNCHANGED <<Placed, Sound, code_find_table>>
  BY <1>1, <1>8 DEF Align, Waiting, threadVars, historyVars
<1>9. CASE UNCHANGED vars
  BY <1>1, <1>9 DEF vars, Waiting, blockVars, threadVars, historyVars
<1> QED
  BY <1>2, <1>3, <1>4, <1>5, <1>6, <1>7, <1>8, <1>9
  DEF Next, Step, FlushCodeBufferAssert, GenDispatcherAssert

(* Whatever the lengths of the blocks and the interleaving, threads are    *)
(* sent only to newer code that has been put in place, and code in place   *)
(* is damaged only by code of another length that it meets.                *)
THEOREM CacheImplementsStore == Spec => ImplementsCodeStore
<1>1. Init => Store!Init
  BY DEF Init, Store!Init, Placed, Sound, Copied
<1>2. IInv /\ CopiedInv /\ [Next]_vars => [Store!Next]_<<Placed, Sound, code_find_table>>
  BY StoreStep
<1> QED
  BY Inductive, CopiedInit, CopiedNext, <1>1, <1>2, PTL
  DEF Spec, ImplementsCodeStore, Store!Spec
=============================================================================
