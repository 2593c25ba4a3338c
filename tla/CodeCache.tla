----------------------------- MODULE CodeCache -----------------------------
(***************************************************************************)
(* The code block (block/host_code_block.h, .cpp) and the pipeline by      *)
(* which translator threads put code in it: Context::FlushCodeCache and    *)
(* the stub generators of dbi/arm64/dbi_context_arm64.cc.  One CodeBlock   *)
(* is shared by all the contexts; each context belongs to one thread and   *)
(* owns the find table it publishes in.  A step is what a thread does      *)
(* between two accesses to shared state.                                   *)
(*                                                                         *)
(* Addresses are word offsets from the start of the mapping, which the     *)
(* constructor asks for at address 0 (MAP_FIXED), so that GetBufferStart   *)
(* is 4 * offset_.  Machine code is abstracted to the offset of the buffer *)
(* it was generated for, which no other buffer has, and its length kept.   *)
(***************************************************************************)
EXTENDS Naturals

CONSTANTS
    Threads,          \* translator threads, one Context each
    Sources,          \* guest addresses of blocks (origin_code_start_)
    Lengths,          \* words of code a translated block can have
    StubLengths,      \* words of code a stub can have
    Alignments,       \* arguments of Align
    MaxSize,          \* UINT16_MAX: the largest size in words
    MaxBuffer,        \* UINT16_MAX: the length of buffers_
    DispatcherCount,  \* entries of the dispatcher table
    FirstOffset,      \* current_offset_ after the constructor
    JunkOffsets,      \* what an unset offset_ of buffers_ may hold
    MaxOffset,        \* bound on current_offset_, which the code never checks
    MaxAllocs,        \* bound on the number of allocations
    None              \* no value

ASSUME NoneAssumption == None \notin Nat
ASSUME SourcesAssumption == Sources \subseteq Nat \ {0}
ASSUME LengthsAssumption == Lengths \cup StubLengths \subseteq Nat \ {0}
ASSUME AlignmentsAssumption == Alignments \subseteq Nat \ {0}
ASSUME LimitsAssumption ==
    /\ MaxSize \in Nat
    /\ MaxBuffer \in Nat \ {0}
    /\ DispatcherCount \in 1..MaxBuffer
    /\ FirstOffset \in Nat
    /\ JunkOffsets \subseteq Nat /\ JunkOffsets # {}
    /\ MaxOffset \in Nat
    /\ MaxAllocs \in Nat

StubSource == 0       \* the stubs pass 0 as their source
StubCount  == 4       \* FlushCodeCache binds to the buffers 0, 1, 2 and 3
StubIds    == 0 .. StubCount - 1

Ids        == 0 .. MaxBuffer
BufferIds  == 0 .. MaxBuffer - 1
Words      == 0 .. MaxOffset + MaxSize
Sizes      == Lengths \cup StubLengths

VARIABLES
    current_buffer_id,  \* u16
    current_offset,     \* u32, in words
    buffers,            \* the array: id -> [source_, offset_]
    buffers_map,        \* source -> id
    dispatcher,         \* id -> word its branch goes to
    memory,             \* word -> offset of the buffer whose code it holds
    pc, job, buffer,    \* thread -> what it is doing, for whom, its Buffer copy
    bound,              \* thread -> trampoline addresses bound in its code
    code_find_table,    \* thread -> source -> word
    installed,          \* number of stubs installed
    aborted,            \* an assert has failed
    nalloc,             \* history: allocations so far
    reserved            \* history: the buffers that have been given an offset

blockVars  == <<current_buffer_id, current_offset, buffers, buffers_map,
                dispatcher, memory>>
threadVars == <<pc, job, buffer, bound>>
historyVars == <<nalloc, reserved>>
vars == <<blockVars, threadVars, code_find_table, installed, aborted, historyVars>>

Jobs == [source : Sources \cup {StubSource}, length : Sizes, bind : BOOLEAN]
Allocated == [id : Ids, source : Sources \cup {StubSource}]
Buffers == [id : Ids, source : Sources \cup {StubSource}, offset : Nat, size : Sizes]
IsStub(t) == job[t].source = StubSource

Init ==
    /\ current_buffer_id = 0
    /\ current_offset = FirstOffset
    /\ buffers \in [BufferIds -> [source : {None}, offset : JunkOffsets]]
    /\ buffers_map = [s \in Sources \cup {StubSource} |-> None]
    /\ dispatcher = [i \in 0 .. DispatcherCount - 1 |-> None]
    /\ memory = [w \in Words |-> None]
    /\ pc = [t \in Threads |-> "idle"]
    /\ job = [t \in Threads |-> None]
    /\ buffer = [t \in Threads |-> None]
    /\ bound = [t \in Threads |-> None]
    /\ code_find_table = [t \in Threads |-> [s \in Sources |-> None]]
    /\ installed = 0
    /\ aborted = FALSE
    /\ nalloc = 0
    /\ reserved = {}

----------------------------------------------------------------------------
(* Variants called ...Bug are the operators that follow with a mistake in  *)
(* them, each of which breaks a property (the mutants of PROJECT.json).    *)

(* The id is not counted up.                                               *)
AllocCodeBufferBug(t, s) ==
    /\ nalloc < MaxAllocs
    /\ buffers_map' = [buffers_map EXCEPT ![s] = current_buffer_id]
    /\ buffer' = [buffer EXCEPT ![t] = [id |-> current_buffer_id, source |-> s]]
    /\ nalloc' = nalloc + 1
    /\ UNCHANGED <<buffers, current_buffer_id>>

(* AllocCodeBuffer, under lock_.  Every caller copies the Buffer it        *)
(* returns, so buffers_[id] keeps the unset offset_ and size_ it had.  At  *)
(* id MaxBuffer the entry written is past the array.                       *)
AllocCodeBuffer(t, s) ==
    /\ nalloc < MaxAllocs
    /\ buffers' = IF current_buffer_id \in BufferIds
                  THEN [buffers EXCEPT ![current_buffer_id] =
                           [source |-> s, offset |-> @.offset]]
                  ELSE buffers
    /\ buffers_map' = [buffers_map EXCEPT ![s] = current_buffer_id]
    /\ buffer' = [buffer EXCEPT ![t] = [id |-> current_buffer_id, source |-> s]]
    /\ current_buffer_id' = IF current_buffer_id = MaxBuffer THEN 0
                            ELSE current_buffer_id + 1
    /\ nalloc' = nalloc + 1

(* A translated block: FlushCodeCache up to the end of AllocCodeBuffer.    *)
(* It needs the stubs, whose ids it takes to be 0 to 3.                    *)
BeginFlush(t) ==
    /\ ~aborted /\ pc[t] = "idle" /\ installed = StubCount
    /\ \E s \in Sources, n \in Lengths, bind \in BOOLEAN :
          /\ AllocCodeBuffer(t, s)
          /\ job' = [job EXCEPT ![t] = [source |-> s, length |-> n, bind |-> bind]]
    /\ pc' = [pc EXCEPT ![t] = "flush"]
    /\ UNCHANGED <<current_offset, dispatcher, memory, bound, code_find_table,
                   installed, aborted, reserved>>

(* A stub: DispatherStub, ContextSwitchStub, SpecStub or PageLookupStub,   *)
(* one after the other, before anything is translated.                     *)
BeginStub(t) ==
    /\ ~aborted /\ \A u \in Threads : pc[u] = "idle"
    /\ installed < StubCount
    /\ \E n \in StubLengths :
          /\ AllocCodeBuffer(t, StubSource)
          /\ job' = [job EXCEPT ![t] =
                        [source |-> StubSource, length |-> n, bind |-> FALSE]]
    /\ pc' = [pc EXCEPT ![t] = "flush"]
    /\ UNCHANGED <<current_offset, dispatcher, memory, bound, code_find_table,
                   installed, aborted, reserved>>

Abort == /\ aborted' = TRUE
         /\ UNCHANGED <<blockVars, threadVars, code_find_table, installed, historyVars>>

(* The offset is read, and the sum is not stored.                          *)
FlushCodeBufferBug(t) ==
    /\ ~aborted /\ pc[t] = "flush" /\ job[t].length <= MaxSize
    /\ current_offset + job[t].length <= MaxOffset
    /\ LET b == [id |-> buffer[t].id, source |-> buffer[t].source,
                 offset |-> current_offset + job[t].length, size |-> job[t].length]
       IN  /\ buffer' = [buffer EXCEPT ![t] = b]
           /\ reserved' = reserved \cup {b}
    /\ pc' = [pc EXCEPT ![t] = "dispatch"]
    /\ UNCHANGED <<current_buffer_id, current_offset, buffers, buffers_map,
                   dispatcher, memory, job, bound, code_find_table, installed,
                   aborted, nalloc>>

(* BaseBlock::FlushCodeBuffer: the offset_ given to the buffer is          *)
(* current_offset_ after the addition, the end of the words added.         *)
FlushCodeBuffer(t) ==
    /\ ~aborted /\ pc[t] = "flush"
    /\ job[t].length <= MaxSize
    /\ current_offset + job[t].length <= MaxOffset
    /\ current_offset' = current_offset + job[t].length
    /\ LET b == [id |-> buffer[t].id, source |-> buffer[t].source,
                 offset |-> current_offset', size |-> job[t].length]
       IN  /\ buffer' = [buffer EXCEPT ![t] = b]
           /\ reserved' = reserved \cup {b}
    /\ pc' = [pc EXCEPT ![t] = "dispatch"]
    /\ UNCHANGED <<current_buffer_id, buffers, buffers_map, dispatcher, memory,
                   job, bound, code_find_table, installed, aborted, nalloc>>

(* assert(size <= (UINT16_MAX << 2))                                       *)
FlushCodeBufferAssert(t) ==
    /\ ~aborted /\ pc[t] = "flush" /\ job[t].length > MaxSize
    /\ Abort

(* The assert on the id is missing.                                        *)
GenDispatcherBug(t) ==
    /\ ~aborted /\ pc[t] = "dispatch"
    /\ dispatcher' = [dispatcher EXCEPT ![buffer[t].id] = buffer[t].offset]
    /\ pc' = [pc EXCEPT ![t] = IF job[t].bind THEN "bind" ELSE "copy"]
    /\ UNCHANGED <<current_buffer_id, current_offset, buffers, buffers_map,
                   memory, job, buffer, bound, code_find_table, installed,
                   aborted, historyVars>>

(* A block without trampolines is published before it is copied.           *)
GenDispatcherEarlyBug(t) ==
    /\ ~aborted /\ pc[t] = "dispatch"
    /\ buffer[t].id < DispatcherCount
    /\ dispatcher' = [dispatcher EXCEPT ![buffer[t].id] = buffer[t].offset]
    /\ pc' = [pc EXCEPT ![t] = IF job[t].bind THEN "bind"
                              ELSE IF IsStub(t) THEN "copy" ELSE "fill"]
    /\ UNCHANGED <<current_buffer_id, current_offset, buffers, buffers_map,
                   memory, job, buffer, bound, code_find_table, installed,
                   aborted, historyVars>>

(* A64::CodeBlock::GenDispatcher, after the lock is released.              *)
GenDispatcher(t) ==
    /\ ~aborted /\ pc[t] = "dispatch"
    /\ buffer[t].id < DispatcherCount
    /\ dispatcher' = [dispatcher EXCEPT ![buffer[t].id] = buffer[t].offset]
    /\ pc' = [pc EXCEPT ![t] = IF job[t].bind THEN "bind" ELSE "copy"]
    /\ UNCHANGED <<current_buffer_id, current_offset, buffers, buffers_map,
                   memory, job, buffer, bound, code_find_table, installed,
                   aborted, historyVars>>

(* assert(buffer.id_ < dispatcher_count_)                                  *)
GenDispatcherAssert(t) ==
    /\ ~aborted /\ pc[t] = "dispatch" /\ buffer[t].id >= DispatcherCount
    /\ Abort

(* The four GetBufferStart(id) of FlushCodeCache, which read buffers_.     *)
BindTrampolines(t) ==
    /\ ~aborted /\ pc[t] = "bind"
    /\ bound' = [bound EXCEPT ![t] = [i \in StubIds |-> buffers[i].offset]]
    /\ pc' = [pc EXCEPT ![t] = "copy"]
    /\ UNCHANGED <<blockVars, job, buffer, code_find_table, installed, aborted,
                   historyVars>>

Extent(b) == b.offset .. b.offset + b.size - 1

(* One word too many is copied.                                            *)
CopyCodeBug(t) ==
    /\ ~aborted /\ pc[t] = "copy"
    /\ memory' = [w \in Words |->
                     IF w \in Extent(buffer[t]) \cup {buffer[t].offset + buffer[t].size}
                     THEN buffer[t].offset ELSE memory[w]]
    /\ installed' = IF IsStub(t) THEN installed + 1 ELSE installed
    /\ pc' = [pc EXCEPT ![t] = IF IsStub(t) THEN "idle" ELSE "fill"]
    /\ UNCHANGED <<current_buffer_id, current_offset, buffers, buffers_map,
                   dispatcher, job, buffer, bound, code_find_table, aborted,
                   historyVars>>

(* The last word is not copied.                                            *)
CopyCodeShortBug(t) ==
    /\ ~aborted /\ pc[t] = "copy"
    /\ memory' = [w \in Words |->
                     IF w \in Extent(buffer[t]) \ {buffer[t].offset + buffer[t].size - 1}
                     THEN buffer[t].offset ELSE memory[w]]
    /\ installed' = IF IsStub(t) THEN installed + 1 ELSE installed
    /\ pc' = [pc EXCEPT ![t] = IF IsStub(t) THEN "idle" ELSE "fill"]
    /\ UNCHANGED <<current_buffer_id, current_offset, buffers, buffers_map,
                   dispatcher, job, buffer, bound, code_find_table, aborted,
                   historyVars>>

(* Blocks are counted as stubs.                                            *)
CopyCodeCountBug(t) ==
    /\ ~aborted /\ pc[t] = "copy"
    /\ memory' = [w \in Words |->
                     IF w \in Extent(buffer[t]) THEN buffer[t].offset ELSE memory[w]]
    /\ installed' = installed + 1
    /\ pc' = [pc EXCEPT ![t] = IF IsStub(t) THEN "idle" ELSE "fill"]
    /\ UNCHANGED <<current_buffer_id, current_offset, buffers, buffers_map,
                   dispatcher, job, buffer, bound, code_find_table, aborted,
                   historyVars>>

(* memcpy from the assembler's buffer to GetBufferStart(buffer).           *)
CopyCode(t) ==
    /\ ~aborted /\ pc[t] = "copy"
    /\ memory' = [w \in Words |->
                     IF w \in Extent(buffer[t]) THEN buffer[t].offset ELSE memory[w]]
    /\ IF IsStub(t)
       THEN /\ installed' = installed + 1
            /\ pc' = [pc EXCEPT ![t] = "idle"]
       ELSE /\ installed' = installed
            /\ pc' = [pc EXCEPT ![t] = "fill"]
    /\ UNCHANGED <<current_buffer_id, current_offset, buffers, buffers_map,
                   dispatcher, job, buffer, bound, code_find_table, aborted,
                   historyVars>>

(* The address is GetBufferStart(id), from the entry of buffers_.          *)
FillCodeAddressBug(t) ==
    /\ ~aborted /\ pc[t] = "fill"
    /\ code_find_table' = [code_find_table EXCEPT
            ![t][job[t].source] = buffers[buffer[t].id].offset]
    /\ bound' = [bound EXCEPT ![t] = None]
    /\ pc' = [pc EXCEPT ![t] = "idle"]
    /\ UNCHANGED <<blockVars, job, buffer, installed, aborted, historyVars>>

(* FillCodeAddress in the thread's own table, then the cursor is reset.    *)
FillCodeAddress(t) ==
    /\ ~aborted /\ pc[t] = "fill"
    /\ code_find_table' =
          [code_find_table EXCEPT ![t][job[t].source] = buffer[t].offset]
    /\ bound' = [bound EXCEPT ![t] = None]
    /\ pc' = [pc EXCEPT ![t] = "idle"]
    /\ UNCHANGED <<blockVars, job, buffer, installed, aborted, historyVars>>

(* Align rounds down.                                                      *)
RoundUpBug(x, n) == (x \div n) * n

RoundUp(x, n) == ((x + n - 1) \div n) * n

Align(n) ==
    /\ ~aborted
    /\ RoundUp(current_offset, n) <= MaxOffset
    /\ current_offset' = RoundUp(current_offset, n)
    /\ UNCHANGED <<current_buffer_id, buffers, buffers_map, dispatcher, memory,
                   threadVars, code_find_table, installed, aborted, historyVars>>

----------------------------------------------------------------------------
Step(t) == \/ FlushCodeBuffer(t) \/ FlushCodeBufferAssert(t)
           \/ GenDispatcher(t) \/ GenDispatcherAssert(t)
           \/ BindTrampolines(t) \/ CopyCode(t) \/ FillCodeAddress(t)

Next == \/ \E t \in Threads : BeginFlush(t) \/ BeginStub(t) \/ Step(t)
        \/ \E n \in Alignments : Align(n)

Spec == Init /\ [][Next]_vars

----------------------------------------------------------------------------
TypeOK ==
    /\ current_buffer_id \in Ids
    /\ current_offset \in Nat
    /\ buffers \in [BufferIds -> [source : Sources \cup {StubSource, None},
                                  offset : JunkOffsets]]
    /\ buffers_map \in [Sources \cup {StubSource} -> Ids \cup {None}]
    /\ dispatcher \in [0 .. DispatcherCount - 1 -> Nat \cup {None}]
    /\ memory \in [Words -> Nat \cup {None}]
    /\ pc \in [Threads -> {"idle", "flush", "dispatch", "bind", "copy", "fill"}]
    /\ \A t \in Threads :
          /\ pc[t] # "idle" => job[t] \in Jobs
          /\ pc[t] = "flush" => buffer[t] \in Allocated
          /\ pc[t] \notin {"idle", "flush"} => buffer[t] \in Buffers
    /\ DOMAIN job = Threads /\ DOMAIN buffer = Threads /\ DOMAIN bound = Threads
    /\ code_find_table \in [Threads -> [Sources -> Nat \cup {None}]]
    /\ installed \in 0 .. StubCount
    /\ aborted \in BOOLEAN
    /\ nalloc \in Nat
    /\ reserved \subseteq Buffers

(* The words between the end of one reservation and the end of the next    *)
(* are counted once: of two buffers, one has its offset_ at least its own  *)
(* size past the other's, whatever the interleaving of AllocCodeBuffer,    *)
(* FlushCodeBuffer and Align.                                              *)
ReservationsDisjoint ==
    \A a, b \in reserved :
        a # b => a.offset + b.size <= b.offset \/ b.offset + a.size <= a.offset

(* No two live buffers share an id, up to the wrap of the u16 counter, and *)
(* so a dispatcher slot is never given to two buffers.                     *)
UniqueIds ==
    nalloc <= MaxBuffer + 1 => \A a, b \in reserved : a.id = b.id => a = b

(* A word that holds another buffer's code lies where two buffers of       *)
(* different lengths meet, and of the two the one that was given the later *)
(* offset is the shorter: the tail of the longer meets the head of the     *)
(* other, and the code copied last stays.  Blocks that never get shorter   *)
(* are never overwritten and overwrite none.                               *)
OverwrittenOnlyWhereLengthsDiffer ==
    \A b \in reserved : \A w \in Extent(b) :
        memory[w] \notin {None, b.offset} =>
            \E c \in reserved :
                /\ w \in Extent(c) /\ memory[w] = c.offset
                /\ \/ c.offset > b.offset /\ c.size < b.size
                   \/ b.offset > c.offset /\ b.size < c.size

(* What a find table or the dispatcher table sends a thread to is the      *)
(* first word of a reserved buffer: one of that source, or that id.        *)
EntriesReserved ==
    /\ \A t \in Threads, s \in Sources :
          code_find_table[t][s] # None =>
              \E b \in reserved : b.source = s /\ b.offset = code_find_table[t][s]
    /\ \A i \in 0 .. DispatcherCount - 1 :
          dispatcher[i] # None =>
              \E b \in reserved : b.id = i /\ b.offset = dispatcher[i]

(* A buffer whose id has no entry in buffers_ is never published: the      *)
(* assert of GenDispatcher stops the program first.                        *)
OutOfArrayNeverPublished ==
    \A b \in reserved : b.id \notin BufferIds =>
        \A t \in Threads, s \in Sources : code_find_table[t][s] # b.offset

(* Translating a block again moves the find table of the thread forward,   *)
(* never back to an older version of the code.                             *)
RedirectsForward ==
    [][\A t \in Threads, s \in Sources :
          code_find_table'[t][s] # code_find_table[t][s] =>
              \/ code_find_table[t][s] = None
              \/ code_find_table[t][s] < code_find_table'[t][s]]_vars

(* Code published in a find table stays what was copied there: a modified  *)
(* block is translated to new code, the old code is left alone             *)
(* (host_code_block.h, the comment on the dispatcher).                     *)
PublishedCodeIntact ==
    \A t \in Threads, s \in Sources, b \in reserved :
        code_find_table[t][s] = b.offset =>
            \A w \in Extent(b) : memory[w] = b.offset

(* What is left of this when the lengths of blocks differ, as they do: a   *)
(* thread that is sent to a buffer finds its code there, all of it copied, *)
(* but for words that lie in the extent of a buffer of another length.     *)
PublishedUpToOtherLengths ==
    \A t \in Threads, s \in Sources, b \in reserved :
        code_find_table[t][s] = b.offset =>
            \A w \in Extent(b) :
                \/ memory[w] = b.offset
                \/ \E c \in reserved : c.size # b.size /\ w \in Extent(c)
                                       /\ memory[w] = c.offset

(* The code that has been copied to its place, and the part of it every    *)
(* word of which still holds it.                                           *)
Copied == {b \in reserved : \A t \in Threads :
              pc[t] \in {"dispatch", "bind", "copy"} => buffer[t] # b}
Intact(b) == \A w \in Extent(b) : memory[w] = b.offset
CodeOf(b) == [offset |-> b.offset, source |-> b.source, size |-> b.size]
Placed == {CodeOf(b) : b \in Copied}
Sound  == {CodeOf(b) : b \in {c \in Copied : Intact(c)}}

(* The code cache implements the code store, for any lengths of the        *)
(* blocks: FlushCodeBuffer gives the words past the reservation's end,     *)
(* which meet another buffer's only if the lengths of the two differ.      *)
Store == INSTANCE CodeStore WITH
            placed <- Placed, intact <- Sound, redirect <- code_find_table
ImplementsCodeStore == Store!Spec

(* A block with trampolines is bound to where the four stubs are.          *)
TrampolinesReachStubs ==
    \A t \in Threads : bound[t] # None =>
        \A b \in reserved : b.id \in StubIds => bound[t][b.id] = b.offset
============================================================================
