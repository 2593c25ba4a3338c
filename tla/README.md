# TLA+ models of VirtualARM

VirtualARM runs ARM64 guest code on an ARM64 host by translating it block by
block (dynamic binary instrumentation).  The first-party code is about 8,000
lines of C++ under `src/app/src/main/native`; `externals/` (boost, vixl) is
vendored.  The repository has no tests and no design documents: what the code
is meant to do is taken from its names, comments and asserts.

Paths below are relative to `src/app/src/main/native`.

## Inventory

| Component | State | Operations | Talks to |
|---|---|---|---|
| **Code block** `block/host_code_block.*` | `current_buffer_id_` (u16), `current_offset_`, `buffers_[]`, `buffers_map_`, the dispatcher table and the code memory, `lock_` | `AllocCodeBuffer`, `FlushCodeBuffer`, `GenDispatcher`, `Align`, `GetBufferStart` | shared by the contexts of all threads |
| **Context, translation side** `dbi/arm64/dbi_context_arm64.*` | `cursor_` (source, labels), assembler buffer, the find table it owns | `SetCodeCachePosition`, `FlushCodeCache`, `DispatherStub`, `ContextSwitchStub`, `SpecStub`, `PageLookupStub` | code block, find table |
| **Context, generated side** (same files) | guest registers in `CPUContext`, host and guest stack, suspend flag | generated save/restore/dispatch sequences, `CallSvc`, `CheckSuspend`, `CheckReadSpec`, `LookupTLB` | trampolines in C++ |
| **Code find table** `block/code_find_table.h`, `base/hash_table.h` | `tables_`, `table_entries_`, per table `entries[]`, `lock_` | `FillCodeAddress`/`Add` (locked); the lookup `FindForwardTarget` generates (not locked) | filled by `FlushCodeCache`, searched by generated code |
| **MMU and TLB** `memory/mmu.h`, `memory/tlb.h`, `dbi/arm64/dbi_mmu_arm64.*` | page tables, TLB entries `{page_index_, pte_}` | `MapPage`, `UnMapPage`, `GetPage`, `ReadMemory`, `WriteMemory`; generated `LookupTLB` | generated code reads both without a lock |
| **Decoder** `asm/arm64/*` | static instruction table | decode tree, field encode and decode | translator |
| **Instruction rewriting** `dbi/arm64/dbi_jit_arm64.*` | visitor with a context | `MRS`, `SVC`, `ADR` and copied instructions; the branch functions are empty | context |
| **Register allocator** `dbi/arm64/context_new.*` | which guest register is in which host register | the guard that borrows x17; the allocator itself cannot run | generated code |
| **IR** `frontend/`, `backend/` | blocks, instructions, arguments | containers, empty visitors | - |
| **Disk cache, JNI, Java shell** | - | empty loader, a manual test | - |
| **Helpers** `base/*` | - | `RoundUp`, `BitRange`, `SignExtend`, endian types | everywhere |

What is hard here:

* *threads without locks*: ids and offsets of the code block are taken in two
  critical sections and published later; generated code searches the find
  table and the TLB while C++ code writes them;
* *borrowed registers*: what is generated around one guest instruction takes a
  register, the guest's stack and slots of `CPUContext`, nests, and must give
  everything back while signal handlers use the same stack;
* *copies*: `auto buffer = block->AllocCodeBuffer(...)` copies a buffer the
  block keeps, so the two drift apart;
* *two implementations of one function*: C++ and generated code each compute
  the table, the slot or the TLB entry of an address;
* *limits*: a u16 id, a 24 bit offset, tables that can fill up, an unbounded
  probe loop, bit ranges of negative width;
* *code that must not change under a thread that runs it*.

What makes each component correct: two buffers never share words or ids, and
code that a table leads to is complete and left alone (code block); a filled
address is found, with its last target, and the search ends inside the table
(find table); the TLB never answers other than the page table (MMU); guest
registers survive every generated sequence (context switch); decoding inverts
encoding (decoder); a guest register is in one place at a time (allocator).

## Modules

| Module | Models | Proofs |
|---|---|---|
| `CodeCache` | `BaseBlock`, `A64::CodeBlock` and the pipeline of `Context` that puts code in them, one step per access to shared state; the mapping to `CodeStore` | `CodeCache_proofs` |
| `CodeStore` | abstract: code in place is modified only by code of another length; redirects go to complete, newer code | |
| `FindTable` | `FillCodeAddress`, `Add` and the generated lookup, store by store and load by load | `FindTable_proofs` |
| `CodeMap` | abstract: a map from guest addresses to code, answered exactly, safely or not at all | |
| `Mmu` | `MapPage`, `UnMapPage`, `GetPage`, `LookupTLB`, field by field | `Mmu_proofs` |
| `AddressSpace` | abstract: a map from pages to page table entries | |
| `A64Word` | words, `fields_table.inl`, the instruction table and how it is parsed | `Decoder_proofs` |
| `Decoder` | `FastBranchDecoder::Decode`, `Disassemble`, the setters and `Assemble` of the instruction objects | `Decoder_proofs` |
| `LogicalImm` | `GetLogicalImmediate`, `IsImmLogical` and the object between them | `LogicalImm_proofs` |
| `GuestContext` | the instructions `Context` and `QuickContext` emit, executed one at a time by a small machine | |
| `GuestMachine` | abstract: an operation changes of the guest only what it is for | |
| `MCCodeCache`, `MCFindTable`, `MCMmu`, `MCDecoder`, `MCGuestContext` | instances for TLC; the index computations with the numbers of the code, the words; `MCDecoder` also runs `LogicalImm` beside `Decoder` | `MCDecoder_proofs`: what `LogicalImm_proofs` shows, for the behaviours of `MCDecoder` |

Operators named `...Bug` are variants of the operator that follows them, with
one mistake; PROJECT.json names the property each of them breaks.

### CodeCache

A thread goes through `idle -> flush -> dispatch -> (bind) -> copy -> fill`:
`AllocCodeBuffer` (critical section), `FlushCodeBuffer` (critical section),
`GenDispatcher` (after the lock), the four `GetBufferStart(id)` when the block
has trampolines, the `memcpy`, and `FillCodeAddress`.  Stubs take the same
steps but for the last, one at a time and before any block.  Addresses are
words from the start of the mapping, which the constructor asks for at address
0 with `MAP_FIXED`; since `start_ + offset_ << 2` is `(start_ + offset_) << 2`,
another start would not work.  Code is abstracted to the offset of the buffer it
was generated for, which no other has, with its length.

The model shows that `offset_` is the *end* of the words `FlushCodeBuffer`
adds.  What still holds, for any lengths, is `ReservationsDisjoint` (offsets are
a buffer's size apart), `UniqueIds`, `EntriesReserved` (tables lead to buffers
of the right source), `RedirectsForward`, `OverwrittenOnlyWhereLengthsDiffer`
(the code of two blocks overlaps only if the one further on is the shorter, in
whichever order they are copied) and `PublishedUpToOtherLengths`: code that a
table leads to is there, word for word, but for words that a block of another
length was copied over.  The abstract store says no more than that, and the
cache implements it.  `published_code_intact` finds code that a thread may be
running overwritten; only where all code has one length would published code
stay intact, which the code does nothing to bring about.

### FindTable

Writers hold `lock_` over `created -> key -> value`; a reader loads the table
pointer, then keys one after the other, then the value, in the middle of any
fill (the table of a context is a `SharedPtr` whose address is given to
generated code).  The hash functions are constants, one pair per side, and
nothing is assumed of them but that fills begin inside the table: an address
for which the two pairs agree is `Alike`, one for which the lookup begins at a
slot of the table is `Inside`.  The table
implements `CodeMap`, an atomic map, for every choice of the functions, and
promises three things according to the address: exact answers where it is
alike; where it is only inside, its last target or nothing, but no other; nothing
else, since the lookup then reads whatever lies behind the table
(`UninitKeys`).  A fill takes effect with its second store, a lookup answers at
its last load, and the value of a first fill that has not been stored yet counts
as nothing.

With the numbers of the code, of the addresses below 2^30 those are alike that
are below 2^18 and have none of the bits in which the masks of the two slots
differ (`find_table_as_built`).

### Mmu

One thread maps and unmaps (`MapPage` has no caller in the repository, so
nothing says more than one does); it stores the page table entry, then the two
fields of the TLB entry in either order.  Readers load `page_index_`, then
`pte_`, then walk.  `Compiled` readers follow `LookupTLB`, whose miss goes to
the page lookup stub (`Miss`).  `space` is history: the mapping of each page,
once the call that made it has returned.

A lookup may find the fields of a TLB entry half written: `page_index_` of its
own page and `pte_` of another.  `AddressSpace` says what it may then answer: what
its page, or one of its `Sharers`, is mapped to while it runs, where the call
under way (`pending`) counts.  A page shares with those that have its entry of
the page table and, if calls overlap, with those that have its entry of the
TLB.  A page that was never mapped (`Fresh`) answers anything, as a final table
comes from `malloc` and is not cleared; `JunkPtes` is what it may hold.  Memory
is sequentially consistent in the model: the reordering of the two stores of a
call is the compiler's, that of the loads of a reader is left out.

`all_page_bits` is a `BitRange` of negative width; the shift takes it modulo
64, so of a 48 bit address 12 bits of the page number are left, of addresses up
to 36 bits all of them.  `MCMmu` computes this.  The run with 48 bits has pages
that differ only in the bits that are lost, and so share an entry of the page
table; there, pages with one entry of the TLB always do.  That pages share an
entry of the TLB alone takes 36 bits.

### Decoder

A word in memory is decoded into an object, the object is edited through its
setters and assembled over the word, and the word may be decoded again.  A
word is the set of its bits; a row of the table is the set of its fixed bit
ranges, read with bit 31 first, as the table is written.  `Mirror` is what
`ParseMaskValuePair` makes of that.  `Tree` follows the nested switches; the
opcodes it does not set itself (exceptions, system) come from the mirrored
table.  `Operands` is the set of what `Disassemble` may leave in the object:
more than one value where the code shifts by 8192 (ADRP), and
`InstrA64BitField::Disassemble`, which ends without a return, may be taken for
a refusal.  `CompleteRows`, the rows every word of which is to be decoded, has
MOVZ and MOVK but not MOVN: `DecodeMovWide` reads the width from bit 30, which is
0 in every MOVN word, and so refuses the shifts by 32 and 48 of an X register
that MOVN has.  Logical immediates are represented by element size, ones and
rotation; that two encodings with the same three stand for the same 64 bit
value, and only those, is `KeyIsImm` of `LogicalImm`.

`LogicalImm` is parameterised by the register width, since 64 bit values are
beyond TLC: the computations use the width only through `LogX`, which is 4 in
the runs and anything from 2 in the proofs.  Copies of an element are a product,
as in the table `multipliers[]` of the encoder; the loop of the decoder, which
shifts and ors them together, gives the same since they do not overlap.

The object and its word are both in the model: `Assemble` writes the opcode over
the word, `sf` with it, and never writes `sf` (`instruction_aarch64.cc:546`);
`Disassemble` takes the width from `sf`.  So an X object that is read back from
what it assembled is a W object, and with N = 1 of a word the decoder refuses.
The properties are about N, `immr` and `imms`, which come back.

### GuestContext

`Sequence(op)` is the list of instructions one call of the context emits;
`Step` executes the next, `Signal` lets a handler write below `sp` between any
two, `SetSuspendFlag` is the other thread.  There are three kinds of context:
`ContextNoMemTrace` borrows x16 for each operation, `ContextWithMemTrace` has
the address of the `CPUContext` in x16 all the time, `QuickContext` borrows
x17.  The guest's registers are general registers, one vector register, `sp`,
the stack above it and the recorded pc; the `CPUContext` is a function from its
words.  `GuestMachine` is refined: between operations the guest is what the
machine holds (`View`), during one it is what it was (`seen`).

The instructions are those of a build without VIXL's assertions; with them the
generator stops at the first push.  An instruction faults, and the thread stops
there (mode `fault`), if it accesses memory through an `sp` that is not a
multiple of 16, or the `CPUContext` through a register that does not hold its
address.

What the model has because the code has it:

* `LoadContext` and `LoadContextPtr` push one register of 8 bytes and pop
  another (`dbi_context_arm64.cc:605` and `:612`, `context_new.cc:124` and
  `:129`).  The push leaves `sp` 8 bytes off, so the pop faults (finding 6).
  Everything a `ContextNoMemTrace` or a `QuickContext` wraps ends there.
* `GetTmpRegisters` (`dbi_context_arm64.h:110`) stops one register short, so
  that the last temporary is a `Register` made by its default constructor.
  VIXL encodes a load or store of one as a load or store of q0, 16 bytes, and a
  move to or from one as one of w0.  An offset that is neither a multiple of 16
  nor below 256 cannot be encoded for 16 bytes: `LoadStoreMacro` then moves it
  into its first scratch register, x16, which is the context's, and the access
  goes through what x16 holds now (`NoReg`; finding 5).  That is the case of
  TPIDR (824) and HOST_SP (840), not of TPIDRRO (832) or the forward target
  (880).  A store of 16 bytes to the slot of `sp` overwrites that of the pc too.
  `WrapContext<0>` stores through an array of no elements, which is undefined:
  mode `undefined`, or, as a build may well do, nothing.
* Nothing sets x16 to the context for `ContextWithMemTrace`, and nothing
  rewrites guest instructions that use x16, though a comment
  (`dbi_context_arm64.cc:630`) says all are.  The model assumes both (`Init`,
  `Free`).
* `BeforeDispatch` followed by `AfterDispatch` is modelled with memory tracing
  only.  Without it, `BeforeDispatch` stores x17 through the guest's x16, before
  the context is loaded; it has no caller.

So what comes to its end, and what `ImplementsGuest` is about, is: instructions
copied or constants moved in, with every kind of context; and with memory
tracing the reads of `TPIDR` into any register but x16 and of `TPIDRRO` into any,
the dispatch, and the suspend and access checks whose branch skips the stub.
The supervisor call and the stubs run until the load of HOST_SP at the latest.
`Recoverable` is about all of them, at every instruction up to the fault: each
value the guest had in a register is in it, in its slot of the `CPUContext` or in
the word pushed, whatever a signal handler does to the stack.

## Runs

| Run | Shows | Bounds, and why they are enough |
|---|---|---|
| `code_cache` | safety of allocation for any mix of lengths; ids that reach the end of `buffers_`; refinement of `CodeStore` | 2 threads, 2 sources, lengths 1-3 of which 3 fails the size assert, 7 entries and 8 allocations: the 4 stubs, 3 blocks, so that two are in flight while a third is published, and one without an entry; `Align(4)` in between |
| `published_code_intact` | **violation**, see findings | as `code_cache` |
| `trampolines` | **violation**, see findings | as `code_cache` |
| `find_table` | lock-free lookups during fills, table full, misses, lookups that begin at another slot or past the table; refinement of `CodeMap`; every lookup ends | 2 tables, 3 usable slots, homes that collide and overlap, 4 addresses: two alike, one read a slot early, one past the table; 2 writers, 2 values, 1 reader (readers do not affect each other); memory behind the table empty or with a key |
| `find_table_as_built` | **violation**: the index functions with the real numbers | 2 addresses, 2^12 and 2^18: the second is filled into table 0 and looked up in table 1 |
| `mmu` | calls one at a time: refinement of `AddressSpace`; what the TLB and the page table agree on | 48 bit addresses; pages 1, 4097 and 65537 with one entry of the page table, 1 and 65537 with one of the TLB too, and 2, in the same final table, with entries of its own; one C++ and one generated reader; tables from `malloc` hold anything |
| `mmu_concurrent` | refinement of `AddressSpace` while calls overlap at every access to memory | 36 bit addresses; pages 1 and 2 in one final table, 1 and 65537 in different ones and racing for one TLB entry; readers as `mmu` |
| `decoder` | the decode tree against the instruction table; operands come back through edit and assembly; encoding of immediates against decoding | 10,514 words: every row of the table, and 6 classes it has no row for, with all values of the nine bits the tree looks at or fields end at, and the rest 0 or 1; offsets at both ends, one beyond, and negative.  Immediates of 16 and 8 bit registers (`LogX` = 4): all 768 encodings, all 65,536 values; elements of 2, 4, 8 and 16 bits, of one and of several copies |
| `cond_branch` | **violation**, see findings | the words of the rows, fewer bits varied |
| `guest_context` | each operation that ends leaves what it should of the guest, and wherever one stops nothing is lost; refinement of `GuestMachine` | all three kinds; all 31 registers; any 2 operations in a row, so that the second runs on what the first left; a signal between any two instructions |
| `context_register` | **violation**, see findings | as `guest_context`, 1 operation |
| `stack_alignment` | **violation**, see findings | as `guest_context`, 1 operation |

Named bounds: `MaxOffset` (the code never checks `current_offset_`),
`MaxAllocs`, `MaxOps`; the other counters are finite by themselves.  Deadlock checking is
off where a bound or a failed assert ends the behaviour, where an instruction
is refused, and where emitted code has faulted.

Fairness.  `FindTable!FairSpec` alone has any: weak fairness of a thread's steps
within a fill or a lookup, which is straight-line code but for the probe loop that
`LookupEnds` is about.  Nothing forces a fill or a lookup to begin.

## Findings

1. `published_code_intact`: code in the cache is overwritten by later code,
   which the comment in `host_code_block.h:69-73` says must not happen.
2. `trampolines`: blocks are bound to the unset offsets of `buffers_[0..3]`.
3. `find_table_as_built`: from 2^18 on, generated code looks an address up in
   another table than `FillCodeAddress` puts it in; the slots differ too.
4. `cond_branch`: B.cond is told by bit 22, which belongs to its offset.
5. `context_register`: a load through the temporary that was never assigned
   overwrites the register with the context's address, and goes through it.
   `dbi_context_arm64.cc:630` says that register is kept.
6. `stack_alignment`: one register of 8 bytes is pushed and another popped;
   `macro-assembler-aarch64.h:809` asks for an `sp` aligned to 16.

Divergences seen while modelling that have no run of their own, and are in the
models as they are in the code:

* generated code that looks page 0 up takes an empty TLB entry for a hit
  (`dbi_context_arm64.cc:685`), and so answers what was last written to that entry
  for another page: the MMU runs leave page 0 out, the proofs do not (`Sharers`);
* data processing (register) falls through to the branches
  (`instruction_decode.cc:37`);
* the table is parsed back to front (`instruction_table.cc:19`), so that
  `Assemble` writes mirrored opcodes and exceptions and system instructions
  are looked up mirrored;
* ADD and SUB read their width from bit 30 (`instruction_aarch64.cc:301`) and
  `Assemble` drops their immediate;
* CBZ and CBNZ read their offset from 26 bits and write it to 19;
* MOVN takes its width from bit 30, which is 0 in all its words
  (`decode_data_process_imm.cc:47`);
* `InstrA64LogicalImm::Assemble` loses the width, as said above.

And in code that is not modelled (`dbi_jit_arm64`):

* the visitor extends the 19 bit offset of B.cond from 28 bits and the 26 bit
  offset of B from 21, the reverse of what the fields are; TBZ, 14 bits, from
  21; a 19 bit literal from 23;
* ADR is taken relative to the page, as ADRP, and ADRP shifts by `PAGE_SIZE`;
* `MRS` of `TPIDRRO_EL0` passes the code of the system register where the
  destination is expected, which has no general register.

## Proofs

All proofs hold for every value of the constants under the named assumptions
of the modules, which say of what type a constant is and relate bounds of one
array; none assumes a number of threads, how long blocks are, which index
functions a table has, or which pages share an entry.

* **CodeCache_proofs.**  `TypeCorrect` is inductive.  `ReservationsAreDisjoint`
  needs that every reserved offset is at most `current_offset` and that each
  reservation ends where its offset is.  `IdsAreUnique` needs that every id
  given out is below `current_buffer_id` until the counter has wrapped, and
  that a buffer in flight is not yet in `reserved`.
  `OverwrittenWhereLengthsDiffer` needs what `memory` can hold: a word holds the
  offset of some reserved buffer whose extent it is in; with disjoint
  reservations two extents meet only as stated.  `PublishedCodeIsThere` adds that
  a word of a published block holds its offset or that of one whose extent meets
  it.  `CacheImplementsStore` is the refinement of `CodeStore`: it adds that what
  a thread has published has a smaller offset than the buffer it is working on,
  from which a redirect goes to newer code.
* **FindTable_proofs.**  `ProbeChainsHold` rests on the table changing only at
  the slot `IsSlotFor` names, and keys never being removed.  `HitsAreOwn` and
  `ReaderStays` speak of the addresses that are `Inside`; the second needs that
  the last slot is never filled.  `FilledIsFound` speaks of those that are
  `Alike`, and adds that a reader never passes the slot of a key that was stored
  when it began.  `TableImplementsMap` needs `MapInv`: a stored key has the value
  of its last fill beside it, or none if that fill is still under way; so a hit
  answers what the map has, and, from `FilledIsFound`, a miss is one of the map.
  Of an address outside both, the step is one of the map since it promises
  nothing.  `FindTableTypes` is part of the same invariant.
* **Mmu_proofs.**  `TlbAgrees` strengthens `TlbCoherent` to what has been stored
  at each step of a call, of the TLB entry and, unless another page shares the
  entry, of the page table.  `TablesImplementMap` needs that everything stored
  anywhere is what some `Sharer` is mapped to, or is being mapped to; a reader
  that has compared a page loads the other field under that invariant, whatever
  happened in between.  Where calls do not overlap (`Serial`) the invariant is
  stronger, as only the page itself can be in its TLB entry.
* **Decoder_proofs** holds for every word of 32 bits: `Words` is any set of
  words, and the arguments of the setters are any of their types (`Offsets` any
  integers, but at least one, since the value that ADRP's shift leaves is taken
  from them; `Conds`, `Codes` and `Imms` of the widths of the parameters).  The
  invariant (`Inv`) is that

  * the object is one the decoder makes (`Objects`: one set per kind of
    instruction, with the operands each has and their ranges).  The setters
    stay in it (`EditedObjects`) because none changes the width of a register,
    which `BitFields` relates to `R` and `S`, and because the object of an
    addition, whose width and sign are the same bit, has no setter for either;
  * a decoded object has the class and opcode that the tree answers for the
    word, and where there is none the word is of no row of `CompleteRows`;
  * after `Assemble`, the word is what the object is assembled to.

  From the first follows `TypeCorrect`, from the second `AgreesWithTable` and
  `RowsDecoded`, which need of the tree only what it answers (`TreeAnswers`,
  `CompleteTree`: each row in terms of the fields the tree looks at), and from
  the third `AssembledReadsBack`, with one lemma per kind of object
  (`CondBranchBack`, ..., `LogicalBack`).  A logical immediate is read back
  because the leading bits of `imms` give its element size again (`Longest`).
  The first part of the module has what these rest on: a field is the sum of
  its bits and keeps its range (`SmallFields`, `LargeFields`), the rows of the
  table in terms of fields, what is written to a field is read back
  (`FieldsReadBack`) and leaves the fields beside it alone (`PutElsewhere`),
  powers of two.  `Bits` is defined by halving (`Bits32`, ..., `Bit`) and not
  as a sum over a set, of which nothing could be proved without induction.

* **LogicalImm_proofs** and **MCDecoder_proofs** hold for registers of 2^n bits,
  n at least 2 (`LogXAssumption`; the code has 6): all fields, all immediates.
  `ImmediatesKept`, `OnlyUnencodableRefused` and `KeysAreImmediates` are the three
  properties of `LogicalImm` for the behaviours of `MCDecoder` that are about
  immediates.  The inductive invariant (`Inv`,
  `PartsInv`) adds to the types that once the object is assembled its fields are
  those `IsImmLogical` answers of the immediate it still has, and that once it is
  refused `IsImmLogical` refuses that immediate; without it nothing relates the
  two after the step of `Assemble`.  The rest is arithmetic of any width:

  * *powers of two*: the provers know no law of them.  2^(n+1) = 2 * 2^n follows
    from the number of subsets of a finite set (`FS_SUBSET` of the library, the
    one fact about 2^n that is taken from there), everything else by induction
    over a set of numbers, for which `Induct` and `StrongInduct` need no formula
    as a parameter;
  * *the searches*: every number but 0 is an odd multiple of one power of two,
    which is what `LowestSetBit` finds (`LSBIs`, `LSBExists`); adding it to the
    number ends the run of ones there (`NextBit`); what the copies are
    multiplied by is 1 for one element, and 1 + 2^d times an odd number
    otherwise (`Geometric`, `CopiesIs`);
  * *shapes*: a `Run` has ones from bit i up to bit j in each element of 2^l
    bits, 1 <= i < j <= 2^l.  `EncodeRun`: `IsImmLogical` accepts each, and
    answers the fields of its shape.  `AcceptedIsRun`: it accepts nothing else.
    An odd value is the complement of a run; of a W register the value looked at
    is the lower half, doubled, and no element as wide as an X register is two
    equal halves (`WholeRun`, `RunHalves`);
  * *decoding*: the element that `GetLogicalImmediate` rotates is a run or the
    complement of one (`RotatedRun`, `RotatedComplement`), so that fields stand
    for the shape that their key names (`KeyRun`), or for all ones (`KeyOnes`).
    Since a run is found again by the encoder, equal immediates have equal keys
    (`SameKey`).

Only model-checked are `GuestContext`, with its refinement of `GuestMachine`, and
liveness (`LookupEnds`), which the prover does not do under fairness.

## Not modelled

The implementation counted with the vendored libraries (boost, VIXL under
`externals/`) is some 486,000 lines; the first-party code is about 8,500, and
most of it is declarations, field and instruction tables, empty visitors and
code without a caller.  Vendored code enters only where VIXL decides what is
emitted: how a default constructed `Register` is encoded, and which register
an offset that cannot be encoded is moved into.  In first-party code:

* `Get`, `Remove`, `ReadMemory`, `WriteMemory`, `GetBufferEnd`,
  `GetDispatcherOffset`, `SaveToDisk`: no caller.  `ReadMemory` as written
  always looks page 0 up, and `WriteMemory` stops at the assert of `GetPage`.
* The address arithmetic of a dispatcher slot (`GenDispatcher` writes through
  a pointer in the mapping that nothing sets) and its second branch.
* `PageLookupStub`: the bit field operands it passes to the assembler are
  outside the instruction's range, and its `page_not_found` is a TODO.
* Sequences with two or more temporaries (`FindForwardTarget`,
  `CheckPCAndDispatch`, `LookupFlatPageTable`) at the level of registers: the
  last temporary is the unassigned one, and their results go through it.
  What `FindForwardTarget` and `LookupTLB` compute is in `FindTable` and `Mmu`.
* `RestoreContextFull`, `RestoreContextCallerSaved` and what the stubs do from
  the load of HOST_SP on, the vector registers included: as built that load
  faults.  `PreDispatch` and `PostDispatch`, `GetSp`, `GetPc`: no caller.
* Labels (`cursor_`): `ContextSwitchStub` branches to a label that is never bound.
* `dbi_jit_arm64`: the dispatch of the visitor has no caller, and the functions
  that rewrite branches and literals are empty, so there is no rewritten branch
  to compare with the original.  `MRS`, `SVC`, `ADR` and copies are operations
  of `GuestContext`; `module_base` is always 0.
* Register allocator: it dereferences `context_` and `context_ptr_`, which
  nothing sets, and `AcquireTempX` aborts.
* Loads and stores: `DecodeLoadAndStore` has no caller, and several of its
  functions end without a return.
* `DefaultDecoder::Decode`, which never sets an opcode; `SetOperand`,
  `SetShift`, `SetS`, `SetR` and the computed results (`GetResult`) of the
  instruction objects.
* IR, disk cache, JNI, Java, vendored code.

## Plan

What could follow, in this order:

1. **Composition**: `FlushCodeCache` filling the find table that the same
   thread's generated code searches, and a lookup that misses translating; for
   this the two index computations have to agree (finding 3).
2. **Stubs**: the restoring side, once the temporaries are assigned and the
   pushes aligned (findings 5 and 6); the round trip through the host leaves the
   guest unchanged.
3. **Rewriting**: once the branch functions have bodies, a branch that is
   rewritten goes where the original went; then labels.
4. **Decoder**: results of the instruction objects, loads and stores.
