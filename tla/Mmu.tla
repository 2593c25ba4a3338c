-------------------------------- MODULE Mmu --------------------------------
(***************************************************************************)
(* The guest's page table and its TLB (memory/mmu.h, memory/tlb.h), which  *)
(* no lock protects: one thread maps and unmaps pages, others look pages   *)
(* up, in C++ (GetPage) or in the code LookupTLB generates.  A step is one *)
(* access to shared memory.                                                *)
(*                                                                         *)
(* Pages are page numbers.  The bit ranges of an address that pick a final *)
(* table, an entry of it and an entry of the TLB are constants: MCMmu      *)
(* computes them as the code does.  The table has two levels, as it does   *)
(* for every address width below 60.                                       *)
(***************************************************************************)
EXTENDS Naturals

CONSTANTS
    Readers,      \* threads that look pages up
    Compiled,     \* those of them that run LookupTLB's code
    Pages,        \* page numbers
    Ptes,         \* page table entries but PTE{}
    NoPte,        \* PTE{}
    JunkPtes,     \* what an entry of a table from malloc can hold
    TableOf,      \* page -> index in pages_
    SlotOf,       \* page -> entry, its table included
    TlbIndexOf,   \* page -> entry of the TLB
    Serial,       \* is there one call at a time
    Fresh, Miss   \* never mapped; not in the TLB

ASSUME PagesAssumption == Pages \subseteq Nat /\ Compiled \subseteq Readers
ASSUME PtesAssumption ==
    /\ NoPte \notin Ptes /\ JunkPtes \subseteq Ptes \cup {NoPte}
    /\ Fresh \notin Ptes \cup {NoPte} /\ Miss \notin Ptes \cup {NoPte, Fresh}
    /\ Serial \in BOOLEAN

Slots   == {SlotOf[p] : p \in Pages}
Indices == {TlbIndexOf[p] : p \in Pages}
Entries == Ptes \cup {NoPte}

VARIABLES
    created,     \* the final tables that exist
    pte,         \* slot -> entry of the final tables
    tlb_page,    \* TLB: index -> page_index_
    tlb_pte,     \* TLB: index -> pte_
    mpc, mjob,   \* the mapper: where it is, what it maps
    todo,        \* the fields of the TLB entry it has still to store
    rpc, rpage, answer,   \* reader -> where it is, for what, its last result
    space        \* history: page -> its mapping, once the call has returned

mapperVars == <<created, pte, tlb_page, tlb_pte, mpc, mjob, todo, space>>
readerVars == <<rpc, rpage, answer>>
vars == <<mapperVars, readerVars>>

Init ==
    /\ created = {}
    /\ pte \in [Slots -> JunkPtes]
    /\ tlb_page = [i \in Indices |-> 0]
    /\ tlb_pte = [i \in Indices |-> NoPte]
    /\ mpc = "idle" /\ mjob = [page |-> 0, pte |-> NoPte, tag |-> 0]
    /\ todo = {}
    /\ rpc = [r \in Readers |-> "idle"]
    /\ rpage = [r \in Readers |-> 0]
    /\ answer = [r \in Readers |-> Miss]
    /\ space = [p \in Pages |-> Fresh]

----------------------------------------------------------------------------
(* A call begins, with the asserts and the indices of MapPage.             *)
Begin(p, v, tag) ==
    /\ mpc = "idle"
    /\ Serial => \A r \in Readers : rpc[r] = "idle"
    /\ mpc' = "pte"
    /\ mjob' = [page |-> p, pte |-> v, tag |-> tag]

(* Variants called ...Bug are the operators that follow with a mistake in  *)
(* them, each of which breaks a property (the mutants of PROJECT.json).    *)

(* The TLB entry is tagged with the address, not with the page.            *)
MapPageBug ==
    /\ \E p \in Pages, v \in Ptes :
          /\ Begin(p, v, p * 4096)
          /\ created' = created \cup {TableOf[p]}
    /\ UNCHANGED <<pte, tlb_page, tlb_pte, todo, space, readerVars>>

(* MapPage: the final table is allocated if there is none, and not cleared.*)
MapPage ==
    /\ \E p \in Pages, v \in Ptes :
          /\ Begin(p, v, p)
          /\ created' = created \cup {TableOf[p]}
    /\ UNCHANGED <<pte, tlb_page, tlb_pte, todo, space, readerVars>>

(* UnMapPage.  Without a final table it returns and changes nothing.       *)
UnMapPage ==
    /\ \E p \in Pages : TableOf[p] \in created /\ Begin(p, NoPte, 0)
    /\ UNCHANGED <<created, pte, tlb_page, tlb_pte, todo, space, readerVars>>

(* UnMapPage does not clear the TLB entry.                                 *)
StorePteBug ==
    /\ mpc = "pte"
    /\ pte' = [pte EXCEPT ![SlotOf[mjob.page]] = mjob.pte]
    /\ IF mjob.pte = NoPte
       THEN /\ mpc' = "idle" /\ todo' = {}
            /\ space' = [space EXCEPT ![mjob.page] = NoPte]
       ELSE mpc' = "tlb" /\ todo' = {"page", "pte"} /\ space' = space
    /\ UNCHANGED <<created, tlb_page, tlb_pte, mjob, readerVars>>

(* UnMapPage clears the TLB entry only.                                    *)
StorePteKeepBug ==
    /\ mpc = "pte"
    /\ pte' = IF mjob.pte = NoPte THEN pte ELSE [pte EXCEPT ![SlotOf[mjob.page]] = mjob.pte]
    /\ mpc' = "tlb" /\ todo' = {"page", "pte"}
    /\ UNCHANGED <<created, tlb_page, tlb_pte, mjob, space, readerVars>>

(* final_table[pte_index] is assigned, before the TLB.                     *)
StorePte ==
    /\ mpc = "pte"
    /\ pte' = [pte EXCEPT ![SlotOf[mjob.page]] = mjob.pte]
    /\ mpc' = "tlb" /\ todo' = {"page", "pte"}
    /\ UNCHANGED <<created, tlb_page, tlb_pte, mjob, space, readerVars>>

(* An entry that has the page already keeps its pte_.                      *)
StoreTlbBug ==
    /\ mpc = "tlb"
    /\ LET i == TlbIndexOf[mjob.page]
       IN  /\ tlb_page' = [tlb_page EXCEPT ![i] = mjob.tag]
           /\ tlb_pte' = IF tlb_page[i] = mjob.tag THEN tlb_pte
                         ELSE [tlb_pte EXCEPT ![i] = mjob.pte]
    /\ todo' = {} /\ mpc' = "idle"
    /\ space' = [space EXCEPT ![mjob.page] = mjob.pte]
    /\ UNCHANGED <<created, pte, mjob, readerVars>>

(* CachePage and ClearPageCache assign the two fields of a TLB entry, in   *)
(* an order that is the compiler's.  The call returns after the second.    *)
StoreTlb ==
    /\ mpc = "tlb"
    /\ LET i == TlbIndexOf[mjob.page]
       IN  \E field \in todo :
              /\ todo' = todo \ {field}
              /\ tlb_page' = IF field = "page"
                             THEN [tlb_page EXCEPT ![i] = mjob.tag] ELSE tlb_page
              /\ tlb_pte' = IF field = "pte"
                            THEN [tlb_pte EXCEPT ![i] = mjob.pte] ELSE tlb_pte
    /\ IF todo' = {}
       THEN mpc' = "idle" /\ space' = [space EXCEPT ![mjob.page] = mjob.pte]
       ELSE UNCHANGED <<mpc, space>>
    /\ UNCHANGED <<created, pte, mjob, readerVars>>

----------------------------------------------------------------------------
Answer(r, v) == /\ answer' = [answer EXCEPT ![r] = v]
                /\ rpc' = [rpc EXCEPT ![r] = "idle"]
Goto(r, label) == rpc' = [rpc EXCEPT ![r] = label] /\ UNCHANGED answer

(* TLB::GetPage and LookupTLB load page_index_ and compare it.  On a miss, *)
(* the generated code goes to the page lookup stub, GetPage to the tables. *)
LoadTlbPage(r) ==
    /\ rpc[r] = "idle"
    /\ Serial => mpc = "idle" /\ \A s \in Readers : rpc[s] = "idle"
    /\ \E p \in Pages :
          /\ rpage' = [rpage EXCEPT ![r] = p]
          /\ \/ tlb_page[TlbIndexOf[p]] = p /\ Goto(r, "hit")
             \/ tlb_page[TlbIndexOf[p]] # p /\ r \in Compiled /\ Answer(r, Miss)
             \/ tlb_page[TlbIndexOf[p]] # p /\ r \notin Compiled /\ Goto(r, "walk")
    /\ UNCHANGED mapperVars

(* A hit: pte_ is loaded.  GetPage takes PTE{} for a miss, the generated   *)
(* code for the answer.                                                    *)
LoadTlbPte(r) ==
    /\ rpc[r] = "hit"
    /\ LET v == tlb_pte[TlbIndexOf[rpage[r]]]
       IN  IF v # NoPte \/ r \in Compiled THEN Answer(r, v) ELSE Goto(r, "walk")
    /\ UNCHANGED <<mapperVars, rpage>>

(* The rest of GetPage.                                                    *)
Walk(r) ==
    /\ rpc[r] = "walk"
    /\ Answer(r, IF TableOf[rpage[r]] \in created THEN pte[SlotOf[rpage[r]]]
                                                  ELSE NoPte)
    /\ UNCHANGED <<mapperVars, rpage>>

----------------------------------------------------------------------------
Next == \/ MapPage \/ UnMapPage \/ StorePte \/ StoreTlb
        \/ \E r \in Readers : LoadTlbPage(r) \/ LoadTlbPte(r) \/ Walk(r)

Spec == Init /\ [][Next]_vars

----------------------------------------------------------------------------
TypeOK ==
    /\ created \subseteq {TableOf[p] : p \in Pages}
    /\ pte \in [Slots -> Entries]
    /\ tlb_page \in [Indices -> Pages \cup {0}]
    /\ tlb_pte \in [Indices -> Entries]
    /\ mpc \in {"idle", "pte", "tlb"}
    /\ mjob \in [page : Pages \cup {0}, pte : Entries, tag : Pages \cup {0}]
    /\ mpc # "idle" => mjob.page \in Pages
    /\ todo \subseteq {"page", "pte"}
    /\ mpc = "tlb" <=> todo # {}
    /\ rpc \in [Readers -> {"idle", "hit", "walk"}]
    /\ rpage \in [Readers -> Pages \cup {0}]
    /\ \A r \in Readers : rpc[r] # "idle" => rpage[r] \in Pages
    /\ answer \in [Readers -> Entries \cup {Miss}]
    /\ space \in [Pages -> Entries \cup {Fresh}]

(* Between two calls of MapPage and UnMapPage, what the TLB answers for a  *)
(* page is its last mapping, and what the page table has for it, unless    *)
(* the code gives another page the same entry of the page table.           *)
TlbCoherent ==
    mpc = "idle" => \A p \in Pages :
        LET i == TlbIndexOf[p]
        IN  tlb_page[i] = p /\ tlb_pte[i] # NoPte =>
                /\ TableOf[p] \in created /\ tlb_pte[i] = space[p]
                /\ \/ pte[SlotOf[p]] = space[p]
                   \/ \E q \in Pages \ {p} : SlotOf[q] = SlotOf[p]

(* Pages whose mappings a lookup of p can come upon: those that share its  *)
(* entry of the page table, and those that share its entry of the TLB if   *)
(* calls may overlap, as the two loads and the two stores of its fields    *)
(* then may.  An empty entry of the TLB passes for one of page 0.          *)
Sharers ==
    [p \in Pages |->
        {q \in Pages : \/ SlotOf[q] = SlotOf[p]
                       \/ TlbIndexOf[q] = TlbIndexOf[p] /\ (~Serial \/ p = 0)}]

(* The page table and its TLB implement the map from pages to entries: a   *)
(* lookup answers what its page, or one that shares an entry with it, is   *)
(* mapped to when the entry is loaded.                                     *)
Pending == IF mpc = "idle" THEN {} ELSE {<<mjob.page, mjob.pte>>}
AddrSpace == INSTANCE AddressSpace WITH pending <- Pending
ImplementsAddressSpace == AddrSpace!Spec
============================================================================
