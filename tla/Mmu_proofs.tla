----------------------------- MODULE Mmu_proofs -----------------------------
(***************************************************************************)
(* Proofs about Mmu.  They hold for every set of pages, readers and        *)
(* entries, for every index the code may compute of a page, with and       *)
(* without concurrent lookups.                                             *)
(***************************************************************************)
EXTENDS Mmu, TLAPS

StepOf(r) == LoadTlbPage(r) \/ LoadTlbPte(r) \/ Walk(r)

(* Every variable keeps its type in every execution.                       *)
THEOREM TypeCorrect == Spec => []TypeOK
<1>1. Init => TypeOK
  BY PtesAssumption, PagesAssumption DEF Init, TypeOK, Entries, Slots
<1>2. TypeOK /\ [Next]_vars => TypeOK'
  <2> SUFFICES ASSUME TypeOK, [Next]_vars PROVE TypeOK'
    OBVIOUS
  <2> USE DEF TypeOK
  <2>1. CASE MapPage
    BY <2>1 DEF MapPage, Begin, readerVars, Entries
  <2>2. CASE UnMapPage
    BY <2>2 DEF UnMapPage, Begin, readerVars, Entries
  <2>3. CASE StorePte
    BY <2>3 DEF StorePte, readerVars, Entries, Slots
  <2>4. CASE StoreTlb
    <3>1. PICK field \in todo :
              /\ todo' = todo \ {field}
              /\ tlb_page' = IF field = "page"
                     THEN [tlb_page EXCEPT ![TlbIndexOf[mjob.page]] = mjob.tag]
                     ELSE tlb_page
              /\ tlb_pte' = IF field = "pte"
                     THEN [tlb_pte EXCEPT ![TlbIndexOf[mjob.page]] = mjob.pte]
                     ELSE tlb_pte
      BY <2>4 DEF StoreTlb
    <3>2. /\ tlb_page' \in [Indices -> Pages \cup {0}]
          /\ tlb_pte' \in [Indices -> Entries]
          /\ todo' \subseteq {"page", "pte"}
      BY <3>1
    <3>3. mpc' \in {"idle", "tlb"} /\ (mpc' = "tlb" <=> todo' # {})
      BY <2>4 DEF StoreTlb
    <3>4. space' \in [Pages -> Entries \cup {Fresh}]
      BY <2>4 DEF StoreTlb
    <3>. QED BY <2>4, <3>2, <3>3, <3>4 DEF StoreTlb, readerVars
  <2>5. ASSUME NEW r \in Readers, StepOf(r) PROVE TypeOK'
    <3>1. CASE LoadTlbPage(r)
      BY <3>1 DEF LoadTlbPage, mapperVars, Answer, Goto
    <3>2. CASE LoadTlbPte(r)
      BY <3>2 DEF LoadTlbPte, mapperVars, Answer, Goto, Indices
    <3>3. CASE Walk(r)
      BY <3>3 DEF Walk, mapperVars, Answer, Slots, Entries
    <3>. QED BY <2>5, <3>1, <3>2, <3>3 DEF StepOf
  <2>6. CASE UNCHANGED vars
    BY <2>6 DEF vars, mapperVars, readerVars
  <2>. QED BY <2>1, <2>2, <2>3, <2>4, <2>5, <2>6 DEF Next, StepOf
<1>. QED BY <1>1, <1>2, PTL DEF Spec

----------------------------------------------------------------------------
(* What a TLB entry that is not empty says of page p, as in TlbCoherent.   *)
Agrees(p) ==
    tlb_page[TlbIndexOf[p]] = p /\ (p # 0 \/ tlb_pte[TlbIndexOf[p]] # NoPte) =>
        /\ TableOf[p] \in created /\ tlb_pte[TlbIndexOf[p]] = space[p]
        /\ \/ pte[SlotOf[p]] = space[p]
           \/ \E q \in Pages \ {p} : SlotOf[q] = SlotOf[p]

(* What the steps of a call keep: the pages of other TLB entries agree;    *)
(* the page of the call has its table; its entry there, once stored, and   *)
(* the fields of its TLB entry, once stored, are those of the call.        *)
Coherence ==
    /\ mpc = "idle" => \A p \in Pages : Agrees(p)
    /\ mpc # "idle" =>
          /\ TableOf[mjob.page] \in created
          /\ mjob.tag = mjob.page \/ (mjob.tag = 0 /\ mjob.pte = NoPte)
          /\ \A p \in Pages : TlbIndexOf[p] # TlbIndexOf[mjob.page] => Agrees(p)
    /\ mpc = "tlb" =>
          /\ pte[SlotOf[mjob.page]] = mjob.pte
          /\ "page" \notin todo => tlb_page[TlbIndexOf[mjob.page]] = mjob.tag
          /\ "pte" \notin todo => tlb_pte[TlbIndexOf[mjob.page]] = mjob.pte

(* No step of a call or of a lookup makes the TLB answer for a page with   *)
(* anything but its last mapping.                                          *)
LEMMA CoherenceNext ==
    ASSUME TypeOK, Coherence, [Next]_vars
    PROVE  Coherence'
<1> USE DEF Coherence, TypeOK
<1>1. CASE MapPage
  BY <1>1 DEF MapPage, Begin, Agrees
<1>2. CASE UnMapPage
  BY <1>2 DEF UnMapPage, Begin, Agrees
<1>3. CASE StorePte
  <2> DEFINE q == mjob.page
  <2>1. q \in Pages /\ \A p \in Pages : SlotOf[p] # SlotOf[q] => pte'[SlotOf[p]] = pte[SlotOf[p]]
    BY <1>3 DEF StorePte, Slots
  <2>2. pte'[SlotOf[q]] = mjob.pte
    BY <1>3, <2>1 DEF StorePte, Slots
  <2>3. ASSUME NEW p \in Pages, TlbIndexOf[p] # TlbIndexOf[q] PROVE Agrees(p)'
    <3>1. p # q /\ Agrees(p)
      BY <1>3, <2>3 DEF StorePte
    <3>2. UNCHANGED <<tlb_page, tlb_pte, created, space>>
      BY <1>3 DEF StorePte
    <3>. QED BY <2>1, <3>1, <3>2 DEF Agrees
  <2>. QED BY <1>3, <2>2, <2>3 DEF StorePte
<1>4. CASE StoreTlb
  <2> DEFINE i == TlbIndexOf[mjob.page]
  <2>1. mpc = "tlb" /\ mjob' = mjob /\ pte' = pte /\ created' = created
        /\ mjob.page \in Pages /\ i \in Indices
    BY <1>4 DEF StoreTlb, Indices
  <2>2. PICK field \in todo :
            /\ todo' = todo \ {field}
            /\ tlb_page' = IF field = "page"
                           THEN [tlb_page EXCEPT ![i] = mjob.tag] ELSE tlb_page
            /\ tlb_pte' = IF field = "pte"
                          THEN [tlb_pte EXCEPT ![i] = mjob.pte] ELSE tlb_pte
    BY <1>4 DEF StoreTlb
  <2>3. /\ "page" \notin todo' => tlb_page'[i] = mjob.tag
        /\ "pte" \notin todo' => tlb_pte'[i] = mjob.pte
    BY <2>1, <2>2
  <2>4. \A p \in Pages : p # mjob.page => space'[p] = space[p]
    BY <1>4 DEF StoreTlb
  <2>5. ASSUME NEW p \in Pages, TlbIndexOf[p] # i PROVE Agrees(p)'
    <3>1. Agrees(p) /\ p # mjob.page
      BY <2>1, <2>5
    <3>2. tlb_page'[TlbIndexOf[p]] = tlb_page[TlbIndexOf[p]]
          /\ tlb_pte'[TlbIndexOf[p]] = tlb_pte[TlbIndexOf[p]]
      BY <2>2, <2>5
    <3>. QED BY <2>1, <2>4, <3>1, <3>2 DEF Agrees
  <2>6. CASE todo' = {}
    <3>1. mpc' = "idle" /\ space'[mjob.page] = mjob.pte
      BY <1>4, <2>1, <2>6 DEF StoreTlb
    <3>2. tlb_page'[i] = mjob.tag /\ tlb_pte'[i] = mjob.pte /\ pte'[SlotOf[mjob.page]] = mjob.pte
      BY <2>1, <2>3, <2>6
    <3>3. ASSUME NEW p \in Pages, TlbIndexOf[p] = i PROVE Agrees(p)'
      <4>1. CASE p = mjob.page
        BY <2>1, <3>1, <3>2, <4>1 DEF Agrees
      <4>2. CASE p # mjob.page
        BY <2>1, <3>2, <3>3, <4>2 DEF Agrees
      <4>. QED BY <4>1, <4>2
    <3>. QED BY <2>5, <3>1, <3>3
  <2>7. CASE todo' # {}
    <3>1. mpc' = mpc
      BY <1>4, <2>7 DEF StoreTlb
    <3>. QED BY <2>1, <2>3, <2>5, <3>1
  <2>. QED BY <2>6, <2>7
<1>5. ASSUME NEW r \in Readers, StepOf(r) PROVE Coherence'
  BY <1>5 DEF StepOf, LoadTlbPage, LoadTlbPte, Walk, mapperVars, Agrees
<1>6. CASE UNCHANGED vars
  BY <1>6 DEF vars, mapperVars, Agrees
<1>. QED BY <1>1, <1>2, <1>3, <1>4, <1>5, <1>6 DEF Next, StepOf

(* The TLB answers, for each page, its last mapping, and agrees with the   *)
(* tables but for pages that share entries of them, whenever MapPage and   *)
(* UnMapPage are not running; whatever the indices and whoever looks up.   *)
THEOREM TlbAgrees == Spec => []TlbCoherent
<1>1. Init => Coherence
  <2>1. ASSUME Init, NEW p \in Pages PROVE Agrees(p)
    BY <2>1 DEF Init, Agrees, Indices
  <2>. QED BY <2>1 DEF Init, Coherence
<1>2. TypeOK /\ Coherence /\ [Next]_vars => Coherence'
  BY CoherenceNext
<1>3. Coherence => TlbCoherent
  BY DEF Coherence, Agrees, TlbCoherent
<1>. QED BY <1>1, <1>2, <1>3, TypeCorrect, PTL DEF Spec

----------------------------------------------------------------------------
(* v is the last mapping of q, or the one that is being made.              *)
Has(q, v) == space[q] \in {Fresh, v} \/ (mpc # "idle" /\ mjob.page = q /\ mjob.pte = v)

(* At every moment each entry of the TLB and of the tables is a mapping of *)
(* one of the pages that share it.                                         *)
TlbHas(p) == \E q \in Pages : TlbIndexOf[q] = TlbIndexOf[p] /\ Has(q, tlb_pte[TlbIndexOf[p]])
PteHas(p) == \E q \in Pages : SlotOf[q] = SlotOf[p] /\ Has(q, pte[SlotOf[p]])

Current ==
    /\ \A p \in Pages : TlbHas(p) /\ PteHas(p)
    /\ \A p \in Pages : TableOf[p] \in created \/ space[p] = Fresh

(* When a call begins, what was a mapping of a page still is.              *)
LEMMA CurrentBegin ==
    ASSUME TypeOK, Current, mpc = "idle", UNCHANGED <<pte, tlb_pte, space>>,
           created \subseteq created'
    PROVE  Current'
<1>1. \A q \in Pages : \A v : Has(q, v) => Has(q, v)'
  BY DEF Has
<1>2. \A p \in Pages : TlbHas(p)' /\ PteHas(p)'
  BY <1>1 DEF Current, TlbHas, PteHas
<1>. QED BY <1>2 DEF Current

(* What a call stores is its own mapping.                                  *)
LEMMA CurrentNext ==
    ASSUME TypeOK, Coherence, Current, [Next]_vars
    PROVE  Current'
<1>1. CASE MapPage \/ UnMapPage
  BY <1>1, CurrentBegin DEF MapPage, UnMapPage, Begin
<1>2. CASE StorePte
  <2>1. /\ mjob.page \in Pages /\ SlotOf[mjob.page] \in Slots
        /\ mpc # "idle" /\ mpc' # "idle" /\ UNCHANGED <<mjob, space, tlb_pte, created>>
        /\ pte' = [pte EXCEPT ![SlotOf[mjob.page]] = mjob.pte]
    BY <1>2 DEF StorePte, TypeOK, Slots
  <2>2. \A q, v : Has(q, v)' <=> Has(q, v)
    BY <2>1 DEF Has
  <2>3. ASSUME NEW p \in Pages PROVE PteHas(p)'
    <3>1. CASE SlotOf[p] = SlotOf[mjob.page]
      <4>1. pte'[SlotOf[p]] = mjob.pte /\ Has(mjob.page, mjob.pte)
        BY <2>1, <3>1 DEF Has, TypeOK
      <4>. QED BY <2>1, <2>2, <3>1, <4>1 DEF PteHas
    <3>2. CASE SlotOf[p] # SlotOf[mjob.page]
      <4>1. pte'[SlotOf[p]] = pte[SlotOf[p]]
        BY <2>1, <3>2 DEF TypeOK, Slots
      <4>. QED BY <2>2, <4>1 DEF PteHas, Current
    <3>. QED BY <3>1, <3>2
  <2>4. \A p \in Pages : TlbHas(p)'
    BY <2>1, <2>2 DEF TlbHas, Current
  <2>. QED BY <2>1, <2>3, <2>4 DEF Current
<1>3. CASE StoreTlb
  <2> DEFINE i == TlbIndexOf[mjob.page]
             m == mjob.page
  <2>1. /\ mpc = "tlb" /\ m \in Pages /\ i \in Indices
        /\ UNCHANGED <<mjob, pte, created>>
        /\ pte[SlotOf[m]] = mjob.pte /\ TableOf[m] \in created
    BY <1>3 DEF StoreTlb, Coherence, TypeOK, Indices
  <2>2. PICK field \in todo :
            /\ todo' = todo \ {field}
            /\ tlb_pte' = IF field = "pte" THEN [tlb_pte EXCEPT ![i] = mjob.pte] ELSE tlb_pte
    BY <1>3 DEF StoreTlb
  <2>3. \A q \in Pages : \A v : q # m /\ Has(q, v) => Has(q, v)'
    BY <1>3, <2>1 DEF Has, StoreTlb, TypeOK
  <2>4. Has(m, mjob.pte)'
    <3>1. CASE todo' = {}
      BY <1>3, <2>1, <3>1 DEF StoreTlb, Has, TypeOK
    <3>2. CASE todo' # {}
      BY <1>3, <2>1, <3>2 DEF StoreTlb, Has
    <3>. QED BY <3>1, <3>2
  <2>5. todo' # {} => \A q \in Pages : \A v : Has(q, v) => Has(q, v)'
    BY <1>3, <2>1 DEF Has, StoreTlb
  <2>6. ASSUME NEW p \in Pages PROVE PteHas(p)'
    <3>1. CASE SlotOf[p] = SlotOf[m]
      BY <2>1, <2>4, <3>1 DEF PteHas
    <3>2. CASE SlotOf[p] # SlotOf[m]
      BY <2>1, <2>3, <3>2 DEF PteHas, Current
    <3>. QED BY <3>1, <3>2
  <2>7. ASSUME NEW p \in Pages PROVE TlbHas(p)'
    <3>1. CASE TlbIndexOf[p] # i
      <4>1. tlb_pte'[TlbIndexOf[p]] = tlb_pte[TlbIndexOf[p]]
        BY <2>2, <3>1 DEF TypeOK, Indices
      <4>. QED BY <2>3, <3>1, <4>1 DEF TlbHas, Current
    <3>2. CASE TlbIndexOf[p] = i /\ tlb_pte'[i] = mjob.pte
      BY <2>1, <2>4, <3>2 DEF TlbHas
    <3>3. CASE TlbIndexOf[p] = i /\ tlb_pte'[i] # mjob.pte
      <4>1. todo' # {} /\ tlb_pte' = tlb_pte
        <5>1. field # "pte"
          BY <2>1, <2>2, <3>3 DEF TypeOK
        <5>2. "pte" \in todo
          BY <2>1, <2>2, <3>3, <5>1 DEF Coherence
        <5>. QED BY <2>2, <5>1, <5>2
      <4>. QED BY <2>5, <4>1 DEF TlbHas, Current
    <3>. QED BY <3>1, <3>2, <3>3
  <2>8. \A p \in Pages : TableOf[p] \in created' \/ space'[p] = Fresh
    BY <1>3, <2>1 DEF StoreTlb, Current, TypeOK
  <2>. QED BY <2>6, <2>7, <2>8 DEF Current
<1>4. ASSUME UNCHANGED mapperVars PROVE Current'
  BY <1>4 DEF mapperVars, Current, TlbHas, PteHas, Has
<1>5. ASSUME NEW r \in Readers, StepOf(r) PROVE Current'
  BY <1>4, <1>5 DEF StepOf, LoadTlbPage, LoadTlbPte, Walk
<1>6. CASE UNCHANGED vars
  BY <1>4, <1>6 DEF vars
<1>. QED BY <1>1, <1>2, <1>3, <1>5, <1>6 DEF Next, StepOf

(* If calls are made one at a time, none is under way during a lookup, and *)
(* what a hit was on is still in the TLB.                                  *)
InOrder ==
    Serial => \A r \in Readers :
        /\ rpc[r] # "idle" => mpc = "idle"
        /\ rpc[r] = "hit" => tlb_page[TlbIndexOf[rpage[r]]] = rpage[r]

(* Lookups leave the TLB alone, and keep calls waiting.                    *)
LEMMA InOrderNext ==
    ASSUME TypeOK, InOrder, [Next]_vars
    PROVE  InOrder'
<1> SUFFICES ASSUME Serial PROVE InOrder'
  BY DEF InOrder
<1> USE DEF TypeOK, InOrder
<1>1. CASE MapPage \/ UnMapPage
  BY <1>1 DEF MapPage, UnMapPage, Begin, readerVars
<1>2. CASE StorePte \/ StoreTlb
  <2>1. \A r \in Readers : rpc[r] = "idle"
    BY <1>2 DEF StorePte, StoreTlb
  <2>. QED BY <1>2, <2>1 DEF StorePte, StoreTlb, readerVars
<1>3. ASSUME NEW r \in Readers, StepOf(r) PROVE InOrder'
  BY <1>3 DEF StepOf, LoadTlbPage, LoadTlbPte, Walk, Answer, Goto, mapperVars
<1>4. CASE UNCHANGED vars
  BY <1>4 DEF vars, mapperVars, readerVars
<1>. QED BY <1>1, <1>2, <1>3, <1>4 DEF Next, StepOf

(* What a hit loads is a mapping of a page that shares its entry, and of   *)
(* the page itself if calls are made one at a time and it is not page 0.   *)
LEMMA HitHas ==
    ASSUME TypeOK, Coherence, Current, InOrder, NEW r \in Readers, rpc[r] = "hit"
    PROVE  \E q \in Sharers[rpage[r]] : Has(q, tlb_pte[TlbIndexOf[rpage[r]]])
<1> DEFINE p == rpage[r]
<1>1. p \in Pages
  BY DEF TypeOK
<1>2. CASE ~Serial \/ p = 0
  BY <1>1, <1>2 DEF Current, TlbHas, Sharers
<1>3. CASE Serial /\ p # 0
  <2>1. mpc = "idle" /\ tlb_page[TlbIndexOf[p]] = p
    BY <1>3 DEF InOrder
  <2>2. tlb_pte[TlbIndexOf[p]] = space[p]
    BY <1>1, <1>3, <2>1 DEF Coherence, Agrees
  <2>. QED BY <1>1, <2>2 DEF Has, Sharers
<1>. QED BY <1>2, <1>3

(* Each step is one of the address space, or none.                         *)
spaceVars == <<space, Pending, rpage, answer>>

LEMMA StepMaps ==
    ASSUME TypeOK, Coherence, Current, InOrder, [Next]_vars
    PROVE  [AddrSpace!Next]_spaceVars
<1> USE DEF TypeOK
<1>1. ASSUME NEW p \in Pages, NEW v \in Ptes \cup {NoPte}, NEW tag, Begin(p, v, tag),
             UNCHANGED <<space, readerVars>>
      PROVE  AddrSpace!Next
  <2>1. Pending = {} /\ Pending' = {<<p, v>>}
    BY <1>1 DEF Begin, Pending
  <2>2. AddrSpace!Begin(p, v)
    BY <1>1, <2>1 DEF AddrSpace!Begin, readerVars
  <2>. QED BY <2>2 DEF AddrSpace!Next
<1>2. CASE MapPage \/ UnMapPage
  BY <1>1, <1>2 DEF MapPage, UnMapPage
<1>3. CASE StorePte
  BY <1>3 DEF StorePte, Pending, readerVars, spaceVars
<1>4. CASE StoreTlb
  <2>1. mpc = "tlb" /\ mjob.page \in Pages /\ mjob.pte \in Ptes \cup {NoPte}
        /\ UNCHANGED <<mjob, rpage, answer>>
    BY <1>4 DEF StoreTlb, Entries, readerVars
  <2>2. CASE todo' # {}
    BY <1>4, <2>1, <2>2 DEF StoreTlb, Pending, spaceVars
  <2>3. CASE todo' = {}
    <3>1. mpc' = "idle" /\ space' = [space EXCEPT ![mjob.page] = mjob.pte]
      BY <1>4, <2>3 DEF StoreTlb
    <3>2. Pending = {<<mjob.page, mjob.pte>>} /\ Pending' = {}
      BY <2>1, <3>1 DEF Pending
    <3>3. AddrSpace!End
      BY <2>1, <3>1, <3>2 DEF AddrSpace!End
    <3>. QED BY <3>3 DEF AddrSpace!Next
  <2>. QED BY <2>2, <2>3
<1>5. ASSUME NEW r \in Readers, StepOf(r) PROVE [AddrSpace!Next]_spaceVars
  <2> DEFINE p == rpage[r]
  <2>1. UNCHANGED <<space, Pending>>
    BY <1>5 DEF StepOf, LoadTlbPage, LoadTlbPte, Walk, mapperVars, Pending
  <2>2. CASE LoadTlbPage(r)
    <3>1. PICK q \in Pages : rpage' = [rpage EXCEPT ![r] = q]
      BY <2>2 DEF LoadTlbPage
    <3>2. answer' = answer \/ answer' = [answer EXCEPT ![r] = Miss]
      BY <2>2 DEF LoadTlbPage, Answer, Goto
    <3>3. AddrSpace!Ask(r, q)
      BY <2>1, <3>1, <3>2 DEF AddrSpace!Ask
    <3>. QED BY <3>3 DEF AddrSpace!Next
  <2>3. ASSUME NEW v \in Ptes \cup {NoPte}, NEW q \in Sharers[p], Has(q, v),
               rpage' = rpage, rpc[r] # "idle", answer' = [answer EXCEPT ![r] = v]
        PROVE  [AddrSpace!Next]_spaceVars
    <3>1. AddrSpace!Has(q, v)
      BY <2>3 DEF AddrSpace!Has, Has, Pending
    <3>2. AddrSpace!Reply(r)
      BY <2>1, <2>3, <3>1 DEF AddrSpace!Reply
    <3>. QED BY <3>2 DEF AddrSpace!Next
  <2>4. CASE LoadTlbPte(r)
    <3> DEFINE v == tlb_pte[TlbIndexOf[p]]
    <3>1. p \in Pages /\ v \in Ptes \cup {NoPte} /\ rpage' = rpage
      BY <2>4 DEF LoadTlbPte, Indices, Entries
    <3>2. PICK q \in Sharers[p] : Has(q, v)
      BY <2>4, HitHas DEF LoadTlbPte
    <3>3. answer' = answer \/ answer' = [answer EXCEPT ![r] = v]
      BY <2>4 DEF LoadTlbPte, Answer, Goto
    <3>4. CASE answer' = answer
      BY <2>1, <3>1, <3>4 DEF spaceVars
    <3>5. CASE answer' = [answer EXCEPT ![r] = v]
      BY <2>3, <2>4, <3>1, <3>2, <3>5 DEF LoadTlbPte
    <3>. QED BY <3>3, <3>4, <3>5
  <2>5. CASE Walk(r)
    <3>1. p \in Pages /\ p \in Sharers[p] /\ pte[SlotOf[p]] \in Ptes \cup {NoPte}
      BY <2>5 DEF Walk, Slots, Entries, Sharers
    <3>2. CASE TableOf[p] \in created
      <4>1. PICK q \in Pages : SlotOf[q] = SlotOf[p] /\ Has(q, pte[SlotOf[p]])
        BY <3>1 DEF Current, PteHas
      <4>2. q \in Sharers[p]
        BY <3>1, <4>1 DEF Sharers
      <4>. QED BY <2>3, <2>5, <3>1, <3>2, <4>1, <4>2 DEF Walk, Answer
    <3>3. CASE TableOf[p] \notin created
      <4>1. Has(p, NoPte)
        BY <3>1, <3>3 DEF Current, Has
      <4>. QED BY <2>3, <2>5, <3>1, <3>3, <4>1 DEF Walk, Answer
    <3>. QED BY <3>2, <3>3
  <2>. QED BY <1>5, <2>2, <2>4, <2>5 DEF StepOf
<1>6. CASE UNCHANGED vars
  BY <1>6 DEF vars, mapperVars, readerVars, spaceVars, Pending
<1>. QED BY <1>2, <1>3, <1>4, <1>5, <1>6 DEF Next, StepOf

(* The page tables and the TLB, without a lock, implement the map from     *)
(* pages to entries, exactly for pages that share no entry; a lookup of    *)
(* another page can answer for one of those that share an entry with it.   *)
THEOREM TablesImplementMap == Spec => ImplementsAddressSpace
<1>1. Init => Coherence /\ Current /\ InOrder /\ AddrSpace!Init
  <2> SUFFICES ASSUME Init PROVE Coherence /\ Current /\ InOrder /\ AddrSpace!Init
    OBVIOUS
  <2>1. \A p \in Pages : Agrees(p)
    BY DEF Init, Agrees, Indices
  <2>2. \A p \in Pages : \A v : Has(p, v)
    BY DEF Init, Has
  <2>3. Current
    BY <2>2 DEF Init, Current, TlbHas, PteHas
  <2>. QED BY <2>1, <2>3 DEF Init, Coherence, InOrder, AddrSpace!Init, Pending
<1>2. TypeOK /\ Coherence /\ Current /\ InOrder /\ [Next]_vars
      => Coherence' /\ Current' /\ InOrder'
  BY CoherenceNext, CurrentNext, InOrderNext
<1>3. TypeOK /\ Coherence /\ Current /\ InOrder /\ [Next]_vars
      => [AddrSpace!Next]_<<space, Pending, rpage, answer>>
  BY StepMaps DEF spaceVars
<1>. QED BY <1>1, <1>2, <1>3, TypeCorrect, PTL DEF Spec, ImplementsAddressSpace, AddrSpace!Spec
=============================================================================
