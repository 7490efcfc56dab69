---------------------------- MODULE MemoryProofs ----------------------------
(***************************************************************************)
(* Proofs about GuestMemory, for address spaces and page sizes of any      *)
(* size, any number of VMs and entries, and with malloc failing or not;    *)
(* then about Mmio and Boot, whose steps are steps of it or leave it as it *)
(* is, so that both rest on its invariant, MemInv.                         *)
(***************************************************************************)
EXTENDS Mmio, Boot, TLAPS

(***************************************************************************)
(* Every usable entry is backed by the slot whose number it holds, no two  *)
(* usable entries have one slot, no two slots one number, and slots neither*)
(* wrap nor share an address.                                              *)
(***************************************************************************)
SlotOf(e) == [slot |-> e.slot, phys |-> e.phys, size |-> e.size]

Backed ==
  \A v \in Vm : \A i \in DOMAIN Entries(v) :
    Entries(v)[i].type = "usable" => SlotOf(Entries(v)[i]) \in slots[v]

OwnSlot ==
  \A v \in Vm : \A i, j \in DOMAIN Entries(v) :
    /\ Entries(v)[i].type = "usable" /\ Entries(v)[j].type = "usable"
    /\ Entries(v)[i].slot = Entries(v)[j].slot
    => i = j

SlotsApart ==
  \A v \in Vm :
    /\ \A r \in slots[v] : r.phys + r.size < Space
    /\ \A r, s \in slots[v] : r # s =>
         /\ r.slot # s.slot
         /\ r.phys + r.size <= s.phys \/ s.phys + s.size <= r.phys

MemInv == TypeOK /\ FoundOnce /\ Backed /\ OwnSlot /\ SlotsApart
-----------------------------------------------------------------------------
LEMMA AddType ==
  ASSUME NEW a \in Addr, NEW b \in Addr
  PROVE  Add(a, b) \in Addr
BY MemoryAssumption DEF Add, Addr

\* A range that check_addr_available passes shares no address with an entry.
LEMMA AvailableIsApart ==
  ASSUME NEW v \in Vm, NEW phys \in Addr, NEW size \in Addr,
         Available(v, phys, size),
         NEW e, e.phys = phys, e.size = size,
         NEW i \in DOMAIN Entries(v),
         Entries(v)[i] \in EntryT,
         NEW a \in Addr
  PROVE  ~ (Holds(Entries(v)[i], a) /\ Holds(e, a))
<1> DEFINE f == Entries(v)[i]
<1>1. /\ f.phys \in Addr /\ f.size \in Addr
  BY DEF EntryT
<1>2. Add(f.phys, f.size) \in Addr /\ Add(phys, size) \in Addr
  BY <1>1, AddType
<1>3. /\ ~(f.phys <= phys /\ Add(f.phys, f.size) > phys)
      /\ ~(Add(phys, size) >= f.phys /\ phys < f.phys)
  BY DEF Available, StartsIn, ReachesFrom, Holds
<1>4. ASSUME f.phys <= a, Add(f.phys, f.size) > a, phys <= a, Add(phys, size) > a
      PROVE  FALSE
  BY <1>1, <1>2, <1>3, <1>4, MemoryAssumption DEF Addr
<1> QED
  BY <1>4 DEF Holds

LEMMA InitMemInv == MemoryInit => MemInv
BY MemoryAssumption
   DEF MemoryInit, MemInv, TypeOK, FoundOnce, Backed, OwnSlot, SlotsApart,
       Entries, ReplyT, Refused
-----------------------------------------------------------------------------
(***************************************************************************)
(* The list after linked_list_add: every VM's list is what it was, but for *)
(* v's, which may have the new entry at its end.                           *)
(***************************************************************************)
Grown(v, e) ==
  /\ \A w \in Vm \ {v} : memory'[w] = memory[w]
  /\ memory'[v].entries \in {memory[v].entries, Append(memory[v].entries, e)}

LEMMA AddEntryGrows ==
  ASSUME TypeOK, NEW v \in Vm, NEW e \in EntryT, NEW n \in Nat,
         AddEntry(v, e, n)
  PROVE  /\ memory' \in [Vm -> [entries : Seq(EntryT), next_slot : Nat]]
         /\ memory'[v].next_slot = n
         /\ Grown(v, e)
<1>1. memory \in [Vm -> [entries : Seq(EntryT), next_slot : Nat]]
  BY DEF TypeOK
<1>2. PICK stored \in BOOLEAN :
        memory' = [memory EXCEPT ![v] =
          [entries |-> IF stored THEN Append(Entries(v), e) ELSE Entries(v),
           next_slot |-> n]]
  BY DEF AddEntry
<1> DEFINE list == IF stored THEN Append(Entries(v), e) ELSE Entries(v)
<1>3. list \in Seq(EntryT)
  <2>1. Entries(v) \in Seq(EntryT)
    BY <1>1 DEF Entries
  <2> QED
    BY <2>1
<1>4. list \in {memory[v].entries, Append(memory[v].entries, e)}
  BY DEF Entries
<1>5. memory' = [memory EXCEPT ![v] = [entries |-> list, next_slot |-> n]]
  BY <1>2
<1> HIDE DEF list
<1> QED
  BY <1>1, <1>3, <1>4, <1>5 DEF Grown

(***************************************************************************)
(* An entry of a grown list is an old one at its old place or the new one  *)
(* at the end.                                                             *)
(***************************************************************************)
LEMMA GrownEntries ==
  ASSUME TypeOK, NEW v \in Vm, NEW e \in EntryT, Grown(v, e),
         NEW w \in Vm, NEW i \in DOMAIN memory'[w].entries
  PROVE  \/ i \in DOMAIN Entries(w) /\ memory'[w].entries[i] = Entries(w)[i]
         \/ /\ w = v /\ i = Len(Entries(v)) + 1 /\ memory'[w].entries[i] = e
<1>1. Entries(w) \in Seq(EntryT)
  BY DEF TypeOK, Entries
<1>2. CASE memory'[w].entries = Entries(w)
  BY <1>2
<1>3. CASE w = v /\ memory'[w].entries = Append(Entries(w), e)
  BY <1>1, <1>3
<1> QED
  BY <1>2, <1>3 DEF Grown, Entries

LEMMA EntryTypes ==
  ASSUME TypeOK, NEW v \in Vm
  PROVE  /\ Entries(v) \in Seq(EntryT)
         /\ \A k \in DOMAIN Entries(v) : Entries(v)[k] \in EntryT
         /\ memory[v].next_slot \in Nat
         /\ slots[v] \in SUBSET SlotT
<1>1. memory[v] \in [entries : Seq(EntryT), next_slot : Nat]
  BY DEF TypeOK
<1>2. Entries(v) \in Seq(EntryT) /\ memory[v].next_slot \in Nat
  BY <1>1 DEF Entries
<1>3. \A k \in DOMAIN Entries(v) : Entries(v)[k] \in EntryT
  BY <1>2
<1>4. slots[v] \in SUBSET SlotT
  BY DEF TypeOK
<1> QED
  BY <1>2, <1>3, <1>4

\* FoundOnce survives an entry for a range that was available.
LEMMA GrownFoundOnce ==
  ASSUME MemInv, NEW v \in Vm, NEW e \in EntryT, Grown(v, e),
         Available(v, e.phys, e.size)
  PROVE  FoundOnce'
<1> SUFFICES ASSUME NEW w \in Vm, NEW i \in DOMAIN memory'[w].entries,
                    NEW j \in DOMAIN memory'[w].entries, NEW a \in Addr,
                    Holds(memory'[w].entries[i], a), Holds(memory'[w].entries[j], a)
             PROVE  i = j
  BY DEF FoundOnce, Entries, Holds
<1>1. /\ TypeOK /\ FoundOnce
      /\ \A k \in DOMAIN Entries(v) : Entries(v)[k] \in EntryT
      /\ e.phys \in Addr /\ e.size \in Addr
  <2>1. TypeOK /\ FoundOnce
    BY DEF MemInv
  <2>2. e.phys \in Addr /\ e.size \in Addr
    BY DEF EntryT
  <2> QED
    BY <2>1, <2>2, EntryTypes
<1>2. \A k \in DOMAIN Entries(v) : ~ (Holds(Entries(v)[k], a) /\ Holds(e, a))
  BY <1>1, AvailableIsApart
<1>3. \/ i \in DOMAIN Entries(w) /\ memory'[w].entries[i] = Entries(w)[i]
      \/ /\ w = v /\ i = Len(Entries(v)) + 1 /\ memory'[w].entries[i] = e
  BY <1>1, GrownEntries
<1>4. \/ j \in DOMAIN Entries(w) /\ memory'[w].entries[j] = Entries(w)[j]
      \/ /\ w = v /\ j = Len(Entries(v)) + 1 /\ memory'[w].entries[j] = e
  BY <1>1, GrownEntries
<1>5. ASSUME i \in DOMAIN Entries(w), memory'[w].entries[i] = Entries(w)[i],
             j \in DOMAIN Entries(w), memory'[w].entries[j] = Entries(w)[j]
      PROVE  i = j
  <2>1. Holds(Entries(w)[i], a) /\ Holds(Entries(w)[j], a)
    BY <1>5
  <2> QED
    BY <1>1, <1>5, <2>1 DEF FoundOnce
<1>6. ASSUME NEW k \in DOMAIN Entries(v), Holds(Entries(v)[k], a), Holds(e, a)
      PROVE  FALSE
  BY <1>2, <1>6
<1> QED
  BY <1>3, <1>4, <1>5, <1>6

-----------------------------------------------------------------------------
LEMMA RefusePreserves ==
  ASSUME MemInv, NEW v \in Vm, Refuse(v)
  PROVE  MemInv'
<1>1. TypeOK'
  BY DEF MemInv, Refuse, TypeOK, ReplyT
<1> QED
  BY <1>1
     DEF MemInv, Refuse, FoundOnce, Backed, OwnSlot, SlotsApart, Entries, Holds

LEMMA AllocateMmioPreserves ==
  ASSUME MemInv, NEW v \in Vm, NEW phys \in Addr, NEW size \in Addr,
         AllocateMmio(v, phys, size)
  PROVE  MemInv'
<1> DEFINE e == [phys |-> phys, size |-> size, slot |-> 0, type |-> "mmio"]
           n == memory[v].next_slot
<1>1. TypeOK /\ n \in Nat
  BY EntryTypes DEF MemInv
<1>2. e \in EntryT /\ e.phys = phys /\ e.size = size /\ e.type = "mmio"
  BY DEF EntryT
<1>3. AddEntry(v, e, n) /\ Available(v, phys, size) /\ UNCHANGED slots
  BY DEF AllocateMmio
<1>4. reply' \in [Vm -> ReplyT]
  BY <1>1 DEF AllocateMmio, TypeOK, ReplyT, Granted, Kind
<1> HIDE DEF e
<1>5. /\ memory' \in [Vm -> [entries : Seq(EntryT), next_slot : Nat]]
      /\ memory'[v].next_slot = n
      /\ Grown(v, e)
  BY <1>1, <1>2, <1>3, AddEntryGrows
<1>6. \A w \in Vm : memory'[w].next_slot = memory[w].next_slot
  BY <1>5 DEF Grown
<1>7. TypeOK'
  BY <1>1, <1>3, <1>4, <1>5, <1>6 DEF TypeOK
<1>8. FoundOnce'
  BY <1>2, <1>3, <1>5, GrownFoundOnce
<1>9. \A w \in Vm : \A i \in DOMAIN memory'[w].entries :
        memory'[w].entries[i].type = "usable" =>
          i \in DOMAIN Entries(w) /\ memory'[w].entries[i] = Entries(w)[i]
  BY <1>1, <1>2, <1>5, GrownEntries
<1>10. Backed'
  <2> SUFFICES ASSUME NEW w \in Vm, NEW i \in DOMAIN memory'[w].entries,
                      memory'[w].entries[i].type = "usable"
               PROVE  SlotOf(memory'[w].entries[i]) \in slots[w]
    BY <1>3 DEF Backed, Entries, SlotOf
  <2> QED
    BY <1>9 DEF MemInv, Backed
<1>11. OwnSlot'
  <2> SUFFICES ASSUME NEW w \in Vm, NEW i \in DOMAIN memory'[w].entries,
                      NEW j \in DOMAIN memory'[w].entries,
                      memory'[w].entries[i].type = "usable",
                      memory'[w].entries[j].type = "usable",
                      memory'[w].entries[i].slot = memory'[w].entries[j].slot
               PROVE  i = j
    BY DEF OwnSlot, Entries
  <2> QED
    BY <1>9 DEF MemInv, OwnSlot
<1>12. SlotsApart'
  BY <1>3 DEF MemInv, SlotsApart
<1> QED
  BY <1>7, <1>8, <1>10, <1>11, <1>12 DEF MemInv

LEMMA AllocateUsablePreserves ==
  ASSUME MemInv, NEW v \in Vm, NEW phys \in Addr, NEW size \in Addr,
         NEW type \in Kind, AllocateUsable(v, phys, size, type)
  PROVE  MemInv'
<1> DEFINE n == memory[v].next_slot
           e == [phys |-> phys, size |-> size, slot |-> n, type |-> "usable"]
           r == [slot |-> n, phys |-> phys, size |-> size]
<1>1. /\ TypeOK /\ n \in Nat
      /\ slots \in [Vm -> SUBSET SlotT]
      /\ \A w \in Vm : \A s \in slots[w] : s.slot < memory[w].next_slot
  BY EntryTypes DEF MemInv, TypeOK
<1>2. /\ e \in EntryT /\ e.phys = phys /\ e.size = size /\ e.slot = n
      /\ SlotOf(e) = r
  BY <1>1 DEF EntryT, SlotOf
<1>3. r \in SlotT /\ r.slot = n /\ r.phys = phys /\ r.size = size
  BY <1>1 DEF SlotT
<1>4. /\ AddEntry(v, e, n + 1) /\ Available(v, phys, size)
      /\ KvmAccepts(v, n, phys, size)
      /\ slots' = [slots EXCEPT ![v] = slots[v] \cup {r}]
  BY DEF AllocateUsable
<1>5. reply' \in [Vm -> ReplyT]
  BY <1>1 DEF AllocateUsable, TypeOK, ReplyT, Granted
<1> HIDE DEF e, r
<1>6. /\ memory' \in [Vm -> [entries : Seq(EntryT), next_slot : Nat]]
      /\ memory'[v].next_slot = n + 1
      /\ Grown(v, e)
  BY <1>1, <1>2, <1>4, AddEntryGrows
<1>7. /\ slots' \in [Vm -> SUBSET SlotT]
      /\ slots'[v] = slots[v] \cup {r}
      /\ \A w \in Vm \ {v} : slots'[w] = slots[w]
      /\ \A w \in Vm : \A s \in slots[w] : s \in slots'[w]
  BY <1>1, <1>3, <1>4
<1>8. \A w \in Vm : \A s \in slots'[w] : s.slot < memory'[w].next_slot
  <2> SUFFICES ASSUME NEW w \in Vm, NEW s \in slots'[w]
               PROVE  s.slot < memory'[w].next_slot
    OBVIOUS
  <2>1. CASE w # v
    BY <1>1, <1>6, <1>7, <2>1 DEF Grown
  <2>2. CASE w = v /\ s \in slots[v]
    <3>1. s.slot < n /\ s.slot \in Nat
      BY <1>1, <2>2 DEF SlotT
    <3> QED
      BY <1>1, <1>6, <2>2, <3>1
  <2>3. CASE w = v /\ s = r
    BY <1>1, <1>3, <1>6, <2>3
  <2> QED
    BY <1>7, <2>1, <2>2, <2>3
<1>9. TypeOK'
  BY <1>5, <1>6, <1>7, <1>8 DEF TypeOK
<1>10. FoundOnce'
  BY <1>2, <1>4, <1>6, GrownFoundOnce
<1>11. \A w \in Vm : \A i \in DOMAIN memory'[w].entries :
         \/ i \in DOMAIN Entries(w) /\ memory'[w].entries[i] = Entries(w)[i]
         \/ /\ w = v /\ i = Len(Entries(v)) + 1 /\ memory'[w].entries[i] = e
  BY <1>1, <1>2, <1>6, GrownEntries
<1>12. Backed'
  <2> SUFFICES ASSUME NEW w \in Vm, NEW i \in DOMAIN memory'[w].entries,
                      memory'[w].entries[i].type = "usable"
               PROVE  SlotOf(memory'[w].entries[i]) \in slots'[w]
    BY DEF Backed, Entries, SlotOf
  <2>1. CASE i \in DOMAIN Entries(w) /\ memory'[w].entries[i] = Entries(w)[i]
    <3>1. SlotOf(Entries(w)[i]) \in slots[w]
      BY <2>1 DEF MemInv, Backed
    <3> QED
      BY <1>7, <2>1, <3>1
  <2>2. CASE w = v /\ memory'[w].entries[i] = e
    BY <1>2, <1>7, <2>2
  <2> QED
    BY <1>11, <2>1, <2>2
<1>13. OwnSlot'
  <2> SUFFICES ASSUME NEW w \in Vm, NEW i \in DOMAIN memory'[w].entries,
                      NEW j \in DOMAIN memory'[w].entries,
                      memory'[w].entries[i].type = "usable",
                      memory'[w].entries[j].type = "usable",
                      memory'[w].entries[i].slot = memory'[w].entries[j].slot
               PROVE  i = j
    BY DEF OwnSlot, Entries
  <2>1. ASSUME NEW k \in DOMAIN Entries(v), Entries(v)[k].type = "usable"
        PROVE  Entries(v)[k].slot # n
    <3>1. SlotOf(Entries(v)[k]) \in slots[v]
      BY <2>1 DEF MemInv, Backed
    <3>2. SlotOf(Entries(v)[k]).slot = Entries(v)[k].slot
      BY DEF SlotOf
    <3>3. Entries(v)[k].slot < n /\ Entries(v)[k].slot \in Nat
      <4>1. SlotOf(Entries(v)[k]).slot < n
        BY <1>1, <3>1
      <4>2. Entries(v)[k].slot \in Nat
        BY <1>1, EntryTypes DEF EntryT
      <4> QED
        BY <3>2, <4>1, <4>2
    <3> QED
      BY <1>1, <3>3
  <2>2. CASE /\ i \in DOMAIN Entries(w) /\ memory'[w].entries[i] = Entries(w)[i]
             /\ j \in DOMAIN Entries(w) /\ memory'[w].entries[j] = Entries(w)[j]
    BY <2>2 DEF MemInv, OwnSlot
  <2> QED
    BY <1>2, <1>11, <2>1, <2>2
<1>14. SlotsApart'
  <2>1. phys + size < Space
    BY <1>4 DEF KvmAccepts
  <2>2. \A s \in slots[v] : /\ s.slot # n
                            /\ s.phys + s.size <= phys \/ phys + size <= s.phys
    BY <1>4 DEF KvmAccepts
  <2> SUFFICES ASSUME NEW w \in Vm
               PROVE  /\ \A s \in slots'[w] : s.phys + s.size < Space
                      /\ \A s, u \in slots'[w] : s # u =>
                           /\ s.slot # u.slot
                           /\ s.phys + s.size <= u.phys \/ u.phys + u.size <= s.phys
    BY DEF SlotsApart
  <2>3. /\ \A s \in slots[w] : s.phys + s.size < Space
        /\ \A s, u \in slots[w] : s # u =>
             /\ s.slot # u.slot
             /\ s.phys + s.size <= u.phys \/ u.phys + u.size <= s.phys
    BY DEF MemInv, SlotsApart
  <2>4. CASE w # v
    BY <1>7, <2>3, <2>4
  <2>5. CASE w = v
    <3>1. \A s \in slots'[w] : s \in slots[v] \/ s = r
      BY <1>7, <2>5
    <3> QED
      BY <1>3, <2>1, <2>2, <2>3, <2>5, <3>1
  <2> QED
    BY <2>4, <2>5
<1> QED
  BY <1>9, <1>10, <1>12, <1>13, <1>14 DEF MemInv

LEMMA MemoryStep == MemInv /\ [MemoryNext]_memVars => MemInv'
<1> SUFFICES ASSUME MemInv, [MemoryNext]_memVars
             PROVE  MemInv'
  OBVIOUS
<1>1. CASE UNCHANGED memVars
  <2>1. /\ TypeOK' = TypeOK /\ FoundOnce' = FoundOnce /\ Backed' = Backed
        /\ OwnSlot' = OwnSlot /\ SlotsApart' = SlotsApart
    BY <1>1 DEF memVars, TypeOK, FoundOnce, Backed, OwnSlot, SlotsApart,
                Entries, Holds, SlotOf
  <2> QED
    BY <2>1 DEF MemInv
<1>2. ASSUME NEW v \in Vm, Refuse(v)
      PROVE  MemInv'
  BY <1>2, RefusePreserves
<1>3. ASSUME NEW v \in Vm, NEW phys \in Addr, NEW size \in Addr,
             NEW type \in Kind, AllocateUsable(v, phys, size, type)
      PROVE  MemInv'
  BY <1>3, AllocateUsablePreserves
<1>4. ASSUME NEW v \in Vm, NEW phys \in Addr, NEW size \in Addr,
             AllocateMmio(v, phys, size)
      PROVE  MemInv'
  BY <1>4, AllocateMmioPreserves
<1> QED
  BY <1>1, <1>2, <1>3, <1>4 DEF MemoryNext
-----------------------------------------------------------------------------
(***************************************************************************)
(* The state of the memory never leaves its types, and slot numbers given  *)
(* to KVM are below the next one, whatever fails in memory_alloc.          *)
(***************************************************************************)
THEOREM MemoryInvariant == MemorySpec => []MemInv
<1>1. MemoryInit => MemInv
  BY InitMemInv
<1>2. MemInv /\ [MemoryNext]_memVars => MemInv'
  BY MemoryStep
<1> QED
  BY <1>1, <1>2, PTL DEF MemorySpec

THEOREM MemoryTypeCorrect == MemorySpec => []TypeOK
<1>1. MemInv => TypeOK
  BY DEF MemInv
<1> QED
  BY <1>1, MemoryInvariant, PTL

(***************************************************************************)
(* No address is in two entries of the list, for all requests: what        *)
(* find_entry returns does not depend on the order of the allocations.     *)
(***************************************************************************)
THEOREM EntriesNeverOverlap == MemorySpec => []FoundOnce
<1>1. MemInv => FoundOnce
  BY DEF MemInv
<1> QED
  BY <1>1, MemoryInvariant, PTL

\* Where find_entry looks: the one entry that holds the address.
LEMMA FoundEntry ==
  ASSUME TypeOK, FoundOnce, NEW v \in Vm, NEW a \in Addr,
         NEW i \in DOMAIN Entries(v), Holds(Entries(v)[i], a)
  PROVE  Found(v, a) /\ FindEntry(v, a) = Entries(v)[i]
<1>1. Hits(v, a) = {i}
  BY DEF Hits, FoundOnce
<1>2. (CHOOSE j \in Hits(v, a) : \A k \in Hits(v, a) : j <= k) = i
  <2>1. \E j \in Hits(v, a) : \A k \in Hits(v, a) : j <= k
    <3>1. i \in Nat
      BY EntryTypes
    <3>2. i <= i
      BY <3>1
    <3> QED
      BY <1>1, <3>2
  <2> QED
    BY <1>1, <2>1
<1> QED
  BY <1>1, <1>2 DEF Found, FindEntry

LEMMA FoundIsHeld ==
  ASSUME TypeOK, FoundOnce, NEW v \in Vm, NEW a \in Addr, Found(v, a)
  PROVE  \E i \in DOMAIN Entries(v) :
           Holds(Entries(v)[i], a) /\ FindEntry(v, a) = Entries(v)[i]
<1>1. PICK i \in DOMAIN Entries(v) : Holds(Entries(v)[i], a)
  BY DEF Found, Hits
<1> QED
  BY <1>1, FoundEntry

(***************************************************************************)
(* The addresses a usable entry holds are the ones its slot covers: the    *)
(* guest finds them there and nowhere else.                                *)
(***************************************************************************)
LEMMA UsableIsRam ==
  ASSUME MemInv, NEW v \in Vm, NEW a \in Addr,
         NEW i \in DOMAIN Entries(v), Entries(v)[i].type = "usable"
  PROVE  LET e == Entries(v)[i] IN
         /\ Holds(e, a) <=> e.phys <= a /\ a < e.phys + e.size
         /\ Holds(e, a) => GuestBytes(v, a) = {<<e.slot, a - e.phys>>}
<1> DEFINE e == Entries(v)[i]
           r == SlotOf(e)
<1>1. /\ e.phys \in Addr /\ e.size \in Addr
      /\ slots[v] \in SUBSET SlotT
  BY EntryTypes DEF MemInv, EntryT
<1>2. r \in slots[v] /\ r.phys = e.phys /\ r.size = e.size /\ r.slot = e.slot
  BY DEF MemInv, Backed, SlotOf
<1>3. e.phys + e.size < Space
  BY <1>2 DEF MemInv, SlotsApart
<1>4. Holds(e, a) <=> e.phys <= a /\ a < e.phys + e.size
  BY <1>1, <1>3, MemoryAssumption DEF Holds, Add, Addr
<1>5. ASSUME Holds(e, a)
      PROVE  {s \in slots[v] : InSlot(s, a)} = {r}
  <2>1. InSlot(r, a)
    BY <1>2, <1>4, <1>5 DEF InSlot
  <2>2. ASSUME NEW s \in slots[v], InSlot(s, a), s # r
        PROVE  FALSE
    <3>1. s.phys + s.size <= r.phys \/ r.phys + r.size <= s.phys
      BY <1>2, <2>2 DEF MemInv, SlotsApart
    <3>2. /\ s.phys \in Nat /\ s.size \in Nat /\ r.phys \in Nat /\ r.size \in Nat
          /\ a \in Nat
      BY <1>1, <1>2, MemoryAssumption DEF SlotT, Addr
    <3> QED
      BY <2>1, <2>2, <3>1, <3>2 DEF InSlot
  <2> QED
    BY <1>2, <2>1, <2>2
<1>6. ASSUME Holds(e, a)
      PROVE  GuestBytes(v, a) = {<<e.slot, a - e.phys>>}
  <2>1. GuestBytes(v, a) = {<<s.slot, a - s.phys>> : s \in {r}}
    BY <1>5, <1>6 DEF GuestBytes
  <2> QED
    BY <1>2, <2>1
<1> QED
  BY <1>4, <1>6

(***************************************************************************)
(* A byte memory_write stores is the byte the guest loads at the same      *)
(* address, for all allocations before and after it.                       *)
(***************************************************************************)
THEOREM HostWritesGuestMemory == MemorySpec => []WrittenIsSeen
<1>1. MemInv => WrittenIsSeen
  <2> SUFFICES ASSUME MemInv, NEW v \in Vm, NEW dest \in Addr, NEW size \in Addr,
                      Writable(v, dest), NEW k \in Addr,
                      k < Written(v, dest, size)
               PROVE  GuestBytes(v, dest + k) = {HostByte(v, dest, k)}
    BY DEF WrittenIsSeen
  <2>1. PICK i \in DOMAIN Entries(v) :
          Holds(Entries(v)[i], dest) /\ FindEntry(v, dest) = Entries(v)[i]
    BY FoundIsHeld DEF MemInv, Writable
  <2> DEFINE e == Entries(v)[i]
  <2>2. /\ e.type = "usable"
        /\ e.phys \in Addr /\ e.size \in Addr /\ e.slot \in Nat
    BY <2>1, EntryTypes DEF Writable, MemInv, EntryT
  <2>3. e.phys <= dest /\ k < e.size - (dest - e.phys)
    <3>1. k < e.size - (dest - e.phys)
      BY <2>1, <2>2, MemoryAssumption DEF Written, Addr
    <3> QED
      BY <2>1, <3>1 DEF Holds
  <2>4. e.phys + e.size < Space
    <3>1. SlotOf(e) \in slots[v] /\ SlotOf(e).phys = e.phys /\ SlotOf(e).size = e.size
      BY <2>2 DEF MemInv, Backed, SlotOf
    <3> QED
      BY <3>1 DEF MemInv, SlotsApart
  <2>5. dest + k \in Addr /\ Holds(e, dest + k)
    <3>1. dest + k \in Addr /\ e.phys <= dest + k /\ dest + k < e.phys + e.size
      BY <2>2, <2>3, <2>4, MemoryAssumption DEF Addr
    <3> QED
      BY <2>2, <3>1, UsableIsRam
  <2>6. GuestBytes(v, dest + k) = {<<e.slot, (dest + k) - e.phys>>}
    BY <2>2, <2>5, UsableIsRam
  <2>7. (dest + k) - e.phys = (dest - e.phys) + k
    BY <2>2, MemoryAssumption DEF Addr
  <2> QED
    BY <2>1, <2>6, <2>7 DEF HostByte
<1> QED
  BY <1>1, MemoryInvariant, PTL

(***************************************************************************)
(* Provided no linked_list_add failed, no RAM of the guest is at an        *)
(* address of an MMIO entry: the guest's accesses to it leave the guest.   *)
(***************************************************************************)
LEMMA MmioOutsideRam ==
  ASSUME MemInv, NEW v \in Vm, \A r \in slots[v] : Listed(v, r),
         NEW a \in Addr, NEW i \in DOMAIN Entries(v),
         Holds(Entries(v)[i], a), Entries(v)[i].type = "mmio"
  PROVE  GuestBytes(v, a) = {}
<1> SUFFICES ASSUME NEW r \in slots[v], InSlot(r, a)
             PROVE  FALSE
  BY DEF GuestBytes
<1>1. PICK j \in DOMAIN Entries(v) :
        Entries(v)[j].type = "usable" /\ Entries(v)[j].slot = r.slot
  BY DEF Listed
<1>2. SlotOf(Entries(v)[j]) \in slots[v] /\ SlotOf(Entries(v)[j]).slot = r.slot
  BY <1>1 DEF MemInv, Backed, SlotOf
<1>3. SlotOf(Entries(v)[j]) = r
  BY <1>2 DEF MemInv, SlotsApart
<1>4. Holds(Entries(v)[j], a)
  BY <1>1, <1>3, UsableIsRam DEF InSlot, SlotOf
<1>5. i = j
  BY <1>4 DEF MemInv, FoundOnce
<1> QED
  BY <1>1, <1>5

THEOREM MmioLeavesTheGuest == MemorySpec => []MmioTraps
<1>1. MemInv => MmioTraps
  <2> SUFFICES ASSUME MemInv, NEW v \in Vm, \A r \in slots[v] : Listed(v, r),
                      NEW a \in Addr, Found(v, a), FindEntry(v, a).type = "mmio"
               PROVE  GuestBytes(v, a) = {}
    BY DEF MmioTraps
  <2>1. PICK i \in DOMAIN Entries(v) :
          Holds(Entries(v)[i], a) /\ FindEntry(v, a) = Entries(v)[i]
    BY FoundIsHeld DEF MemInv
  <2> QED
    BY <2>1, MmioOutsideRam
<1> QED
  BY <1>1, MemoryInvariant, PTL

(***************************************************************************)
(* check_addr_available refuses a range only for what is there: an address *)
(* of an entry in the range or at its end, or the start of an entry that   *)
(* has no address of its own.                                              *)
(***************************************************************************)
THEOREM RefusalsAreFounded == MemorySpec => []RefusedOnlyIfTaken
<1>1. TypeOK => RefusedOnlyIfTaken
  <2> SUFFICES ASSUME TypeOK, NEW v \in Vm, NEW phys \in Addr, NEW size \in Addr,
                      ~Available(v, phys, size), ~(phys + size >= Space)
               PROVE  \/ \E a \in phys..(phys + size) : Found(v, a)
                      \/ \E i \in DOMAIN Entries(v) :
                           LET e == Entries(v)[i] IN
                           /\ e.size = 0 \/ e.phys + e.size >= Space
                           /\ phys < e.phys /\ e.phys <= phys + size
    BY DEF RefusedOnlyIfTaken
  <2>1. PICK i \in DOMAIN Entries(v) :
          StartsIn(Entries(v)[i], phys) \/ ReachesFrom(Entries(v)[i], phys, size)
    BY DEF Available
  <2> DEFINE e == Entries(v)[i]
  <2>2. e.phys \in Nat /\ e.size \in Nat
    <3>1. e \in EntryT BY EntryTypes
    <3> QED BY <3>1, MemoryAssumption DEF EntryT, Addr
  <2>3. phys \in Nat /\ size \in Nat /\ Space \in Nat /\ phys + size < Space
    BY MemoryAssumption DEF Addr
  <2>4. CASE StartsIn(e, phys)
    <3>1. Found(v, phys) BY <2>4 DEF StartsIn, Found, Hits
    <3>2. phys \in phys..(phys + size) BY <2>3
    <3> QED BY <3>1, <3>2
  <2>5. CASE ReachesFrom(e, phys, size)
    <3>1. phys < e.phys /\ e.phys <= phys + size
      BY <2>2, <2>3, <2>5 DEF ReachesFrom, Add
    <3>2. CASE e.size = 0 \/ e.phys + e.size >= Space BY <3>1, <3>2
    <3>3. CASE ~(e.size = 0 \/ e.phys + e.size >= Space)
      <4>1. Holds(e, e.phys) BY <2>2, <2>3, <3>3 DEF Holds, Add
      <4>2. Found(v, e.phys) BY <4>1 DEF Found, Hits
      <4>3. e.phys \in phys..(phys + size) BY <2>2, <2>3, <3>1
      <4> QED BY <4>2, <4>3
    <3> QED BY <3>2, <3>3
  <2> QED BY <2>1, <2>4, <2>5
<1> QED BY <1>1, MemoryTypeCorrect, PTL
-----------------------------------------------------------------------------
(***************************************************************************)
(* Proofs about Mmio, for tables of any size and any set of regions.  They *)
(* rest on the invariant of the guest memory, MemInv.                      *)
(***************************************************************************)

\* A linked_list_add that does not fail, and a table used for one VM.
NothingFails == NodeFails = FALSE
OneVm == \A v, w \in Vm : v = w

\* Every slot of the kernel is in the list.
AllListed == \A v \in Vm : \A r \in slots[v] : Listed(v, r)

\* What a row covers, free or not, is in MMIO entries of the list.
RowsBacked ==
  \A v \in Vm, i \in Id, a \in Addr : Covers(rows[i].region, a) =>
    \E k \in DOMAIN Entries(v) :
      Entries(v)[k].type = "mmio" /\ Holds(Entries(v)[k], a)

RowsApart ==
  \A i, j \in Id, a \in Addr :
    Covers(rows[i].region, a) /\ Covers(rows[j].region, a) => i = j

\* An id in the program's hands is that of the row its region is in.
HeldRows ==
  /\ \A h \in held : rows[h.id] = [id |-> h.id, region |-> h.region]
  /\ \A g, h \in held : g.id = h.id => g = h

RowInv == AllListed /\ RowsBacked /\ RowsApart /\ HeldRows
-----------------------------------------------------------------------------
\* The size mmio_register computes gives the entry the bounds of the region.
LEMMA RegionEntry ==
  ASSUME NEW r \in RegionT
  PROVE  /\ r.base \in Addr /\ Sub(r.high, r.base) \in Addr
         /\ Add(r.base, Sub(r.high, r.base)) = r.high
<1>1. r.base \in Addr /\ r.high \in Addr
  BY DEF RegionT
<1> QED
  BY <1>1, MemoryAssumption DEF Sub, Add, Addr

LEMMA InitType == Init => MmioTypeOK
<1> SUFFICES ASSUME Init PROVE MmioTypeOK
  OBVIOUS
<1>1. TypeOK
  BY InitMemInv DEF Init, MemInv
<1>2. rows \in [Id -> RowT]
  <2>1. ASSUME NEW i \in Id
        PROVE  ZeroRow \in RowT
    <3>1. 0 \in Id
      BY MmioAssumption DEF Id
    <3>2. 0 \in Addr
      BY MemoryAssumption DEF Addr
    <3> QED
      BY <3>1, <3>2 DEF ZeroRow, RowT, RegionT
  <2> QED
    BY <2>1 DEF Init
<1> QED
  BY <1>1, <1>2 DEF Init, MmioTypeOK

LEMMA TakeType ==
  ASSUME MmioTypeOK, NEW v \in Vm, NEW r \in Regions, TakeFreeRow(v, r)
  PROVE  rows' \in [Id -> RowT] /\ held' \subseteq HeldT
<1>1. PICK i \in FreeRows : Take(i, i, v, r)
  BY DEF TakeFreeRow
<1>2. i \in Id /\ r \in RegionT
  BY MmioAssumption DEF FreeRows
<1>3. [id |-> i, region |-> r] \in RowT
  BY <1>2 DEF RowT
<1>4. [id |-> i, vm |-> v, region |-> r] \in HeldT
  BY <1>2 DEF HeldT
<1>5. rows' = [rows EXCEPT ![i] = [id |-> i, region |-> r]]
  BY <1>1 DEF Take
<1> QED
  BY <1>1, <1>3, <1>4, <1>5 DEF Take, MmioTypeOK

\* Marking a row free keeps the rest of it.
LEMMA FreedRow ==
  ASSUME MmioTypeOK, NEW i \in Id
  PROVE  /\ [rows[i] EXCEPT !.id = Free] \in RowT
         /\ [rows[i] EXCEPT !.id = Free].region = rows[i].region
         /\ [rows[i] EXCEPT !.id = Free].id = Free
<1>1. rows[i] \in RowT
  BY DEF MmioTypeOK
<1> QED
  BY <1>1 DEF RowT
-----------------------------------------------------------------------------
\* The memory's invariant holds in the composition: every step is one of it.
LEMMA MemoryPart == MemInv /\ [Next]_vars => MemInv'
<1> SUFFICES ASSUME MemInv, [Next]_vars
             PROVE  MemInv'
  OBVIOUS
<1>1. ASSUME NEW v \in Vm, NEW r \in Regions, Register(v, r)
      PROVE  MemInv'
  <2>1. r.base \in Addr /\ Sub(r.high, r.base) \in Addr
    BY RegionEntry, MmioAssumption
  <2>2. AllocateMmio(v, r.base, Sub(r.high, r.base))
    BY <1>1 DEF Register
  <2> QED
    BY <2>1, <2>2, AllocateMmioPreserves
<1>2. CASE MmioInit
  BY <1>2, MemoryStep DEF MmioInit
<1>3. ASSUME NEW h \in held, Unregister(h)
      PROVE  MemInv'
  BY <1>3, MemoryStep DEF Unregister
<1>4. CASE MemoryNext
  BY <1>4, MemoryStep
<1>5. CASE UNCHANGED vars
  <2>1. UNCHANGED memVars
    BY <1>5 DEF vars, memVars
  <2> QED
    BY <2>1, MemoryStep
<1> QED
  BY <1>1, <1>2, <1>3, <1>4, <1>5 DEF Next

LEMMA TypeStep == MmioTypeOK /\ MemInv /\ [Next]_vars => MmioTypeOK'
<1> SUFFICES ASSUME MmioTypeOK, MemInv, [Next]_vars
             PROVE  rows' \in [Id -> RowT] /\ held' \subseteq HeldT
  BY MemoryPart DEF MemInv, MmioTypeOK
<1>1. ASSUME NEW v \in Vm, NEW r \in Regions, Register(v, r)
      PROVE  rows' \in [Id -> RowT] /\ held' \subseteq HeldT
  <2>1. CASE TakeFreeRow(v, r)
    BY <2>1, TakeType
  <2>2. CASE UNCHANGED <<rows, held>>
    BY <2>2 DEF MmioTypeOK
  <2> QED
    BY <1>1, <2>1, <2>2 DEF Register
<1>2. CASE MmioInit
  BY <1>2, FreedRow DEF MmioInit, MmioTypeOK
<1>3. ASSUME NEW h \in held, Unregister(h)
      PROVE  rows' \in [Id -> RowT] /\ held' \subseteq HeldT
  <2>1. h.id \in Id
    BY DEF MmioTypeOK, HeldT
  <2>2. rows' = [rows EXCEPT ![h.id] = [rows[h.id] EXCEPT !.id = Free]]
    BY <1>3 DEF Unregister
  <2> QED
    BY <1>3, <2>1, <2>2, FreedRow DEF Unregister, MmioTypeOK
<1>4. CASE UNCHANGED <<rows, held>>
  BY <1>4 DEF MmioTypeOK
<1> QED
  BY <1>1, <1>2, <1>3, <1>4 DEF Next, vars

(***************************************************************************)
(* The table, the ids and the memory stay within their types, and an id is *)
(* always that of a row.                                                   *)
(***************************************************************************)
THEOREM MmioTypeCorrect == Spec => [](MmioTypeOK /\ MemInv)
<1>1. Init => MmioTypeOK /\ MemInv
  BY InitType, InitMemInv DEF Init
<1>2. MmioTypeOK /\ MemInv /\ [Next]_vars => (MmioTypeOK /\ MemInv)'
  BY TypeStep, MemoryPart
<1> QED
  BY <1>1, <1>2, PTL DEF Spec
-----------------------------------------------------------------------------
(***************************************************************************)
(* Entries stay where they are: there is no memory_free.                   *)
(***************************************************************************)
Kept ==
  \A w \in Vm : \A k \in DOMAIN Entries(w) :
    k \in DOMAIN memory'[w].entries /\ memory'[w].entries[k] = Entries(w)[k]

LEMMA AddEntryAppends ==
  ASSUME NothingFails, TypeOK, NEW v \in Vm, NEW e \in EntryT, NEW n \in Nat,
         AddEntry(v, e, n)
  PROVE  /\ Kept
         /\ Len(Entries(v)) + 1 \in DOMAIN memory'[v].entries
         /\ memory'[v].entries[Len(Entries(v)) + 1] = e
<1>1. memory \in [Vm -> [entries : Seq(EntryT), next_slot : Nat]]
  BY DEF TypeOK
<1> DEFINE m == [entries |-> Append(Entries(v), e), next_slot |-> n]
<1>2. memory' = [memory EXCEPT ![v] = m]
  BY DEF NothingFails, AddEntry
<1>3. m.entries = Append(Entries(v), e)
  OBVIOUS
<1> HIDE DEF m
<1>4. /\ memory'[v].entries = Append(Entries(v), e)
      /\ \A w \in Vm \ {v} : memory'[w] = memory[w]
  BY <1>1, <1>2, <1>3
<1>5. Entries(v) \in Seq(EntryT)
  BY EntryTypes
<1>6. /\ Len(Entries(v)) + 1 \in DOMAIN Append(Entries(v), e)
      /\ Append(Entries(v), e)[Len(Entries(v)) + 1] = e
      /\ \A k \in DOMAIN Entries(v) :
           /\ k \in DOMAIN Append(Entries(v), e)
           /\ Append(Entries(v), e)[k] = Entries(v)[k]
  BY <1>5
<1>7. Kept
  BY <1>4, <1>6 DEF Kept, Entries
<1> QED
  BY <1>4, <1>6, <1>7

\* Listed survives as long as the entries stay.
LEMMA KeptListed ==
  ASSUME Kept, NEW v \in Vm, NEW r, Listed(v, r)
  PROVE  \E i \in DOMAIN memory'[v].entries :
           /\ memory'[v].entries[i].type = "usable"
           /\ memory'[v].entries[i].slot = r.slot
BY DEF Kept, Listed

\* As long as no row changes what it covers, the rows stay in the list.
LEMMA KeptRows ==
  ASSUME Kept, RowsBacked, RowsApart,
         \A i \in Id : rows'[i].region = rows[i].region
  PROVE  RowsBacked' /\ RowsApart'
<1>1. RowsBacked'
  <2> SUFFICES ASSUME NEW v \in Vm, NEW i \in Id, NEW a \in Addr,
                      Covers(rows[i].region, a)
               PROVE  \E k \in DOMAIN memory'[v].entries :
                        /\ memory'[v].entries[k].type = "mmio"
                        /\ Holds(memory'[v].entries[k], a)
    BY DEF RowsBacked, Entries, Covers, Holds
  <2>1. PICK k \in DOMAIN Entries(v) :
          Entries(v)[k].type = "mmio" /\ Holds(Entries(v)[k], a)
    BY DEF RowsBacked
  <2>2. k \in DOMAIN memory'[v].entries /\ memory'[v].entries[k] = Entries(v)[k]
    BY DEF Kept
  <2> QED
    BY <2>1, <2>2
<1>2. RowsApart'
  BY DEF RowsApart, Covers
<1> QED
  BY <1>1, <1>2

(***************************************************************************)
(* mmio_register: the new entry is where the new row is, and apart from    *)
(* every entry another row is backed by.                                   *)
(***************************************************************************)
LEMMA RegisterPreserves ==
  ASSUME NothingFails, OneVm, MmioTypeOK, MemInv, RowInv,
         NEW v \in Vm, NEW r \in Regions, Register(v, r)
  PROVE  RowInv'
<1> DEFINE size == Sub(r.high, r.base)
           e == [phys |-> r.base, size |-> size, slot |-> 0, type |-> "mmio"]
<1>1. /\ r.base \in Addr /\ size \in Addr /\ Add(r.base, size) = r.high
  BY RegionEntry, MmioAssumption
<1>2. AllocateMmio(v, r.base, size)
  BY DEF Register
<1>3. /\ AddEntry(v, e, memory[v].next_slot) /\ UNCHANGED slots
      /\ Available(v, r.base, size)
  BY <1>2 DEF AllocateMmio
<1>4. /\ e \in EntryT /\ e.phys = r.base /\ e.size = size /\ e.type = "mmio"
  BY <1>1 DEF EntryT
<1>5. TypeOK /\ memory[v].next_slot \in Nat
  BY EntryTypes DEF MemInv
<1> HIDE DEF e, size
<1>6. /\ Kept
      /\ Len(Entries(v)) + 1 \in DOMAIN memory'[v].entries
      /\ memory'[v].entries[Len(Entries(v)) + 1] = e
  BY <1>3, <1>4, <1>5, AddEntryAppends
<1>7. AllListed'
  <2> SUFFICES ASSUME NEW w \in Vm, NEW s \in slots[w]
               PROVE  \E i \in DOMAIN memory'[w].entries :
                        /\ memory'[w].entries[i].type = "usable"
                        /\ memory'[w].entries[i].slot = s.slot
    BY <1>3 DEF AllListed, Listed, Entries
  <2> QED
    BY <1>6, KeptListed DEF RowInv, AllListed
<1>8. CASE UNCHANGED <<rows, held>>
  <2>1. RowsBacked' /\ RowsApart'
    BY <1>6, <1>8, KeptRows DEF RowInv
  <2> QED
    BY <1>7, <1>8, <2>1 DEF RowInv, HeldRows
<1>9. CASE TakeFreeRow(v, r)
  <2>1. PICK i \in FreeRows : Take(i, i, v, r)
    BY <1>9 DEF TakeFreeRow
  <2> DEFINE h == [id |-> i, vm |-> v, region |-> r]
             row == [id |-> i, region |-> r]
  <2>2. /\ i \in Id /\ rows[i].id = Free
        /\ row.id = i /\ row.region = r
        /\ h.id = i /\ h.region = r
    BY DEF FreeRows
  <2>3. /\ rows' = [rows EXCEPT ![i] = row]
        /\ held' = held \cup {h}
    BY <2>1 DEF Take
  <2>4. row = [id |-> h.id, region |-> h.region]
    BY <2>2
  <2> HIDE DEF h, row
  <2>5. rows'[i] = row /\ \A j \in Id \ {i} : rows'[j] = rows[j]
    BY <2>2, <2>3 DEF MmioTypeOK
  <2>6. \A a \in Addr : Covers(r, a) <=> Holds(e, a)
    BY <1>1, <1>4 DEF Covers, Holds
  <2>7. ASSUME NEW j \in Id, NEW a \in Addr, Covers(rows[j].region, a),
               Covers(r, a)
        PROVE  FALSE
    <3>1. PICK k \in DOMAIN Entries(v) : Holds(Entries(v)[k], a)
      BY <2>7 DEF RowInv, RowsBacked
    <3>2. Entries(v)[k] \in EntryT
      BY <1>5, EntryTypes
    <3> QED
      BY <1>1, <1>3, <1>4, <2>6, <2>7, <3>1, <3>2, AvailableIsApart
  <2>8. RowsBacked'
    <3> SUFFICES ASSUME NEW w \in Vm, NEW j \in Id, NEW a \in Addr,
                        Covers(rows'[j].region, a)
                 PROVE  \E k \in DOMAIN memory'[w].entries :
                          /\ memory'[w].entries[k].type = "mmio"
                          /\ Holds(memory'[w].entries[k], a)
      BY DEF RowsBacked, Entries, Covers, Holds
    <3>1. CASE j = i
      <4>1. w = v
        BY DEF OneVm
      <4>2. Holds(e, a)
        BY <2>2, <2>5, <2>6, <3>1
      <4> QED
        BY <1>4, <1>6, <4>1, <4>2
    <3>2. CASE j # i
      <4>1. PICK k \in DOMAIN Entries(w) :
              Entries(w)[k].type = "mmio" /\ Holds(Entries(w)[k], a)
        BY <2>5, <3>2 DEF RowInv, RowsBacked
      <4>2. k \in DOMAIN memory'[w].entries
            /\ memory'[w].entries[k] = Entries(w)[k]
        BY <1>6 DEF Kept
      <4> QED
        BY <4>1, <4>2
    <3> QED
      BY <3>1, <3>2
  <2>9. RowsApart'
    <3> SUFFICES ASSUME NEW j \in Id, NEW k \in Id, NEW a \in Addr,
                        Covers(rows'[j].region, a), Covers(rows'[k].region, a)
                 PROVE  j = k
      BY DEF RowsApart, Covers
    <3>1. CASE j # i /\ k # i
      BY <2>5, <3>1 DEF RowInv, RowsApart
    <3>2. CASE j = i /\ k # i
      BY <2>2, <2>5, <2>7, <3>2
    <3>3. CASE j # i /\ k = i
      BY <2>2, <2>5, <2>7, <3>3
    <3> QED
      BY <3>1, <3>2, <3>3
  <2>10. HeldRows'
    <3>1. \A g \in held : g.id \in Id /\ g.id # i
      <4> SUFFICES ASSUME NEW g \in held
                   PROVE  g.id \in Id /\ g.id # i
        OBVIOUS
      <4>1. g.id \in Id
        BY DEF MmioTypeOK, HeldT
      <4>2. rows[g.id].id = g.id
        <5>1. rows[g.id] = [id |-> g.id, region |-> g.region]
          BY DEF RowInv, HeldRows
        <5> QED
          BY <5>1
      <4>3. g.id # Free
        BY <4>1, MmioAssumption DEF Id, Free
      <4> QED
        BY <2>2, <4>1, <4>2, <4>3
    <3>2. \A g \in held : rows'[g.id] = [id |-> g.id, region |-> g.region]
      BY <2>5, <3>1 DEF RowInv, HeldRows
    <3>3. rows'[h.id] = [id |-> h.id, region |-> h.region]
      BY <2>2, <2>4, <2>5
    <3>4. \A f, g \in held' : f.id = g.id => f = g
      BY <2>2, <2>3, <3>1 DEF RowInv, HeldRows
    <3> QED
      BY <2>3, <3>2, <3>3, <3>4 DEF HeldRows
  <2> QED
    BY <1>7, <2>8, <2>9, <2>10 DEF RowInv
<1> QED
  BY <1>8, <1>9 DEF Register

LEMMA RowsStep ==
  NothingFails /\ OneVm /\ MmioTypeOK /\ MemInv /\ RowInv /\ [Next]_vars => RowInv'
<1> SUFFICES ASSUME NothingFails, OneVm, MmioTypeOK, MemInv, RowInv, [Next]_vars
             PROVE  RowInv'
  OBVIOUS
<1> USE DEF RowInv
<1>1. ASSUME NEW v \in Vm, NEW r \in Regions, Register(v, r)
      PROVE  RowInv'
  BY <1>1, RegisterPreserves
<1>2. ASSUME UNCHANGED <<memory, slots>>, \A i \in Id : rows'[i].region = rows[i].region
      PROVE  AllListed' /\ RowsBacked' /\ RowsApart'
  <2>1. Kept
    BY <1>2 DEF Kept, Entries
  <2>2. AllListed'
    BY <1>2 DEF AllListed, Listed, Entries
  <2> QED
    BY <1>2, <2>1, <2>2, KeptRows
<1>3. CASE MmioInit
  <2>1. \A i \in Id : rows'[i].region = rows[i].region
    BY <1>3, FreedRow DEF MmioInit
  <2>2. HeldRows'
    BY <1>3 DEF MmioInit, HeldRows
  <2> QED
    BY <1>2, <1>3, <2>1, <2>2 DEF MmioInit, memVars
<1>4. ASSUME NEW h \in held, Unregister(h)
      PROVE  RowInv'
  <2>1. /\ h.id \in Id
        /\ rows' = [rows EXCEPT ![h.id] = [rows[h.id] EXCEPT !.id = Free]]
        /\ held' = held \ {h}
    BY <1>4 DEF Unregister, MmioTypeOK, HeldT
  <2>2. /\ rows'[h.id].region = rows[h.id].region
        /\ \A i \in Id \ {h.id} : rows'[i] = rows[i]
    <3>1. rows'[h.id] = [rows[h.id] EXCEPT !.id = Free]
      BY <2>1 DEF MmioTypeOK
    <3>2. rows'[h.id].region = rows[h.id].region
      BY <2>1, <3>1, FreedRow
    <3> QED
      BY <2>1, <3>2 DEF MmioTypeOK
  <2>3. \A g \in held' : g.id \in Id \ {h.id}
    BY <2>1 DEF HeldRows, MmioTypeOK, HeldT
  <2>4. HeldRows'
    BY <2>1, <2>2, <2>3 DEF HeldRows
  <2>5. \A i \in Id : rows'[i].region = rows[i].region
    BY <2>2
  <2> QED
    BY <1>2, <1>4, <2>4, <2>5 DEF Unregister, memVars
<1>5. ASSUME MemoryNext, UNCHANGED <<rows, held>>
      PROVE  RowInv'
  <2>1. HeldRows'
    BY <1>5 DEF HeldRows
  <2>2. ASSUME Kept
        PROVE  RowsBacked' /\ RowsApart'
    BY <1>5, <2>2, KeptRows
  <2>3. ASSUME NEW v \in Vm, Refuse(v)
        PROVE  RowInv'
    BY <1>2, <1>5, <2>1, <2>3 DEF Refuse
  <2>4. ASSUME NEW v \in Vm, NEW phys \in Addr, NEW size \in Addr,
               AllocateMmio(v, phys, size)
        PROVE  RowInv'
    <3> DEFINE e == [phys |-> phys, size |-> size, slot |-> 0, type |-> "mmio"]
    <3>1. TypeOK /\ memory[v].next_slot \in Nat
      BY EntryTypes DEF MemInv
    <3>2. e \in EntryT
      BY DEF EntryT
    <3>3. AddEntry(v, e, memory[v].next_slot) /\ UNCHANGED slots
      BY <2>4 DEF AllocateMmio
    <3>4. Kept
      BY <3>1, <3>2, <3>3, AddEntryAppends
    <3>5. AllListed'
      <4> SUFFICES ASSUME NEW w \in Vm, NEW s \in slots[w]
                   PROVE  \E i \in DOMAIN memory'[w].entries :
                            /\ memory'[w].entries[i].type = "usable"
                            /\ memory'[w].entries[i].slot = s.slot
        BY <3>3 DEF AllListed, Listed, Entries
      <4> QED
        BY <3>4, KeptListed DEF AllListed
    <3> QED
      BY <2>1, <2>2, <3>4, <3>5
  <2>5. ASSUME NEW v \in Vm, NEW phys \in Addr, NEW size \in Addr,
               NEW type \in Kind, AllocateUsable(v, phys, size, type)
        PROVE  RowInv'
    <3> DEFINE n == memory[v].next_slot
               e == [phys |-> phys, size |-> size, slot |-> n, type |-> "usable"]
               r == [slot |-> n, phys |-> phys, size |-> size]
    <3>1. TypeOK /\ n \in Nat
      BY EntryTypes DEF MemInv
    <3>2. e \in EntryT /\ e.slot = n /\ e.type = "usable" /\ r.slot = n
      BY <3>1 DEF EntryT
    <3>3. /\ AddEntry(v, e, n + 1)
          /\ slots' = [slots EXCEPT ![v] = slots[v] \cup {r}]
      BY <2>5 DEF AllocateUsable
    <3> HIDE DEF e, r
    <3>4. /\ Kept
          /\ Len(Entries(v)) + 1 \in DOMAIN memory'[v].entries
          /\ memory'[v].entries[Len(Entries(v)) + 1] = e
      BY <3>1, <3>2, <3>3, AddEntryAppends
    <3>5. AllListed'
      <4> SUFFICES ASSUME NEW w \in Vm, NEW s \in slots'[w]
                   PROVE  \E i \in DOMAIN memory'[w].entries :
                            /\ memory'[w].entries[i].type = "usable"
                            /\ memory'[w].entries[i].slot = s.slot
        BY DEF AllListed, Listed, Entries
      <4>1. s \in slots[w] \/ (w = v /\ s = r)
        BY <3>1, <3>3 DEF TypeOK
      <4>2. CASE s \in slots[w]
        BY <3>4, <4>2, KeptListed DEF AllListed
      <4>3. CASE w = v /\ s = r
        BY <3>2, <3>4, <4>3
      <4> QED
        BY <4>1, <4>2, <4>3
    <3> QED
      BY <2>1, <2>2, <3>4, <3>5
  <2> QED
    BY <1>5, <2>3, <2>4, <2>5 DEF MemoryNext
<1>6. CASE UNCHANGED vars
  <2>1. UNCHANGED <<memory, slots, rows, held>>
    BY <1>6 DEF vars
  <2>2. HeldRows'
    BY <2>1 DEF HeldRows
  <2> QED
    BY <1>2, <2>1, <2>2
<1> QED
  BY <1>1, <1>3, <1>4, <1>5, <1>6 DEF Next

(***************************************************************************)
(* When linked_list_add does not fail and the table serves one VM, a guest *)
(* write in a region whose id the program holds calls that region's        *)
(* handler and no other, whatever was registered, given back or allocated  *)
(* before, and however full the table is.                                  *)
(***************************************************************************)
THEOREM HeldRegionsAreServed ==
  ASSUME NothingFails, OneVm
  PROVE  Spec => []HeldHandlerCalled
<1> DEFINE Inv == MmioTypeOK /\ MemInv /\ RowInv
<1>1. Init => Inv
  <2> SUFFICES ASSUME Init PROVE Inv
    OBVIOUS
  <2>1. MmioTypeOK /\ MemInv
    BY InitType, InitMemInv DEF Init
  <2>2. \A i \in Id, a \in Addr : ~Covers(rows[i].region, a)
    BY MemoryAssumption DEF Init, ZeroRow, Covers, Addr
  <2>3. AllListed
    BY DEF Init, MemoryInit, AllListed
  <2>4. RowsBacked /\ RowsApart
    BY <2>2 DEF RowsBacked, RowsApart
  <2>5. HeldRows
    BY DEF Init, HeldRows
  <2> QED
    BY <2>1, <2>3, <2>4, <2>5 DEF RowInv
<1>2. Inv /\ [Next]_vars => Inv'
  BY TypeStep, MemoryPart, RowsStep
<1>3. Inv => HeldHandlerCalled
  <2> SUFFICES ASSUME Inv, NEW h \in held, NEW a \in Addr,
                      h.region.write, Covers(h.region, a)
               PROVE  Called(h.vm, a, TRUE) = {h.id}
    BY DEF HeldHandlerCalled
  <2>1. h.id \in Id /\ h.vm \in Vm
    BY DEF MmioTypeOK, HeldT
  <2>2. rows[h.id].region = h.region
    <3>1. rows[h.id] = [id |-> h.id, region |-> h.region]
      BY DEF RowInv, HeldRows
    <3> QED
      BY <3>1
  <2>3. HandleWrite(a) = {h.id}
    BY <2>1, <2>2 DEF HandleWrite, RowInv, RowsApart
  <2>4. GuestBytes(h.vm, a) = {}
    <3>1. PICK k \in DOMAIN Entries(h.vm) :
            Entries(h.vm)[k].type = "mmio" /\ Holds(Entries(h.vm)[k], a)
      BY <2>1, <2>2 DEF RowInv, RowsBacked
    <3>2. \A r \in slots[h.vm] : Listed(h.vm, r)
      BY <2>1 DEF RowInv, AllListed
    <3> QED
      BY <2>1, <3>1, <3>2, MmioOutsideRam
  <2> QED
    BY <2>3, <2>4 DEF Called
<1> QED
  BY <1>1, <1>2, <1>3, PTL DEF Spec
-----------------------------------------------------------------------------
(***************************************************************************)
(* Proofs about Boot, for a binary of any length, pieces of any size, any  *)
(* requests before the loader starts and reads that fail or not.           *)
(***************************************************************************)

\* The loader starts with the one slot of the VM; slot numbers are bounded.
LoaderInv ==
  /\ loader = "allocates" => readed = 0
  /\ loader = "loads" \/ readed > 0 => memory[V].next_slot = 1
  /\ \A v \in Vm : memory[v].next_slot <= MaxEntries

BootInv == BootTypeOK /\ MemInv /\ LoaderInv /\ LoadedInOrder

LEMMA RequestsAreBounded ==
  ASSUME TypeOK, MemoryNext, NEW w \in Vm, memory[w].next_slot <= MaxEntries
  PROVE  memory'[w].next_slot <= MaxEntries
<1>1. /\ memory \in [Vm -> [entries : Seq(EntryT), next_slot : Nat]]
      /\ MaxEntries \in Nat
  BY MemoryAssumption DEF TypeOK
<1>2. PICK v \in Vm :
        \/ Refuse(v)
        \/ Bounded(v) /\ \E phys, size \in Addr :
             \/ \E type \in Kind : AllocateUsable(v, phys, size, type)
             \/ AllocateMmio(v, phys, size)
  BY DEF MemoryNext
<1>3. CASE Refuse(v)
  BY <1>3 DEF Refuse
<1>4. ASSUME Bounded(v), NEW e, NEW n \in Nat, AddEntry(v, e, n), n <= MaxEntries
      PROVE  memory'[w].next_slot <= MaxEntries
  BY <1>1, <1>4 DEF AddEntry
<1>5. memory[v].next_slot \in Nat
  BY EntryTypes
<1>6. ASSUME Bounded(v), NEW phys \in Addr, NEW size \in Addr, NEW type \in Kind,
             AllocateUsable(v, phys, size, type)
      PROVE  memory'[w].next_slot <= MaxEntries
  <2>1. memory[v].next_slot + 1 \in Nat /\ memory[v].next_slot + 1 <= MaxEntries
    BY <1>1, <1>5, <1>6 DEF Bounded
  <2> QED BY <1>4, <1>6, <2>1 DEF AllocateUsable
<1>7. ASSUME Bounded(v), NEW phys \in Addr, NEW size \in Addr,
             AllocateMmio(v, phys, size)
      PROVE  memory'[w].next_slot <= MaxEntries
  <2>1. memory[v].next_slot <= MaxEntries
    BY <1>1, <1>5, <1>7 DEF Bounded
  <2> QED BY <1>4, <1>5, <1>7, <2>1 DEF AllocateMmio
<1> QED BY <1>2, <1>3, <1>6, <1>7

\* The bytes of the guest, once it has one slot.
LEMMA OneSlot ==
  ASSUME MemInv, memory[V].next_slot = 1, NEW r \in slots[V], NEW s \in slots[V]
  PROVE  r = s /\ r.slot = 0
<1>1. r \in SlotT /\ s \in SlotT /\ r.slot < 1 /\ s.slot < 1
  BY BootAssumption, EntryTypes DEF MemInv, TypeOK
<1>2. r.slot = 0 /\ s.slot = 0
  BY <1>1 DEF SlotT
<1> QED BY <1>2, BootAssumption DEF MemInv, SlotsApart

LEMMA PlaceOfByte ==
  ASSUME MemInv, memory[V].next_slot = 1, MaxEntries >= 1, NEW r \in slots[V],
         NEW a \in Addr, NEW b \in GuestBytes(V, a)
  PROVE  /\ InSlot(r, a) /\ b = <<0, a - r.phys>> /\ b \in HostByteT
<1>1. PICK s \in slots[V] : InSlot(s, a) /\ b = <<s.slot, a - s.phys>>
  BY DEF GuestBytes
<1>2. s = r /\ r.slot = 0
  BY OneSlot
<1>3. r.phys \in Nat /\ r.size \in Nat /\ a \in Nat /\ a < Space
  BY BootAssumption, EntryTypes, MemoryAssumption DEF MemInv, SlotT, Addr
<1>4. 0 \in 0..(MaxEntries - 1) /\ a - r.phys \in Addr
  BY <1>1, <1>2, <1>3, MemoryAssumption DEF InSlot, Addr
<1> QED BY <1>1, <1>2, <1>4 DEF HostByteT

\* Where a piece is written: in the slot, from the place of its first byte.
LEMMA PlaceOfWrite ==
  ASSUME MemInv, memory[V].next_slot = 1, NEW dest \in Addr, Writable(V, dest)
  PROVE  \E r \in slots[V] :
           /\ InSlot(r, dest)
           /\ \A k \in Nat : HostByte(V, dest, k) = <<0, (dest - r.phys) + k>>
           /\ \A n \in Nat : Written(V, dest, n) =
                IF n < (r.phys + r.size) - dest THEN n ELSE (r.phys + r.size) - dest
<1>1. V \in Vm
  BY BootAssumption
<1>2. PICK i \in DOMAIN Entries(V) :
        Holds(Entries(V)[i], dest) /\ FindEntry(V, dest) = Entries(V)[i]
  BY <1>1, FoundIsHeld DEF MemInv, Writable
<1> DEFINE e == Entries(V)[i]
           r == SlotOf(e)
<1>3. e.type = "usable" /\ e.phys \in Addr /\ e.size \in Addr /\ e.slot \in Nat
  BY <1>1, <1>2, EntryTypes DEF Writable, MemInv, EntryT
<1>4. r \in slots[V] /\ r.phys = e.phys /\ r.size = e.size /\ r.slot = e.slot
  BY <1>1, <1>3 DEF MemInv, Backed, SlotOf
<1>5. e.slot = 0
  BY <1>4, OneSlot
<1>6. InSlot(r, dest)
  BY <1>1, <1>2, <1>3, <1>4, UsableIsRam DEF InSlot
<1>7. \A k \in Nat : HostByte(V, dest, k) = <<0, (dest - r.phys) + k>>
  BY <1>2, <1>4, <1>5 DEF HostByte
<1>8. e.size - (dest - e.phys) = (r.phys + r.size) - dest
  BY <1>3, <1>4, MemoryAssumption DEF Addr
<1>9. \A n \in Nat : Written(V, dest, n) =
        IF n < (r.phys + r.size) - dest THEN n ELSE (r.phys + r.size) - dest
  BY <1>2, <1>8 DEF Written
<1> HIDE DEF r
<1> QED BY <1>4, <1>6, <1>7, <1>9

\* A piece of r bytes: each byte that has a place in the slot is put there,
\* and the places of the bytes before it are left alone.
LEMMA PieceIsPlaced ==
  ASSUME BootInv, loader = "loads", NEW r \in 1..Buffer, readed + r <= Binary,
         Writable(V, Start + readed), ram' = Filled(Start + readed, readed, r)
  PROVE  /\ ram' \in [HostByteT -> 0..Binary]
         /\ \A k \in 0..(readed + r - 1) :
              \A b \in GuestBytes(V, Start + k) : ram'[b] = k + 1
<1> DEFINE dest == Start + readed
           count == Written(V, dest, r)
           At(k) == HostByte(V, dest, k)
<1>1. /\ MemInv /\ memory[V].next_slot = 1 /\ V \in Vm
      /\ readed \in Nat /\ r \in Nat /\ Binary \in Nat /\ readed + r <= Binary /\ r > 0
      /\ Start \in Nat /\ Start + Binary <= Space /\ Space \in Nat
      /\ ram \in [HostByteT -> 0..Binary]
  BY BootAssumption, MemoryAssumption DEF BootInv, LoaderInv, BootTypeOK, Addr
<1>2. MaxEntries \in Nat /\ MaxEntries >= 1
  BY <1>1, MemoryAssumption DEF BootInv, LoaderInv
<1>3. dest \in Addr
  BY <1>1 DEF Addr
<1>4. PICK s \in slots[V] :
        /\ InSlot(s, dest)
        /\ \A k \in Nat : At(k) = <<0, (dest - s.phys) + k>>
        /\ \A n \in Nat : Written(V, dest, n) =
             IF n < (s.phys + s.size) - dest THEN n ELSE (s.phys + s.size) - dest
  BY <1>1, <1>3, PlaceOfWrite
<1>5. s.phys \in Nat /\ s.size \in Nat
  BY <1>1, EntryTypes, MemoryAssumption DEF MemInv, SlotT, Addr
<1>6. /\ count \in Nat /\ count <= r
      /\ count = IF r < (s.phys + s.size) - dest THEN r ELSE (s.phys + s.size) - dest
  BY <1>1, <1>3, <1>4, <1>5 DEF InSlot, Addr
<1>7. \A j, k \in Nat : At(j) = At(k) => j = k
  <2> SUFFICES ASSUME NEW j \in Nat, NEW k \in Nat, At(j) = At(k)
               PROVE  j = k
    OBVIOUS
  <2>1. dest \in Int /\ s.phys \in Int
    BY <1>1, <1>5
  <2>2. (dest - s.phys) + j = (dest - s.phys) + k
    BY <1>4
  <2> HIDE DEF dest
  <2> QED BY <2>1, <2>2
<1>8. ram' = [b \in HostByteT |->
                IF \E k \in 0..(count - 1) : b = At(k)
                THEN readed + 1 + (CHOOSE k \in 0..(r - 1) : b = At(k))
                ELSE ram[b]]
  BY DEF Filled
<1> HIDE DEF At, count, dest
<1>9. ASSUME NEW j \in 0..(count - 1), At(j) \in HostByteT
      PROVE  ram'[At(j)] = readed + 1 + j
  <2>1. j \in 0..(r - 1)
    BY <1>1, <1>6
  <2>2. (CHOOSE k \in 0..(r - 1) : At(j) = At(k)) = j
    BY <1>7, <2>1
  <2> QED BY <1>8, <1>9, <2>2
<1>10. ASSUME NEW b \in HostByteT, \A k \in 0..(count - 1) : b # At(k)
       PROVE  ram'[b] = ram[b]
  BY <1>8, <1>10
<1>11. ram' \in [HostByteT -> 0..Binary]
  <2>1. ASSUME NEW b \in HostByteT
        PROVE  ram'[b] \in 0..Binary
    <3>1. CASE \E k \in 0..(count - 1) : b = At(k)
      <4>1. PICK j \in 0..(count - 1) : b = At(j)
        BY <3>1
      <4>2. ram'[b] = readed + 1 + j
        BY <1>9, <4>1
      <4> QED BY <1>1, <1>6, <4>2
    <3>2. CASE \A k \in 0..(count - 1) : b # At(k)
      BY <1>1, <1>10, <3>2
    <3> QED BY <3>1, <3>2
  <2> QED BY <1>8, <2>1
<1>12. ASSUME NEW k \in 0..(readed + r - 1), NEW b \in GuestBytes(V, Start + k)
       PROVE  ram'[b] = k + 1
  <2>1. k \in Nat /\ Start + k \in Addr /\ k < readed + r
    BY <1>1 DEF Addr
  <2>2. InSlot(s, Start + k) /\ b = <<0, (Start + k) - s.phys>> /\ b \in HostByteT
    BY <1>1, <1>2, <2>1, PlaceOfByte
  <2>3. CASE k < readed
    <3>1. ASSUME NEW j \in 0..(count - 1)
          PROVE  b # At(j)
      <4>1. j \in Nat /\ At(j) = <<0, (dest - s.phys) + j>>
        BY <1>4, <1>6
      <4>2. (Start + k) - s.phys # (dest - s.phys) + j
        BY <1>1, <1>5, <2>1, <2>3, <4>1 DEF dest
      <4> QED BY <2>2, <4>1, <4>2
    <3>2. ram'[b] = ram[b]
      BY <1>10, <2>2, <3>1
    <3>3. k \in 0..(readed - 1)
      BY <1>1, <2>1, <2>3
    <3> QED BY <3>2, <3>3 DEF BootInv, LoadedInOrder
  <2>4. CASE k >= readed
    <3>1. k - readed \in Nat /\ k - readed < count
      BY <1>1, <1>3, <1>5, <1>6, <2>1, <2>2, <2>4 DEF InSlot, dest
    <3>2. At(k - readed) = <<0, (dest - s.phys) + (k - readed)>>
      BY <1>4, <3>1
    <3>3. (dest - s.phys) + (k - readed) = (Start + k) - s.phys
      BY <1>1, <1>5, <2>1 DEF dest
    <3>4. k - readed \in 0..(count - 1) /\ b = At(k - readed)
      BY <1>6, <2>2, <3>1, <3>2, <3>3
    <3>5. ram'[b] = readed + 1 + (k - readed)
      BY <1>9, <2>2, <3>4
    <3> QED BY <1>1, <2>1, <3>5
  <2> QED BY <1>1, <2>1, <2>3, <2>4
<1> QED BY <1>11, <1>12

LEMMA BootStart == BootInit => BootInv
<1> SUFFICES ASSUME BootInit PROVE BootInv
  OBVIOUS
<1>1. MemInv /\ V \in Vm
  BY InitMemInv, BootAssumption DEF BootInit
<1>2. loader = "allocates" /\ readed = 0 /\ Binary \in Nat /\ MaxEntries \in Nat
  BY BootAssumption, MemoryAssumption DEF BootInit
<1>3. ram \in [HostByteT -> 0..Binary]
  BY <1>2 DEF BootInit, Unwritten
<1>4. BootTypeOK
  BY <1>1, <1>2, <1>3 DEF BootTypeOK, MemInv
<1>5. LoaderInv
  BY <1>1, <1>2 DEF LoaderInv, BootInit, MemoryInit
<1>6. LoadedInOrder
  BY <1>2 DEF LoadedInOrder
<1> QED BY <1>1, <1>4, <1>5, <1>6 DEF BootInv

LEMMA MemoryStays ==
  ASSUME UNCHANGED memVars
  PROVE  /\ MemInv => MemInv'
         /\ \A a : GuestBytes(V, a)' = GuestBytes(V, a)
<1>1. MemInv => MemInv'
  BY MemoryStep
<1>2. slots' = slots
  BY DEF memVars
<1> QED BY <1>1, <1>2 DEF GuestBytes

LEMMA BootStep == BootInv /\ [BootNext]_bootVars => BootInv'
<1> SUFFICES ASSUME BootInv, [BootNext]_bootVars
             PROVE  BootInv'
  OBVIOUS
<1>1. /\ MemInv /\ BootTypeOK /\ LoaderInv /\ LoadedInOrder /\ V \in Vm
      /\ readed \in Nat
  BY BootAssumption DEF BootInv, BootTypeOK
<1>2. CASE Allocate
  <2>1. MemInv' /\ readed' = readed /\ ram' = ram /\ readed = 0
    BY <1>1, <1>2, MemoryStep DEF Allocate, LoaderInv
  <2>2. loader' \in {"allocates", "failed"}
    BY <1>2 DEF Allocate
  <2>3. BootTypeOK'
    BY <1>1, <2>1, <2>2 DEF BootTypeOK, MemInv
  <2>4. \A v \in Vm : memory'[v].next_slot <= MaxEntries
    BY <1>1, <1>2, RequestsAreBounded DEF Allocate, LoaderInv, MemInv
  <2>5. LoaderInv'
    BY <2>1, <2>2, <2>4 DEF LoaderInv
  <2>6. LoadedInOrder'
    BY <2>1 DEF LoadedInOrder
  <2> QED BY <2>1, <2>3, <2>5, <2>6 DEF BootInv
<1>3. CASE LoadPiece
  <2>1. /\ loader = "loads" /\ memory[V].next_slot = 1 /\ UNCHANGED memVars
        /\ memory' = memory
    BY <1>1, <1>3 DEF LoadPiece, LoaderInv, memVars
  <2>2. PICK r \in 1..Buffer :
          /\ readed + r <= Binary
          /\ IF Writable(V, Start + readed)
             THEN /\ ram' = Filled(Start + readed, readed, r)
                  /\ readed' = readed + r /\ UNCHANGED loader
             ELSE loader' = "failed" /\ UNCHANGED <<readed, ram>>
    BY <1>3 DEF LoadPiece
  <2>3. MemInv' /\ TypeOK'
    BY <1>1, <2>1, MemoryStays DEF MemInv
  <2>4. CASE Writable(V, Start + readed)
    <3>1. /\ ram' = Filled(Start + readed, readed, r) /\ readed' = readed + r
          /\ loader' = "loads" /\ readed' \in 0..Binary
      BY <1>1, <2>1, <2>2, <2>4, BootAssumption
    <3>2. /\ ram' \in [HostByteT -> 0..Binary]
          /\ \A k \in 0..(readed + r - 1) :
               \A b \in GuestBytes(V, Start + k) : ram'[b] = k + 1
      BY <2>1, <2>2, <2>4, <3>1, PieceIsPlaced
    <3>3. BootTypeOK'
      BY <2>3, <3>1, <3>2 DEF BootTypeOK
    <3>4. LoaderInv'
      BY <1>1, <2>1, <3>1 DEF LoaderInv
    <3>5. LoadedInOrder'
      <4> SUFFICES ASSUME NEW k \in 0..(readed' - 1), NEW b \in GuestBytes(V, Start + k)'
                   PROVE  ram'[b] = k + 1
        BY DEF LoadedInOrder
      <4>1. b \in GuestBytes(V, Start + k)
        BY <2>1 DEF GuestBytes, memVars
      <4>2. k \in 0..(readed + r - 1)
        BY <1>1, <3>1, BootAssumption
      <4> QED BY <3>2, <4>1, <4>2
    <3> QED BY <2>3, <3>3, <3>4, <3>5 DEF BootInv
  <2>5. CASE ~Writable(V, Start + readed)
    <3>1. loader' = "failed" /\ readed' = readed /\ ram' = ram
      BY <2>2, <2>5
    <3>2. BootTypeOK' /\ LoaderInv'
      BY <1>1, <2>1, <2>3, <3>1 DEF BootTypeOK, LoaderInv
    <3>3. LoadedInOrder'
      BY <1>1, <2>1, <3>1, MemoryStays DEF LoadedInOrder
    <3> QED BY <2>3, <3>2, <3>3 DEF BootInv
  <2> QED BY <2>4, <2>5
<1>4. CASE LoadEnds \/ LoadStarts \/ UNCHANGED bootVars
  <2>1. /\ UNCHANGED memVars /\ memory' = memory /\ readed' = readed /\ ram' = ram
        /\ \/ loader' = "loaded"
           \/ loader' = "loads" /\ memory[V].next_slot = 1
           \/ loader' = loader
    BY <1>4 DEF LoadEnds, LoadStarts, bootVars, memVars
  <2>2. MemInv' /\ TypeOK'
    BY <1>1, <2>1, MemoryStays DEF MemInv
  <2>3. BootTypeOK'
    BY <1>1, <2>1, <2>2 DEF BootTypeOK
  <2>4. LoaderInv'
    BY <1>1, <2>1 DEF LoaderInv
  <2>5. LoadedInOrder'
    BY <1>1, <2>1, MemoryStays DEF LoadedInOrder
  <2> QED BY <2>2, <2>3, <2>4, <2>5 DEF BootInv
<1> QED BY <1>2, <1>3, <1>4 DEF BootNext

(***************************************************************************)
(* Before, while and after the loader of examples/guests/main.c runs, the  *)
(* memory is sound and the loader's progress and the bytes stay typed.     *)
(***************************************************************************)
THEOREM BootInvariant == BootSpec => []BootInv
BY BootStart, BootStep, PTL DEF BootSpec

THEOREM BootTypeCorrect == BootSpec => []BootTypeOK
<1>1. BootInv => BootTypeOK
  BY DEF BootInv
<1> QED BY <1>1, BootInvariant, PTL

(***************************************************************************)
(* Whatever pieces read gives and wherever memory_write cuts them, byte k  *)
(* of the binary is what the guest finds at START_ADDRESS + k.             *)
(***************************************************************************)
THEOREM BinaryIsInOrder == BootSpec => []LoadedInOrder
<1>1. BootInv => LoadedInOrder
  BY DEF BootInv
<1> QED BY <1>1, BootInvariant, PTL

(***************************************************************************)
(* e820_table_get tells the guest of the memory it has: usable addresses   *)
(* are RAM, reserved ones leave the guest, and no RAM is kept from it      *)
(* unless a linked_list_add failed.                                        *)
(***************************************************************************)
THEOREM E820IsTheMemory == BootSpec => []MapIsTheMemory
<1>1. MemInv => MapIsTheMemory
  <2> SUFFICES ASSUME MemInv, NEW a \in Addr
               PROVE  LET told(type) == \E i \in DOMAIN E820Table(V) :
                                          Tells(E820Table(V)[i], a, type)
                          whole == \A r \in slots[V] : Listed(V, r)
                      IN /\ told("usable") => GuestBytes(V, a) # {}
                         /\ whole /\ told("reserved") => GuestBytes(V, a) = {}
                         /\ whole /\ GuestBytes(V, a) # {} => told("usable")
    BY DEF MapIsTheMemory
  <2>1. V \in Vm /\ TypeOK
    BY BootAssumption DEF MemInv
  <2>2. DOMAIN E820Table(V) = DOMAIN Entries(V)
    BY DEF E820Table
  <2>3. \A i \in DOMAIN Entries(V), type \in {"usable", "reserved"} :
          Tells(E820Table(V)[i], a, type) <=>
            /\ Holds(Entries(V)[i], a)
            /\ type = IF Entries(V)[i].type = "usable" THEN "usable" ELSE "reserved"
    BY DEF E820Table, E820Type, Tells, Holds
  <2>4. \A i \in DOMAIN Entries(V) : Entries(V)[i].type \in {"usable", "mmio"}
    BY <2>1, EntryTypes DEF EntryT
  <2>5. ASSUME NEW i \in DOMAIN Entries(V), Tells(E820Table(V)[i], a, "usable")
        PROVE  GuestBytes(V, a) # {}
    BY <2>1, <2>3, <2>5, UsableIsRam
  <2>6. ASSUME \A r \in slots[V] : Listed(V, r),
               NEW i \in DOMAIN Entries(V), Tells(E820Table(V)[i], a, "reserved")
        PROVE  GuestBytes(V, a) = {}
    <3>1. Holds(Entries(V)[i], a) /\ Entries(V)[i].type = "mmio"
      BY <2>3, <2>4, <2>6
    <3> QED BY <2>1, <2>6, <3>1, MmioOutsideRam
  <2>7. ASSUME \A r \in slots[V] : Listed(V, r), GuestBytes(V, a) # {}
        PROVE  \E i \in DOMAIN Entries(V) : Tells(E820Table(V)[i], a, "usable")
    <3>1. PICK r \in slots[V] : InSlot(r, a)
      BY <2>7 DEF GuestBytes
    <3>2. PICK i \in DOMAIN Entries(V) :
            Entries(V)[i].type = "usable" /\ Entries(V)[i].slot = r.slot
      BY <2>7 DEF Listed
    <3>3. SlotOf(Entries(V)[i]) \in slots[V] /\ SlotOf(Entries(V)[i]).slot = r.slot
      BY <2>1, <3>2 DEF MemInv, Backed, SlotOf
    <3>4. SlotOf(Entries(V)[i]) = r
      BY <2>1, <3>3 DEF MemInv, SlotsApart
    <3>5. Holds(Entries(V)[i], a)
      BY <2>1, <3>1, <3>2, <3>4, UsableIsRam DEF InSlot, SlotOf
    <3> QED BY <2>3, <3>2, <3>5
  <2> QED BY <2>2, <2>5, <2>6, <2>7
<1>2. BootInv => MapIsTheMemory
  BY <1>1 DEF BootInv
<1> QED BY <1>2, BootInvariant, PTL
=============================================================================
