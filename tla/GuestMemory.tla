---------------------------- MODULE GuestMemory ----------------------------
(***************************************************************************)
(* The guest physical memory of src/memory.c: the list of entries the host *)
(* looks addresses up in, and the memory slots it gives to KVM, in which   *)
(* the guest's own accesses are looked up.  The two are kept in step by    *)
(* memory_alloc alone, which may fail between them.  Addresses are machine *)
(* words: sums wrap at Space.                                              *)
(***************************************************************************)
EXTENDS Naturals, Sequences

CONSTANTS Vm,          \* the VMs of the process
          Space,       \* the number of addresses, 2^64
          Page,        \* the page size of the kernel
          NodeFails,   \* whether malloc may fail in linked_list_add
          MaxEntries   \* bound: entries and slots per VM

ASSUME MemoryAssumption ==
  /\ Space \in Nat \ {0} /\ Page \in Nat \ {0} /\ MaxEntries \in Nat
  /\ NodeFails \in BOOLEAN

VARIABLES memory,  \* vm->mem: the list, and the next slot number
          slots,   \* the kernel's slots: what the guest finds as RAM
          reply    \* the last request, and that memory_alloc returned 1

memVars == <<memory, slots, reply>>

Addr == 0..(Space - 1)

\* The sum of two words.
Add(a, b) == IF a + b < Space THEN a + b ELSE (a + b) - Space

Kind == {"usable", "framebuffer", "mmio"}

\* allocate_usable stores MEMORY_USABLE for a framebuffer too.
EntryT == [phys : Addr, size : Addr, slot : Nat, type : {"usable", "mmio"}]
SlotT == [slot : Nat, phys : Addr, size : Addr]

Refused == [ret |-> 0]
ReplyT == {Refused} \cup [ret : {1}, phys : Addr, size : Addr, type : Kind]

TypeOK ==
  /\ memory \in [Vm -> [entries : Seq(EntryT), next_slot : Nat]]
  /\ slots \in [Vm -> SUBSET SlotT]
  /\ reply \in [Vm -> ReplyT]
  /\ \A v \in Vm : \A r \in slots[v] : r.slot < memory[v].next_slot

MemoryInit ==
  /\ memory = [v \in Vm |-> [entries |-> <<>>, next_slot |-> 0]]
  /\ slots = [v \in Vm |-> {}]
  /\ reply = [v \in Vm |-> Refused]
-----------------------------------------------------------------------------
(***************************************************************************)
(* Looking addresses up.                                                   *)
(***************************************************************************)
Entries(v) == memory[v].entries

\* The test of find_entry: address a is in entry e.
Holds(e, a) == e.phys <= a /\ Add(e.phys, e.size) > a

Hits(v, a) == {i \in DOMAIN Entries(v) : Holds(Entries(v)[i], a)}

\* find_entry returns the first match.
Found(v, a) == Hits(v, a) # {}
FindEntry(v, a) ==
  Entries(v)[CHOOSE i \in Hits(v, a) : \A j \in Hits(v, a) : i <= j]

\* The two tests of check_addr_available against one entry.
StartsIn(e, phys) == Holds(e, phys)
ReachesFrom(e, phys, size) == Add(phys, size) >= e.phys /\ phys < e.phys

\* Mutant: only the start of the new range is tested.
Available_StartOnly(v, phys, size) ==
  \A i \in DOMAIN Entries(v) : ~StartsIn(Entries(v)[i], phys)

\* Mutant: the end of an entry counts as part of it.
Available_EndTaken(v, phys, size) ==
  \A i \in DOMAIN Entries(v) :
    LET e == Entries(v)[i] IN
    /\ ~(e.phys <= phys /\ Add(e.phys, e.size) >= phys)
    /\ ~ReachesFrom(e, phys, size)

Available(v, phys, size) ==
  \A i \in DOMAIN Entries(v) :
    /\ ~StartsIn(Entries(v)[i], phys)
    /\ ~ReachesFrom(Entries(v)[i], phys, size)
-----------------------------------------------------------------------------
(***************************************************************************)
(* Where memory_write puts the bytes of a buffer: in the mapping of the    *)
(* entry that holds dest, up to its end.  memory_read takes them from the  *)
(* same places, and memory_get_ptr returns the first.  A mapping is known  *)
(* by its slot, to which it was given.                                     *)
(***************************************************************************)
Writable(v, dest) == Found(v, dest) /\ FindEntry(v, dest).type = "usable"

\* Mutant: the limit is the size of the entry, wherever dest is in it.
Written_WholeSize(v, dest, size) ==
  IF size < FindEntry(v, dest).size THEN size ELSE FindEntry(v, dest).size

Written(v, dest, size) ==
  LET e == FindEntry(v, dest)
      limit == e.size - (dest - e.phys)
  IN IF size < limit THEN size ELSE limit

HostByte(v, dest, k) ==
  LET e == FindEntry(v, dest) IN <<e.slot, (dest - e.phys) + k>>

\* Where the guest finds address a.
InSlot(r, a) == r.phys <= a /\ a < r.phys + r.size
GuestBytes(v, a) == {<<r.slot, a - r.phys>> : r \in {s \in slots[v] : InSlot(s, a)}}
-----------------------------------------------------------------------------
(***************************************************************************)
(* memory_alloc.                                                           *)
(***************************************************************************)
Granted(phys, size, type) ==
  [ret |-> 1, phys |-> phys, size |-> size, type |-> type]

(***************************************************************************)
(* KVM_SET_USER_MEMORY_REGION as a new slot: page aligned, not empty, not  *)
(* wrapping, apart from the other slots.                                   *)
(***************************************************************************)
KvmAccepts(v, slot, phys, size) ==
  /\ phys % Page = 0 /\ size % Page = 0 /\ size > 0
  /\ phys + size < Space
  /\ \A r \in slots[v] : /\ r.slot # slot
                         /\ r.phys + r.size <= phys \/ phys + size <= r.phys

(***************************************************************************)
(* A refusal: the range is not available, the type is unknown, or malloc,  *)
(* mmap or the ioctl fails.  Nothing was changed that is not undone.       *)
(***************************************************************************)
Refuse(v) ==
  /\ reply' = [reply EXCEPT ![v] = Refused]
  /\ UNCHANGED <<memory, slots>>

\* linked_list_add at the end of the list; memory_alloc ignores its failure.
AddEntry(v, e, next_slot) ==
  \E stored \in IF NodeFails THEN BOOLEAN ELSE {TRUE} :
    memory' = [memory EXCEPT ![v] =
                 [entries |-> IF stored THEN Append(Entries(v), e) ELSE Entries(v),
                  next_slot |-> next_slot]]

\* Usable memory and framebuffers: a slot first, then the entry.
AllocateUsable(v, phys, size, type) ==
  LET slot == memory[v].next_slot IN
  /\ type \in {"usable", "framebuffer"}
  /\ Available(v, phys, size)
  /\ KvmAccepts(v, slot, phys, size)
  /\ slots' = [slots EXCEPT ![v] =
                 @ \cup {[slot |-> slot, phys |-> phys, size |-> size]}]
  /\ AddEntry(v, [phys |-> phys, size |-> size, slot |-> slot,
                  type |-> "usable"], slot + 1)
  /\ reply' = [reply EXCEPT ![v] = Granted(phys, size, type)]

\* MMIO: no slot, so that the guest's accesses leave the guest.
AllocateMmio(v, phys, size) ==
  /\ Available(v, phys, size)
  /\ AddEntry(v, [phys |-> phys, size |-> size, slot |-> 0, type |-> "mmio"],
              memory[v].next_slot)
  /\ reply' = [reply EXCEPT ![v] = Granted(phys, size, "mmio")]
  /\ UNCHANGED slots

Bounded(v) == Len(Entries(v)) < MaxEntries /\ memory[v].next_slot < MaxEntries

MemoryNext ==
  \E v \in Vm :
    \/ Refuse(v)
    \/ Bounded(v) /\ \E phys, size \in Addr :
         \/ \E type \in Kind : AllocateUsable(v, phys, size, type)
         \/ AllocateMmio(v, phys, size)

MemorySpec == MemoryInit /\ [][MemoryNext]_memVars
-----------------------------------------------------------------------------
(***************************************************************************)
(* Whatever the order and the ranges of the requests, ranges that wrap and *)
(* empty ones included, no address is in two entries: which entry          *)
(* find_entry returns does not depend on the order of the list, and a      *)
(* memory_write, which goes to the entry find_entry returns, never reaches *)
(* another one.                                                            *)
(***************************************************************************)
FoundOnce ==
  \A v \in Vm : \A i, j \in DOMAIN Entries(v) : \A a \in Addr :
    Holds(Entries(v)[i], a) /\ Holds(Entries(v)[j], a) => i = j

(***************************************************************************)
(* What the host writes at an address is what the guest loads there: the   *)
(* k-th byte of a memory_write is the only byte the guest finds at         *)
(* dest + k, however far the write goes and whatever else was allocated    *)
(* since, so that no later slot redefines one that is in use.              *)
(***************************************************************************)
WrittenIsSeen ==
  \A v \in Vm : \A dest, size \in Addr :
    Writable(v, dest) =>
      \A k \in Addr : k < Written(v, dest, size) =>
        GuestBytes(v, dest + k) = {HostByte(v, dest, k)}

(***************************************************************************)
(* The guest's accesses to an MMIO range leave the guest: no slot covers   *)
(* any of it.  The list is what keeps the two apart, so that this needs    *)
(* every slot to be in the list.                                           *)
(***************************************************************************)
Listed(v, r) == \E i \in DOMAIN Entries(v) :
                  /\ Entries(v)[i].type = "usable"
                  /\ Entries(v)[i].slot = r.slot

MmioTraps ==
  \A v \in Vm : (\A r \in slots[v] : Listed(v, r)) =>
    \A a \in Addr : Found(v, a) /\ FindEntry(v, a).type = "mmio" =>
      GuestBytes(v, a) = {}

(***************************************************************************)
(* "Address not available" is only said of a range that wraps, that shares *)
(* an address with an entry or ends exactly where one starts (the test     *)
(* compares with >=, so that of two neighbouring ranges the lower must be  *)
(* allocated first), or that reaches the start of an entry which is empty  *)
(* or wraps and so has no address of its own.                              *)
(***************************************************************************)
RefusedOnlyIfTaken ==
  \A v \in Vm : \A phys, size \in Addr :
    ~Available(v, phys, size) =>
      \/ phys + size >= Space
      \/ \E a \in phys..(phys + size) : Found(v, a)
      \/ \E i \in DOMAIN Entries(v) :
           LET e == Entries(v)[i] IN
           /\ e.size = 0 \/ e.phys + e.size >= Space
           /\ phys < e.phys /\ e.phys <= phys + size
=============================================================================
