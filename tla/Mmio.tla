-------------------------------- MODULE Mmio --------------------------------
(***************************************************************************)
(* The MMIO regions of src/mmio.c over the guest memory of src/memory.c,   *)
(* and what vm_run of src/vm.c does with a guest access that leaves the    *)
(* guest.  The table of regions is one for the whole process: a row names  *)
(* neither the VM it was registered for nor its place in the list of       *)
(* memory entries, and nothing but the order of the calls keeps the two in *)
(* step.                                                                   *)
(***************************************************************************)
EXTENDS GuestMemory, Integers

CONSTANTS MaxRegions,  \* MAX_MMIO_REGION_COUNT
          Regions      \* the struct mmio_region the program may register

RegionT == [base : Addr, high : Addr, write : BOOLEAN, read : BOOLEAN]

ASSUME MmioAssumption == MaxRegions \in Nat /\ Regions \subseteq RegionT

VARIABLES rows,  \* mmio_regions
          held   \* the ids the program was given and has not given back

vars == <<memory, slots, reply, rows, held>>

Id == 0..(MaxRegions - 1)
Free == -1

RowT == [id : Id \cup {Free}, region : RegionT]
HeldT == [id : Id, vm : Vm, region : Regions]

MmioTypeOK ==
  /\ TypeOK
  /\ rows \in [Id -> RowT]
  /\ held \subseteq HeldT

\* A static table: every row has id 0, which is not free, until mmio_init.
ZeroRow == [id |-> 0,
            region |-> [base |-> 0, high |-> 0, write |-> FALSE, read |-> FALSE]]

Init ==
  /\ MemoryInit
  /\ rows = [i \in Id |-> ZeroRow]
  /\ held = {}
-----------------------------------------------------------------------------
\* The difference of two words.
Sub(a, b) == IF a >= b THEN a - b ELSE (a + Space) - b

(***************************************************************************)
(* mmio_init, which DOCS.md asks for before any registration: the rows are *)
(* marked free and keep everything else.                                   *)
(***************************************************************************)
MmioInit ==
  /\ held = {}
  /\ rows' = [i \in Id |-> [rows[i] EXCEPT !.id = Free]]
  /\ UNCHANGED <<memVars, held>>

FreeRows == {i \in Id : rows[i].id = Free}

\* Row i is taken for region r of VM v, and the program is given its id.
Take(i, id, v, r) ==
  /\ rows' = [rows EXCEPT ![i] = [id |-> id, region |-> r]]
  /\ held' = held \cup {[id |-> id, vm |-> v, region |-> r]}

\* Mutant: ids count from 1.
TakeFreeRow_FromOne(v, r) ==
  \E i \in FreeRows : (\A j \in FreeRows : i <= j) /\ Take(i, i + 1, v, r)

\* Mutant: the search does not look whether the row is free.
TakeFreeRow_First(v, r) ==
  \E i \in Id : (\A j \in Id : i <= j) /\ Take(i, i, v, r)

TakeFreeRow(v, r) ==
  \E i \in FreeRows : (\A j \in FreeRows : i <= j) /\ Take(i, i, v, r)

(***************************************************************************)
(* mmio_register: the memory entry first, then a row; when there is no row *)
(* left the entry stays.                                                   *)
(***************************************************************************)
Register(v, r) ==
  /\ Bounded(v)
  /\ AllocateMmio(v, r.base, Sub(r.high, r.base))
  /\ \/ TakeFreeRow(v, r)
     \/ FreeRows = {} /\ UNCHANGED <<rows, held>>

\* mmio_unregister, with an id that mmio_register returned.
Unregister(h) ==
  /\ rows' = [rows EXCEPT ![h.id] = [@ EXCEPT !.id = Free]]
  /\ held' = held \ {h}
  /\ UNCHANGED memVars

Next ==
  \/ MmioInit
  \/ \E v \in Vm, r \in Regions : Register(v, r)
  \/ \E h \in held : Unregister(h)
  \/ MemoryNext /\ UNCHANGED <<rows, held>>  \* memory_alloc, a refused register

Spec == Init /\ [][Next]_vars
-----------------------------------------------------------------------------
Covers(r, a) == r.base <= a /\ a < r.high

(***************************************************************************)
(* mmio_handle_write: every row that covers the address and has a handler, *)
(* free or not.                                                            *)
(***************************************************************************)
HandleWrite(a) ==
  {i \in Id : Covers(rows[i].region, a) /\ rows[i].region.write}

(***************************************************************************)
(* The handlers vm_run calls for an access of v's guest at address a: an   *)
(* access to RAM makes no exit, and of the others only the writes are      *)
(* passed on.                                                              *)
(***************************************************************************)
Called(v, a, is_write) ==
  IF GuestBytes(v, a) = {} /\ is_write THEN HandleWrite(a) ELSE {}
-----------------------------------------------------------------------------
(***************************************************************************)
(* As long as the program holds the id of a region with a write handler,   *)
(* each guest write in the region calls that handler, and no other: no RAM *)
(* was allocated over it, its row was not given to another region, and no  *)
(* row, of those given back included, covers a part of it.  For one VM     *)
(* (the table is shared) and a linked_list_add that does not fail.         *)
(***************************************************************************)
HeldHandlerCalled ==
  \A h \in held : \A a \in Addr :
    h.region.write /\ Covers(h.region, a) => Called(h.vm, a, TRUE) = {h.id}
=============================================================================
