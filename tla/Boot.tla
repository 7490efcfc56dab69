-------------------------------- MODULE Boot --------------------------------
(***************************************************************************)
(* What a program does with guest memory before it runs the guest, over    *)
(* GuestMemory: the memory map it gets from e820_table_get, and the loader *)
(* of examples/guests/main.c, which reads a binary in pieces and writes    *)
(* each behind the one before.                                             *)
(***************************************************************************)
EXTENDS GuestMemory

CONSTANTS V,        \* the program's VM
          Start,    \* START_ADDRESS
          Buffer,   \* BUFFER_SIZE
          Binary,   \* the length of the binary
          ReadFails \* read may return -1

ASSUME BootAssumption ==
  /\ V \in Vm /\ Start \in Addr /\ Buffer \in Nat \ {0}
  /\ Binary \in Nat /\ Start + Binary <= Space /\ ReadFails \in BOOLEAN

VARIABLES loader,  \* "allocates", "loads", "loaded" or "failed" (errx)
          readed,  \* the bytes read so far
          ram      \* which byte of the binary each byte of a mapping holds

bootVars == <<memVars, loader, readed, ram>>

\* A byte of a mapping, by its slot and offset.
HostByteT == (0..(MaxEntries - 1)) \X Addr
Unwritten == 0

BootTypeOK ==
  /\ TypeOK
  /\ loader \in {"allocates", "loads", "loaded", "failed"} /\ readed \in 0..Binary
  /\ ram \in [HostByteT -> 0..Binary]

BootInit ==
  /\ MemoryInit
  /\ loader = "allocates" /\ readed = 0 /\ ram = [b \in HostByteT |-> Unwritten]
-----------------------------------------------------------------------------
\* Mutant: the type is not told apart.
E820Type_AllUsable(e) == "usable"

E820Type(e) == IF e.type = "usable" THEN "usable" ELSE "reserved"

\* e820_table_get.
E820Table(v) ==
  [i \in DOMAIN Entries(v) |->
     [base_address |-> Entries(v)[i].phys, size |-> Entries(v)[i].size,
      type |-> E820Type(Entries(v)[i])]]
-----------------------------------------------------------------------------
\* memory_write of the bytes first + 1 to first + r of the binary.
Filled(dest, first, r) ==
  [b \in HostByteT |->
     IF \E k \in 0..(Written(V, dest, r) - 1) : b = HostByte(V, dest, k)
     THEN first + 1 + (CHOOSE k \in 0..(r - 1) : b = HostByte(V, dest, k))
     ELSE ram[b]]

\* Mutant: the count advances by the size of the buffer.
LoadPiece_WholeBuffer ==
  /\ loader = "loads"
  /\ \E r \in 1..Buffer :
       /\ readed + r <= Binary
       /\ IF Writable(V, Start + readed)
          THEN /\ ram' = Filled(Start + readed, readed, r)
               /\ readed' = readed + Buffer /\ UNCHANGED loader
          ELSE loader' = "failed" /\ UNCHANGED <<readed, ram>>
  /\ UNCHANGED memVars

\* Mutant: the destination does not advance.
LoadPiece_SamePlace ==
  /\ loader = "loads"
  /\ \E r \in 1..Buffer :
       /\ readed + r <= Binary
       /\ IF Writable(V, Start)
          THEN ram' = Filled(Start, readed, r) /\ readed' = readed + r /\ UNCHANGED loader
          ELSE loader' = "failed" /\ UNCHANGED <<readed, ram>>
  /\ UNCHANGED memVars

\* One piece: read returns r bytes, which may be less than the buffer, and
\* memory_write may write less; only -1 is an error.
LoadPiece ==
  /\ loader = "loads"
  /\ \E r \in 1..Buffer :
       /\ readed + r <= Binary
       /\ IF Writable(V, Start + readed)
          THEN /\ ram' = Filled(Start + readed, readed, r)
               /\ readed' = readed + r /\ UNCHANGED loader
          ELSE loader' = "failed" /\ UNCHANGED <<readed, ram>>
  /\ UNCHANGED memVars

\* read returns 0 at the end of the file, or -1, which ends the loop as well.
LoadEnds ==
  /\ loader = "loads"
  /\ ReadFails \/ readed = Binary
  /\ loader' = "loaded"
  /\ UNCHANGED <<memVars, readed, ram>>

\* The allocations of main; a refusal ends it.
Allocate ==
  /\ loader = "allocates"
  /\ MemoryNext
  /\ loader' = IF reply'[V].ret = 0 THEN "failed" ELSE "allocates"
  /\ UNCHANGED <<readed, ram>>

\* main loads after its one memory_alloc, of usable memory.
LoadStarts ==
  /\ loader = "allocates"
  /\ memory[V].next_slot = 1 /\ Len(Entries(V)) <= 1
  /\ loader' = "loads"
  /\ UNCHANGED <<memVars, readed, ram>>

BootNext == Allocate \/ LoadStarts \/ LoadPiece \/ LoadEnds

BootSpec == BootInit /\ [][BootNext]_bootVars
-----------------------------------------------------------------------------
(***************************************************************************)
(* The map is the memory: what a guest is told to use is RAM, what it is   *)
(* told is reserved leaves the guest, and, when no entry was lost, all RAM *)
(* is told of.                                                             *)
(***************************************************************************)
Tells(e, a, type) ==
  e.type = type /\ e.base_address <= a /\ Add(e.base_address, e.size) > a

MapIsTheMemory ==
  \A a \in Addr :
    LET told(type) == \E i \in DOMAIN E820Table(V) : Tells(E820Table(V)[i], a, type)
        whole == \A r \in slots[V] : Listed(V, r)
    IN /\ told("usable") => GuestBytes(V, a) # {}
       /\ whole /\ told("reserved") => GuestBytes(V, a) = {}
       /\ whole /\ GuestBytes(V, a) # {} => told("usable")

(***************************************************************************)
(* Whatever pieces read gives, and wherever the memory ends: each byte     *)
(* read so far that has a place in the guest's memory is at that place,    *)
(* so that a piece that was cut leaves no hole before the next.            *)
(***************************************************************************)
LoadedInOrder ==
  \A k \in 0..(readed - 1) :
    \A b \in GuestBytes(V, Start + k) : ram[b] = k + 1
=============================================================================
