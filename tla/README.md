# A verification of blackhv

blackhv is a small hypervisor library over Linux KVM: a program creates a VM,
gives it memory and emulated devices, and calls `vm_run`, which executes the
guest and dispatches its exits to handlers.  This directory holds TLA+ models of
the library's code, the TLC runs that check them on small instances, and proofs
that the TLA+ proof system checks for every value of the constants.

`PROJECT.json` is the index: components, runs, the source lines each definition
stands for, the mutants that show each property can fail, hazards, theorems.

    tlc -workers 2 -config MCQueue.cfg MCQueue     # a run
    tlapm QueueProofs.tla                          # the proofs of a module

## 1. The system

| component | state | operations | who calls it |
|---|---|---|---|
| queue (`src/queue.c`) | ring of bytes: `front`, `rear`, `is_full`, a mutex | `queue_write`, `queue_read`, `queue_empty`, new, destroy | serial port, from several threads |
| serial (`src/serial.c`) | two queues, `host_queue` and `guest_queue` | `serial_inb/outb` (vCPU thread), `serial_read/write` (host threads), new, destroy | port I/O, the program |
| port I/O (`src/io.c`) | one table of handlers for the process | register, unregister, dispatch | devices, `vm_run` |
| memory (`src/memory.c`) | list of entries, next slot number; the kernel's slots | `memory_alloc`, `memory_write/read/get_ptr`, e820 table | program, mmio, screen |
| mmio (`src/mmio.c`) | one table of 64 regions for the process | init, register, unregister, `mmio_handle_write` | program, `vm_run` |
| linked list (`src/linked_list.c`) | doubly linked nodes | add, pop, remove, walks | memory |
| atapi (`src/atapi.c`) | packet and block counters, one for the process | port handlers of an ATAPI drive | port I/O |
| vm (`src/vm.c`) | descriptors, `kvm_run` | new, vCPU init, `vm_run`, destroy | program |
| screen (`src/screen.c`) | SDL objects, framebuffer address | init, run (own thread), uninit | program |
| examples | threads and the order of the calls | `worker0`, `worker1`, `screen_run`, `main`; the echo guest | - |

**Threads.** The echo example runs four: `main` inside `vm_run` (it executes
every port and MMIO handler for the guest), `worker0` (types lines into
`serial_write`), `worker1` (polls `serial_read`), and `screen_run`.  The only
lock in the library is the mutex of each queue, and even there the tests for
full and empty are made outside it.  Handlers are function pointers in two
process-wide tables that the vCPU thread reads without a lock.

**What is hard.** (a) The unlocked tests of the queue, and the guest's
poll-then-read on top of them.  (b) Two views of the guest's memory, the
library's list and the kernel's slots, kept in step by one function that can
fail between them.  (c) The MMIO table and the memory list, which know nothing
of each other and where nothing is ever given back to the list.  (d) Device
state machines driven one port access at a time.  (e) Partial failure in every
constructor, and destruction while other threads run.

**What makes each component correct.**
queue: a FIFO; no byte overwritten unread, exact counts, calls return.
serial: what was typed comes back in order; data ready means data.
memory: entries do not overlap; host and guest see the same bytes; MMIO is not
RAM; the memory map tells the guest what is there.
mmio: a registered handler gets the writes to its region, and only those.
linked list: the nodes are the sequence the calls made; walks end.
port I/O: each device serves its ports while it lives, and no longer.
atapi: a read the disc completed transfers the block that was asked for, whatever failed before; commands end.
vm: what a VM holds is its own; a vCPU that runs was initialised.
screen: the thread never uses what was destroyed; the window shows the framebuffer.

## 2. Plan

| step | modules | status |
|---|---|---|
| 1 | `ByteFifo`, `Queue`, `QueueProofs` | done |
| 2 | `EchoPipe`, `Serial` (two queues composed with the guest and three threads), `SerialProofs` | done |
| 3 | `GuestMemory`, `Mmio` (over GuestMemory), `MemoryProofs` | done |
| 4 | `LinkedList` (nodes and pointers) against a sequence, `LinkedListProofs`; discharges the use of a sequence in `GuestMemory` | done |
| 5 | `Ports` (the table, the devices in it, `vm_run`'s IN and OUT exits), `PortsProofs`; `Atapi` with a driver, `AtapiProofs` | done |
| 6 | `Machine`: constructors that fail half way, repeated calls, destruction; `MachineProofs` | done |
| 7 | `Screen` thread, `ScreenProofs`; `Boot`: the e820 table and the loader, over GuestMemory, proofs in `MemoryProofs` | done |
| 8 | proofs that tie the parts together: Serial implements EchoPipe, from the two queues' theorems | done |

## 3. Modules

**`Queue`** models `queue.c` at the grain at which threads interleave.  A call
is a program counter and locals per thread (`call[t]`).  `WriteCall`, `ReadCall`
and `EmptyCall` run up to the first load of a shared field; `LoadFront` and
`LoadRear` are the other two unlocked loads of `is_full == 0 && front == rear`
(the build is not optimised, so each is a load from memory); `Lock` takes the
mutex; `PutByte` and `TakeByte` are one turn of the loop; `WriteEnd` and
`ReadEnd` store `is_full`, unlock and return.  Inside the mutex, the store of a
byte and of its index are one step: nobody looks at the buffer outside the mutex,
and it is only the index that others can see.  The two loops are `do ... while`,
as in the code: they move a byte before they look.
*`ByteFifo`* is what the header promises: a sequence, calls that move bytes
one at a time and may return early, answers of "not empty" that are true.  The
refinement mapping reads the sequence off the ring, and hides the mutex and the
program counters.

**`Serial`** takes two instances of `Queue` and adds the guest.  The guest is
the echo program of `guest32.c`: print a text, then receive and send.  Each of
its port accesses is a handler call in the vCPU thread (`LineStatus`, `ReadStatus`,
`SendStatus`, `ReceiveStatus` ...), made of that thread's steps of the queue.
`worker0` and `worker1` write lines and read characters.
*`EchoPipe`* is the line as its user sees it: two FIFOs and the guest's hand
between them.  It admits two faults, each in one situation only, because the code
has them (section 6): a character is lost when the FIFO to the host had no
room as the present read began, and a NUL appears when the FIFO to the guest is
full.  `EchoInv` is what the vCPU thread may rely on in each of the queue's
functions, and what the refinement needs.

**`GuestMemory`** models `memory.c`: the list as a sequence of entries, the
kernel's slots beside it, and `memory_alloc` with each of its failures.  KVM is
external and modelled by what the code needs of it (`KvmAccepts`: page aligned, not
empty, not wrapping, apart from the other slots).  Addresses are words: every
sum is `Add`, which wraps.  `memory_write`, `memory_read` and `memory_get_ptr`
change no state of the model; `Written` and `HostByte` say which bytes of which
mapping they reach, `GuestBytes` where the guest finds an address.

**`Boot`** extends `GuestMemory` with what a program does before it runs the
guest: `E820Table` is `e820_table_get`, and `LoadStarts`, `LoadPiece`, `LoadEnds`
are the loader of `examples/guests/main.c`, which starts after a single
allocation as `main` does; `read` may return any part of a buffer.  `ram` records
which byte of the binary each byte of a mapping holds.

**`Mmio`** extends `GuestMemory` with the process-wide table.  A row is
"free" by its id alone and keeps its range and handlers; before `mmio_init` all
rows have id 0, which is not free.  `Register` is the whole function: memory
entry, then a row, and the entry stays when there is no row.  `Called` is what
`vm_run` does with an access: nothing if it is RAM, the matching rows if it is a
write, nothing if it is a read.  `held` records the ids the program has, so that
`mmio_unregister` is only called with one of them, as `DOCS.md` asks.

**`LinkedList`** has the nodes as records with `prev`, `next` and a value, the
set of live nodes, and the sequence (`order`) the calls were to make.  Calls
without a loop (`Add`, `PopFront`, `PopTail`, `New`) are one step; the others are
a start, one step per element (`Pass`, `Remove`, `FreeElt`) and `Return`, so that
a property of the list is also one of every moment of a walk.  An access to a
freed node or through NULL sets `fault` and nothing is said of what follows.
`linked_list_add` leaves the first element's `prev` pointing at the last one, so
that `linked_list_remove_at`, `linked_list_remove_eq` on the first element and
`linked_list_for_each_rev` break the list (section 6).  `HeadPopped` is the
contract under which everything else is right: the first element leaves through
`linked_list_pop_front` only.  The library keeps it: it only adds, finds and
frees.  `Spec` has no backward walk, `SpecBack` has.

**`Ports`** is the table of `io.c` together with the devices that put
themselves into it.  `SerialNew`, `SerialDestroy` and `AtapiInit` write the very
ports the code writes; `Exit` is `handle_exit_io` with the four dispatchers.
The table has one element less than there are ports, and the last port reads
what happens to be behind it (`Behind`).  `apart` records whether the program
has so far put every device on ports of its own: the code never asks.

**`Atapi`** has the drive's static variables under the names of the code and
a handler per register that changes them: `SelectOutb`, `DataOutw`, `DataInw`,
`SectorCountInb` (`signature_inb`, which executes what has arrived of a packet).
Counters are in words, since the data register moves two bytes.  The disc is
an open file: a word of it is its place, and `file_pos` is where `lseek` and `read`
left the descriptor.  Either may fail (`DiskFails`).  As in
the code nobody looks: after a failed `lseek` the drive reads on from the old
position, which may give a whole block of other words, after a short `read` it keeps
the rest of the block before, and either way the guest is told that
the command is complete.  `failed` keeps what the two calls returned, for the
properties alone.  `Reads` are the first words of a packet whose opcode byte is
READ_12.  The guest is a driver that selects the
master, polls, sends, reads, and may give up anywhere (`GiveUp`), and programs
that touch the data register before it (`StrayRead`, `StrayWrite`), so that a
command finds whatever state was left.

**`Machine`** is the life of a `vm_t`: `VmNew` in all its ways to fail,
`VmInit` (`vm_vcpu_init_state`: `Asked` are the steps its arguments ask for, `Place`
their order; any may fail, and the call may be made again on what is left), `VmRun`, `VmDestroy`.  File
descriptors are numbers that the kernel reuses, smallest first; closing one that
is another's is what a wrong order would do.  `Nobody` owns what `vm_new` left
open and the standard input.  A vCPU is ready when the registers
of its mode were set.

**`Screen`** is `main`'s order of calls, the thread of `screen_run` step by step
(first test, events, lock of the texture, a step per copied pixel, unlock, render) and
a guest that writes pixels.  A pixel's value is the time it was written.

## 4. Runs

| run | instance | shows |
|---|---|---|
| `queue_safety` | one writer, one reader, ring of 3, 2 byte values, calls of 0-3 bytes, under fairness; 225 thousand states | `IndInv`, `LoopSafe`, Queue implements `ByteFifo`; each call returns; a byte in the ring is taken |
| `serial_echo` | rings of 2, lines of up to 1 character, a text of 1, under fairness; 388 thousand states | `EchoInv` (with `FullCount`: a full flag stands for a full ring), Serial implements `EchoPipe`; typed characters reach the guest, sent ones the host |
| `serial_data_ready` | the same with lines of 2 | violation: data ready does not mean data |
| `guest_memory` | 6 addresses, pages of 2, 3 allocations, every range; the loader with a binary of 3 in pieces of 1-2; 252 thousand states | no overlap; host and guest agree; MMIO is not RAM; refusals are justified; the e820 table agrees with the slots; the binary is in order and without holes |
| `mmio_served` | 6 addresses, 3 entries, a table of 2, six regions; 67 thousand states | a write in a held region calls its handler and no other |
| `linked_list` | 4 nodes, 2 values, under fairness | nodes, pointers and size are those of the sequence; walks meet it and end; `free` leaves nothing |
| `linked_list_head` | 3 nodes, `HeadPopped` FALSE | violation: removing the first element |
| `atapi` | packets of 4 words, blocks of 2, a disc of 2 blocks whose seeks and reads fail, under fairness; 730 thousand states | the driver reads its block when the disc gave it, whatever failed before; probes find the master; every command ends |
| `ports` | 3 serial ports at 5 places that touch and overlap each other and the drive; 37 thousand states | each device serves its ports; no handler of a freed serial port |
| `ports_last` | the same, with accesses to the last port | violation: a port nobody has is served |
| `machine` | 2 VMs, 5 descriptors, every call failing; 28 thousand states | descriptors stay their VM's own; a vCPU that runs is ready |
| `screen` | 3 pixels, each written twice, under fairness | no use of what is destroyed; no pixel goes back; the window comes to show the framebuffer |

**Why the bounds are enough to see the cases.**  *Queue:* three slots and calls of
up to three bytes make rings wrap, fill and empty, also in the middle of a call
that asked for more (the theorems have calls of any size); two byte values tell an old byte from a new one.  *Serial:*
the queues are instances of the module checked above; one typed
character besides NUL is enough for losses and spurious NULs, since no code
looks at the value; that distinct characters keep their order, and
lines of any length, are in the theorem `SerialIsEchoPipe`.
*Memory:* six addresses with pages of two give adjacent slots, ranges of one
word inside a page, empty ranges and ranges that wrap; three entries give a list
whose first, middle and last entry can each be the one that matters; the binary
may end before, at and behind the end of the memory.  *Mmio:* a table of two
rows with six regions is full, freed and reused.  *List:* four nodes give a
removal a first, a last and two inner elements.  *Atapi:* a packet has the word
with the command, the two of the block number and one behind them; of the four
block numbers two are on the disc, one is behind its end and one has an offset that
wraps.  Short reads leave the file inside a block of two words, so that a failed seek
gives words of one block, of two, or one word at the end of the disc.  *Ports:* the five places
for three serial ports have one on the drive's ports (10), neighbours (10, 18,
26, 34) and one across two others (22).
*Machine:* two VMs and five numbers besides the standard one make a number closed
by one the next one's.

In the memory and mmio runs the VIEW leaves out `reply`, which no action and no
property but the type invariant reads.  `NodeFails` makes `linked_list_add` fail:
TRUE in `guest_memory`, FALSE in `mmio_served`, whose property needs it.  Deadlock is
checked except where the system stops: `guest_memory` (the loader ends),
`machine` (the process crashed, or every descriptor is lost), `screen` (`main`
ends) and two of the violation runs.

## 5. Fairness

*Queue:* a thread inside a call keeps running and gets
the mutex if it stays free (weak fairness; a default pthread mutex promises no
more), and a reader comes back to `queue_read` for ever, as `worker1` does
(strong fairness of that call, because in this module a reader may also call
`queue_empty`, which must not stand in for its reads).  A writer need never call.
This is enough for calls to return: a thread holds the mutex for finitely many
steps, and with one thread per end the other runs out of bytes or of room in front
of the lock.  *Serial:* weak fairness of each of the three threads:
the guest, which runs as long as `vm_run` does, a line in the middle of
`serial_write`, and `worker1`.  Whether anything is typed is the user's choice.
*LinkedList:* a call keeps running (weak fairness of its steps).  *Atapi:* the
driver keeps polling (weak fairness of its accesses; beginning and giving up are
not fair).  *Screen:* the thread is scheduled (weak), and `SDL_LockTexture`, tried
for ever, succeeds in the end (strong: it may fail in between); the guest need
not write, and the property is about a guest that has stopped.

## 6. Findings

Three are shown by a run:

1. **A guest that waited for data is given a 0** (`serial_data_ready`).  The
   line status comes from `queue_empty`, the data from a second unlocked test
   in `queue_read`.  When `worker0` has moved `rear` onto `front` and not
   yet stored `is_full`, the full ring looks empty, and `serial_inb` answers 0.
2. **Removing the first element makes the list a circle** (`linked_list_head`).
   `remove_elt` follows the first element's `prev`, which `linked_list_add`
   (l. 42) pointed at the last one, and links the last to the second.
3. **Port 0xFFFF is behind the table** (`ports_last`): `handlers` has 0xFFFF
   elements and is indexed with a `u16`.

The following were met while modelling.  The models have the behaviour; no run
is spent on them, because one line of the code shows each.

| where | the code | the repository says |
|---|---|---|
| `serial.c:22` | a character is dropped when `guest_queue` is full; LSR bit 5 is always set | `serial.c:70`: "Data ready and serial ready to receive more data" |
| `memory.c:150` | `memory_alloc` answers 1 although `linked_list_add` failed | `DOCS.md:118`: "0 on error, 1 otherwise" |
| `mmio.c:57` | the handler of an unregistered region runs until its row is reused | `DOCS.md:382`: "Unregister a MMIO region." |
| `vm.c:318` | nothing calls `read_handler` | `DOCS.md:352`: "the write and read handler associated with it" |
| `linked_list.c:42` | `linked_list_for_each_rev` never ends | `linked_list.h:92`: "on each elements (reverse order)" |
| `linked_list.c:100` | after two `linked_list_pop_tail` the empty list's tail is a freed node | `linked_list.h:50`: "the value on success, NULL on error" |
| `atapi.c:174` | a word behind a complete packet is dropped; the status, a constant, says DRQ | `atapi.c:166`: "Always ready to receive data and never busy" |
| `atapi.c:180` | words for the slave go into the master's packet | `atapi.c:127`: "Only supporting one drive on PRIMARY PORT MASTER" |
| `atapi.c:214` | selecting a drive on the secondary bus selects it on the primary one | as above |
| `vm.c:37` | `vm_new` clears what `malloc` returned before it tests it | `DOCS.md:22`: "`NULL` otherwise" |
| `vm.c:69` | `vm_destroy` leaves `vcpu_fd` open and `kvm_run` mapped | `DOCS.md:30`: "Destroy and free all the resources" |
| `vm.c:84` | `set_real_mode` answers 0 on success and -1 on failure, and so does `vm_vcpu_init_state` in real mode | `DOCS.md:49`: "1 on success, 0 otherwise" |
| `vm.c:158` | a failing `KVM_GET_SUPPORTED_CPUID` counts as success | as above |
| `screen.c:139` | `screen_uninit` frees neither the `screen_t` nor `vm->screen` | `DOCS.md:419`: "Free memory used by a VM screen." |
| `examples/guests/main.c:142` | a binary that crosses the end of the memory is cut and the guest started | `main.c:145`: "Failed to load the binary into memory" |

With more than one thread per end the queue's loops can overwrite or re-read
bytes: the library never uses it so, and the theorems say which assumption
they need (`OneThreadPerEnd`).

## 7. Proofs

All proofs are for any buffer size, call size, byte set, address space, page
size, table size, number of entries, nodes, devices and ports, packet, block and
disc size, number of pixels, binary, number of VMs and of descriptors.  Every
safety property and every refinement a passing run checks is stated by a theorem.
The inductive invariants were checked by TLC on small instances first.

**Queue.**  `TypeCorrect` holds for any number of threads.  The rest assumes
`OneThreadPerEnd`: at most one writing and one reading thread.
The properties are not inductive: that a loop may move a byte without looking
depends on what its thread saw before the lock still holding after it.  `IndInv`
(a conjunction of named parts in `Queue.tla`, which TLC also checks) ties indices
and `is_full` to the number of unread bytes, says who holds the mutex where, and
keeps what each thread's tests established: only the reader frees room, so "not
full" stays true for the writer, and only the writer adds, so "not empty" stays true
for the reader.  From `RingInvariant` follow `LoopsAreSafe` (no overwrite,
no read of an empty ring) and, with lemmas on how a step changes `Contents`,
`QueueIsFifo`: every step is a step of `ByteFifo` or a stutter.  `FullIsFull`
needs `IndInv` too: the flag stays set while a reader takes bytes, so what it
stands for is the ring less what the present read has taken (`FullCount`).
The module ends with lemmas on what each step of a call does to `Contents`
(`WriterPuts`, `ReaderTakes`, `NotEmptyIsTrue`, `EmptyReadIsOfFull` ...), for
modules that use a queue without looking into it.

**Serial.**  The vCPU thread is the only reader of `host_queue` and the only
writer of `guest_queue`.  `HostQueueIsFifo` and `GuestQueueIsFifo` show that each
step of Serial is a step or a stutter of each queue, so both are FIFOs by the
queue's theorem.  `SerialTypeCorrect` rests on the queues' own type theorem.
`SerialIsEchoPipe` uses the queues through the lemmas above only.  That the guest's
second look at the ring may be wrong in one way only needs `EchoInv`: between "data
ready" and the read a byte is waiting, because the vCPU thread is the only reader
and a writer never takes away; so a read that finds the indices equal has found a
full ring (`ReceiveNul`).  Likewise a refused `queue_write` had a full ring at the
start of `worker1`'s read (`Lose`), by `FullCount`.  The mapping of the hand
(`HandTable`) moves at four points: a byte taken, a read that found none, a byte
stored, a write refused.  Every other step of the three threads is a stutter or
acts on one of the FIFOs.

**Memory.**  `MemInv` adds to `FoundOnce` that each usable entry has the slot
whose number it holds (`Backed`), no two share one (`OwnSlot`), and slots are
apart and do not wrap (`SlotsApart`).  It is inductive with `linked_list_add`
failing or not.  The heart is `AvailableIsApart`: the overlap test, wrapping sums and
all, lets no shared address in.  From it: `EntriesNeverOverlap`,
`HostWritesGuestMemory` (each byte `memory_write` stores is the one the guest
loads there), `MmioLeavesTheGuest`.  `RefusalsAreFounded` is the converse, that
the test refuses nothing else; it needs the type invariant alone.

**Boot.**  The loader advances by what `read` returned, and `memory_write` is
trusted with the address.  `BootInv` adds to `MemInv` that a loader that runs
has the VM with a single slot, so the entry it writes to is the one it asked for
(`LoaderInv`), and `LoadedInOrder`, which is inductive with it.  `E820IsTheMemory`
is the table against the kernel's slots, from `Backed` and `SlotsApart`.

**Mmio.**  `HeldRegionsAreServed` assumes that `linked_list_add` does not fail
(`NothingFails`) and that the table serves one VM (`OneVm`); without either, two
handlers can answer for one address.  Its invariant says that what any row
covers, freed ones included, is in MMIO entries of the list (`RowsBacked`).
Since entries never go away and never overlap, a new row is apart from all the
old ones (`RowsApart`): the stale range of an unregistered row cannot shadow a
live one.

**Linked list.**  The theorems assume `HeadPopped`.  `ListInv` adds to
the properties what a walk that removes relies on: it is not after the first
element (`HeadKept`), and `linked_list_free` is always at its start.  The
heart is how taking the k-th element out of nodes and of the sequence agree, when
the neighbours are joined and when an end is taken.  `ListIsTheSequence`,
`WalksMeetTheSequence` and `FreeLeavesNothing` are what `GuestMemory`, which has
the list as a sequence, takes for granted.

**Atapi.**  `AtapiInv` says for each place of the driver what the drive is in:
a driver that sent n words has exactly those n in `curr_pkt` (`SendInv`), one that
reads has read as many as the drive sent (`ReadInv`), and between commands of
drivers that finished nothing is pending (`IdleInv`).  `TransferOpen` is needed
to know that a flag of an abandoned transfer goes with its counter, so that the
poll that begins a command ends both.  The position of the file is anything before a
command: that its `lseek`, if it succeeds, makes up for it is `HandleKeeps`.
`ReadsTheBlock` excepts the command whose own `lseek` or `read` failed, about
which the guest is told nothing, and blocks whose offset
does not fit in 32 bits; both are in the model and are what a later command is safe from.
From it `DriverReadsTheBlock`,
`ProbesFindTheMaster`, and, by `AtapiTypeCorrect`, that no index leaves the packet
or the block.

**Ports.**  `PortsInv` is the three properties and that an element without a
device has no functions (`NoneServesNothing`).  The properties support each other:
two devices on a port would have to be the same handler, so that what
`serial_destroy` clears is nobody else's as long as `apart` holds.

**Machine.**  `MachineInv` says of each VM in the program's hands that its numbers
are files of its own, that `vcpu_fd` is the 0 or -1 of a VM without vCPU or the VM's
own vCPU, and that an answer of `vm_vcpu_init_state` that is not 0 left a vCPU, its
page and, in protected mode, the segments (`Sound`).  The last is inductive only
because a second call on a VM that has a vCPU fails at `address`, and that call's
answer is 0.  That a new descriptor is nobody's (`NewFdIsFree`) keeps the VMs apart.
`MapsBacked` bounds the pages that nothing unmaps by the vCPUs that nothing closes.
From it `NumbersAreOwn`, `RunsWhatIsReady` and `MachineTypeCorrect`.

**Screen.**  `ThreadInv` ties the places of `main` and of the thread to the
objects: what the thread uses was made before it was created and is destroyed after
it was joined.  `PictureInv` orders framebuffer, texture and window by age, with the
pixels of an unfinished copy apart.  `ScreenOutlivesItsThread` and `PixelsNeverGoBack`
follow, the latter an action property.

**Only model-checked:** the liveness properties `CallsReturn`, `Drains`,
`GuestReceives`, `HostReceives`, `CallsEnd`, `CommandEnds` and
`ShowsTheFramebuffer`: TLAPS treats neither fairness nor ENABLED.

## 8. Not modelled

- The registers of the serial port that only store a byte, the signature and
  status registers of the drive (constants), contents of CPU registers, CPUID
  leaves and texts printed: data no property is about.
- `queue_destroy` and the host threads against `serial_destroy`: no program of
  the repository arranges an order in which they would be safe, or calls the
  latter at all.  `memory_destroy` is only a step of `vm_destroy`.
- `types.h` (names), `src/tests.c` (three sequential tests, whose assertions are
  steps of `Queue`), `guest16.S`, the picture in `guest32.c`, and the loaders of the
  `linux` and `k` examples: straight-line code over the library, with no state of
  their own that outlives the start.
- SDL and KVM, except for what the code relies on.
- Reads of the disc that end inside a word: a `read` that stops
  there is taken to stop before it.
- A probe reads right after it selects.  Selects on the two buses in another order
  meet the one `selected_drive` (section 6).
- Constructors that fail before they touch what is modelled: `serial_new` without
  memory registers nothing, and has no action.  A serial port whose eight registers
  would reach the last port or wrap behind it is left out by `PortsAssumption`.
- `mmap` answering MAP_FAILED in `memory_alloc`: there are no host pointers in
  `GuestMemory`; KVM is taken to refuse the slot.
- `Screen` takes the framebuffer to stay in the memory list: that `memory_read`
  answers -1 after the lost entry of `memory.c:150` is in `GuestMemory` only.
- What a guest finds in the shared page after an IN or a read nobody served:
  `Ports` and `Mmio` say who answers, not what.

Every listed hazard that no property covers says why in its note.
