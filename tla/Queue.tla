------------------------------- MODULE Queue -------------------------------
(***************************************************************************)
(* The byte ring of src/queue.c, at the granularity at which its callers   *)
(* can interleave.  queue_write and queue_read test is_full, front and     *)
(* rear BEFORE they take the mutex, and queue_empty never takes it, so     *)
(* every such load is a step of its own; inside the mutex a step moves one *)
(* byte, and the store to is_full is a step after the last store to an     *)
(* index.  The buffer is touched under the mutex only, so the store of a   *)
(* byte and of its index are one step, and so are the store to is_full and *)
(* the unlock.                                                             *)
(***************************************************************************)
EXTENDS Naturals, Sequences

CONSTANTS Producers,   \* threads that call queue_write
          Consumers,   \* threads that call queue_read and queue_empty
          Byte,        \* the values a byte can take
          BufferSize,  \* buffer_size, the argument of queue_new
          MaxCall,     \* bound: the largest size argument of a call
          Nil          \* no thread (mutex unlocked), no byte

ASSUME QueueAssumption ==
  /\ BufferSize \in Nat \ {0}
  /\ MaxCall \in Nat \ {0}
  /\ Byte # {}
  /\ Producers \cap Consumers = {}
  /\ Nil \notin Producers \cup Consumers

VARIABLES queue,  \* the fields of queue_t
          call    \* for each thread, its locals in its current or last call

vars == <<queue, call>>

Threads == Producers \cup Consumers

Index == 0..(BufferSize - 1)

QueueT == [front : Index, rear : Index, is_full : {0, 1},
           buffer : [Index -> Byte], mutex : Threads \cup {Nil}]

(***************************************************************************)
(* call[t].at: "idle" outside a call; "front", "rear" about to load that   *)
(* field for the unlocked test; "lock" about to take the mutex; "loop"     *)
(* about to move a byte; "end" past the loop.  "front" is the register     *)
(* that holds the loaded front, "i" the loop's counter, "byte" the last    *)
(* byte stored in the caller's buffer, "ret" the last returned value.      *)
(***************************************************************************)
Op == {"none", "write", "read", "empty"}
Point == {"idle", "front", "rear", "lock", "loop", "end"}

CallT == [op : Op, at : Point,
          size : 0..MaxCall, i : 0..MaxCall, front : Index,
          byte : Byte \cup {Nil}, ret : 0..MaxCall]

TypeOK == queue \in QueueT /\ call \in [Threads -> CallT]
-----------------------------------------------------------------------------
(***************************************************************************)
(* The operations.                                                         *)
(***************************************************************************)

\* The struct queue_new fills in; the buffer comes from malloc, unset.
NewQueue == [front : {0}, rear : {0}, is_full : {0},
             buffer : [Index -> Byte], mutex : {Nil}]

NoCall == [op |-> "none", at |-> "idle", size |-> 0, i |-> 0, front |-> 0,
           byte |-> Nil, ret |-> 0]

Init == queue \in NewQueue /\ call = [t \in Threads |-> NoCall]

NextIndex_NoWrap(k) == k + 1  \* mutant: the index is not wrapped
NextIndex(k) == (k + 1) % BufferSize

\* A call of op with size argument n gets past its first test, or ends there.
Goto(t, op, at, n) ==
  call' = [call EXCEPT ![t] = [@ EXCEPT !.op = op, !.at = at, !.size = n]]

Leave(t, op, v) ==
  call' = [call EXCEPT ![t] =
             [op |-> op, at |-> "idle", size |-> 0, i |-> 0, front |-> 0,
              byte |-> call[t].byte, ret |-> v]]

\* Mutant: is_full is not tested.
WriteCall_NoTest(p, n) ==
  /\ call[p].at = "idle"
  /\ IF n = 0 THEN Leave(p, "write", 0) ELSE Goto(p, "write", "lock", n)
  /\ UNCHANGED queue

\* queue_write up to the lock: nothing to write, or no room.
WriteCall(p, n) ==
  /\ call[p].at = "idle"
  /\ IF n = 0 \/ queue.is_full = 1 THEN Leave(p, "write", 0)
                                   ELSE Goto(p, "write", "lock", n)
  /\ UNCHANGED queue

\* queue_read up to the load of is_full, the first of its unlocked loads.
ReadCall(c, n) ==
  /\ call[c].at = "idle"
  /\ \/ n = 0 /\ Leave(c, "read", 0)
     \/ n # 0 /\ queue.is_full = 1 /\ Goto(c, "read", "lock", n)
     \/ n # 0 /\ queue.is_full = 0 /\ Goto(c, "read", "front", n)
  /\ UNCHANGED queue

\* queue_empty up to the load of is_full: a full queue is not empty.
EmptyCall(c) ==
  /\ call[c].at = "idle"
  /\ IF queue.is_full = 1 THEN Leave(c, "empty", 0)
                          ELSE Goto(c, "empty", "front", 0)
  /\ UNCHANGED queue

\* The load of front for the test front == rear.
LoadFront(c) ==
  /\ call[c].at = "front"
  /\ call' = [call EXCEPT ![c] = [@ EXCEPT !.at = "rear",
                                           !.front = queue.front]]
  /\ UNCHANGED queue

\* Mutant: the test front == rear is inverted.
LoadRear_Inverted(c) ==
  LET empty == call[c].front # queue.rear IN
  /\ call[c].at = "rear"
  /\ \/ call[c].op = "read" /\ empty /\ Leave(c, "read", 0)
     \/ call[c].op = "read" /\ ~empty /\ Goto(c, "read", "lock", call[c].size)
     \/ call[c].op = "empty" /\ Leave(c, "empty", IF empty THEN 1 ELSE 0)
  /\ UNCHANGED queue

\* The load of rear: equal indices mean "empty" to both functions.
LoadRear(c) ==
  LET empty == call[c].front = queue.rear IN
  /\ call[c].at = "rear"
  /\ \/ call[c].op = "read" /\ empty /\ Leave(c, "read", 0)
     \/ call[c].op = "read" /\ ~empty /\ Goto(c, "read", "lock", call[c].size)
     \/ call[c].op = "empty" /\ Leave(c, "empty", IF empty THEN 1 ELSE 0)
  /\ UNCHANGED queue

\* pthread_mutex_lock.
Lock(t) ==
  /\ call[t].at = "lock"
  /\ queue.mutex = Nil
  /\ queue' = [queue EXCEPT !.mutex = t]
  /\ call' = [call EXCEPT ![t].at = "loop"]

\* One turn of queue_write's loop, and the test that ends it.
PutByte(p, b) ==
  LET next == NextIndex(queue.rear) IN
  /\ call[p].at = "loop" /\ call[p].op = "write"
  /\ queue' = [queue EXCEPT !.buffer[queue.rear] = b, !.rear = next]
  /\ call' = [call EXCEPT ![p] = [@ EXCEPT
       !.i = call[p].i + 1,
       !.at = IF queue.front # next /\ call[p].i + 1 < call[p].size
              THEN "loop" ELSE "end"]]

\* One turn of queue_read's loop, and the test that ends it.
TakeByte(c) ==
  LET next == NextIndex(queue.front) IN
  /\ call[c].at = "loop" /\ call[c].op = "read"
  /\ queue' = [queue EXCEPT !.front = next]
  /\ call' = [call EXCEPT ![c] = [@ EXCEPT
       !.byte = queue.buffer[queue.front],
       !.i = call[c].i + 1,
       !.at = IF next # queue.rear /\ call[c].i + 1 < call[c].size
              THEN "loop" ELSE "end"]]

\* Mutant: is_full is not set.
WriteEnd_NoFlag(p) ==
  /\ call[p].at = "end" /\ call[p].op = "write"
  /\ queue' = [queue EXCEPT !.mutex = Nil]
  /\ Leave(p, "write", call[p].i)

\* The end of queue_write: a ring that the loop closed is marked full.
WriteEnd(p) ==
  /\ call[p].at = "end" /\ call[p].op = "write"
  /\ queue' = [queue EXCEPT
       !.is_full = IF queue.front = queue.rear THEN 1 ELSE @,
       !.mutex = Nil]
  /\ Leave(p, "write", call[p].i)

\* Mutant: is_full is not cleared.
ReadEnd_KeepsFull(c) ==
  /\ call[c].at = "end" /\ call[c].op = "read"
  /\ queue' = [queue EXCEPT !.mutex = Nil]
  /\ Leave(c, "read", call[c].i)

\* The end of queue_read: a ring that lost a byte is not full.
ReadEnd(c) ==
  /\ call[c].at = "end" /\ call[c].op = "read"
  /\ queue' = [queue EXCEPT !.is_full = IF call[c].i # 0 THEN 0 ELSE @,
                            !.mutex = Nil]
  /\ Leave(c, "read", call[c].i)
-----------------------------------------------------------------------------
\* A call in progress takes its next step.
WriteStep(p) == Lock(p) \/ (\E b \in Byte : PutByte(p, b)) \/ WriteEnd(p)

ReadStep(c) ==
  LoadFront(c) \/ LoadRear(c) \/ Lock(c) \/ TakeByte(c) \/ ReadEnd(c)

Next ==
  \/ \E p \in Producers : WriteStep(p) \/ \E n \in 0..MaxCall : WriteCall(p, n)
  \/ \E c \in Consumers :
       ReadStep(c) \/ EmptyCall(c) \/ \E n \in 0..MaxCall : ReadCall(c, n)

Spec == Init /\ [][Next]_vars

(***************************************************************************)
(* A thread inside a call keeps running, and takes the mutex if it stays   *)
(* free (weak fairness: a default pthread mutex promises no more).  The    *)
(* host's reader threads loop on serial_read and nothing else, so that a   *)
(* reader keeps coming back to it (strong fairness: in this module a       *)
(* reader may also call queue_empty, which must not replace its reads).    *)
(***************************************************************************)
Running == (\A p \in Producers : WF_vars(WriteStep(p)))
           /\ (\A c \in Consumers : WF_vars(ReadStep(c)))

Polling == \A c \in Consumers : SF_vars(\E n \in 1..MaxCall : ReadCall(c, n))

FairSpec == Spec /\ Running /\ Polling
-----------------------------------------------------------------------------
(***************************************************************************)
(* What the ring holds.  While front = rear the indices alone do not tell  *)
(* a full ring from an empty one: the ring is full when a writer holding   *)
(* the mutex has just closed it, or when is_full says so and no reader     *)
(* holding the mutex has already taken from it.                            *)
(***************************************************************************)
Moved(S) == queue.mutex \in S /\ call[queue.mutex].i > 0

Closed == Moved(Producers) \/ (queue.is_full = 1 /\ ~Moved(Consumers))

Used ==
  IF queue.front < queue.rear THEN queue.rear - queue.front
  ELSE IF queue.rear < queue.front \/ Closed
       THEN BufferSize - queue.front + queue.rear
       ELSE 0

Slot(k) == IF queue.front + k < BufferSize THEN queue.front + k
                                           ELSE queue.front + k - BufferSize

Contents == [k \in 1..Used |-> queue.buffer[Slot(k - 1)]]
-----------------------------------------------------------------------------
(***************************************************************************)
(* The library's own use: serial.c gives each of its two queues one        *)
(* writing and one reading thread.                                         *)
(***************************************************************************)
OneThreadPerEnd ==
  /\ \A p, q \in Producers : p = q
  /\ \A c, d \in Consumers : c = d

(***************************************************************************)
(* No byte is overwritten before it is read, and no cell is read before it *)
(* is written: every turn of the loops in queue_write and queue_read finds *)
(* room, respectively data, although the tests that were to ensure it ran  *)
(* before the mutex was taken.                                             *)
(***************************************************************************)
LoopSafe ==
  /\ \A p \in Producers : call[p].at = "loop" => Used < BufferSize
  /\ \A c \in Consumers : call[c].at = "loop" => Used > 0

(***************************************************************************)
(* The invariant behind LoopSafe and FifoSpec.  ControlOK: who is inside   *)
(* the loops, and what the counters say there.  RingOK: what a thread      *)
(* learnt before it took the mutex is still true when it has it.           *)
(***************************************************************************)
ControlOK ==
  /\ \A t \in Threads :
       /\ call[t].at \in {"loop", "end"} <=> queue.mutex = t
       /\ call[t].at \notin {"loop", "end"} => call[t].i = 0
       /\ call[t].at = "loop" => call[t].i < call[t].size
       /\ call[t].at = "end" => call[t].i > 0
       /\ call[t].at # "idle" /\ call[t].op # "empty" <=> call[t].size > 0
  /\ \A p \in Producers :
       call[p].at # "idle" => call[p].op = "write" /\ call[p].at \notin {"front", "rear"}
  /\ \A c \in Consumers :
       /\ call[c].at \in {"front", "rear"} => call[c].op \in {"read", "empty"}
       /\ call[c].at \in {"lock", "loop", "end"} => call[c].op = "read"

RingOK ==
  /\ queue.is_full = 1 => queue.front = queue.rear \/ Moved(Consumers)
  /\ \A p \in Producers :
       /\ call[p].at \in {"lock", "loop", "end"} => queue.is_full = 0
       /\ call[p].at = "loop" /\ call[p].i > 0 => queue.front # queue.rear
  /\ \A c \in Consumers :
       /\ call[c].at = "rear" => call[c].front = queue.front
       /\ call[c].at \in {"lock", "loop"} => Used > 0

IndInv == TypeOK /\ ControlOK /\ RingOK

(***************************************************************************)
(* The full flag stands for a full ring, less what the read in progress    *)
(* has taken: a queue_write turned away by is_full was turned away because *)
(* the present read began on a full ring.                                  *)
(***************************************************************************)
FullCount ==
  queue.is_full = 1 => \A c \in Consumers : Used + call[c].i = BufferSize

\* What a caller can tell of its call.
View(t) == [op |-> call[t].op, busy |-> call[t].at # "idle",
            size |-> call[t].size, moved |-> call[t].i,
            byte |-> call[t].byte, ret |-> call[t].ret]

Client == [t \in Threads |-> View(t)]

(***************************************************************************)
(* queue_write and queue_read together are a FIFO: bytes come out as they  *)
(* went in, each call returns exactly the number of bytes it moved, and    *)
(* queue_empty says "not empty" only when a byte is there.                 *)
(***************************************************************************)
Fifo == INSTANCE ByteFifo WITH Capacity <- BufferSize, fifo <- Contents,
                               client <- Client

FifoSpec == Fifo!Spec

(***************************************************************************)
(* Every call returns.  Neither end can starve the other on the mutex,     *)
(* although the mutex is not fair: a reader runs out of bytes, and a       *)
(* writer out of room, in front of the lock.                               *)
(***************************************************************************)
CallsReturn == \A t \in Threads : call[t].at # "idle" ~> call[t].at = "idle"

(***************************************************************************)
(* A byte in the ring does not stay there under a polling reader: the      *)
(* moments at which the unlocked test calls a non-empty ring empty do not  *)
(* last.                                                                   *)
(***************************************************************************)
Drains == \A k \in Index : Used > 0 /\ queue.front = k ~> queue.front # k
=============================================================================
