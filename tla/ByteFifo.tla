------------------------------ MODULE ByteFifo ------------------------------
(***************************************************************************)
(* What queue.h promises its callers, without a ring, indices, a full flag *)
(* or a mutex: a first-in first-out sequence of at most Capacity bytes.    *)
(* A call moves bytes one at a time, in order, and returns how many it     *)
(* moved.  A call may move nothing and return 0 at any time: the promise   *)
(* is about what is moved, never that something is.                        *)
(***************************************************************************)
EXTENDS Naturals, Sequences

CONSTANTS Producers,  \* threads that call queue_write
          Consumers,  \* threads that call queue_read and queue_empty
          Byte,       \* the values a byte can take
          Capacity,   \* buffer_size
          MaxCall,    \* the largest size argument of a call
          Nil         \* "no byte yet"

VARIABLES fifo,       \* the bytes written and not yet read
          client      \* what each thread's current or last call looks like

vars == <<fifo, client>>

Threads == Producers \cup Consumers

(***************************************************************************)
(* client[t]: "busy" while a call is in progress, "moved" bytes so far of  *)
(* the "size" asked for; "byte" is the last byte handed to this reader and  *)
(* "ret" the result of its last call that returned.                        *)
(***************************************************************************)
Init ==
  /\ fifo = <<>>
  /\ client = [t \in Threads |-> [op |-> "none", busy |-> FALSE, size |-> 0,
                                  moved |-> 0, byte |-> Nil, ret |-> 0]]

\* A call begins.
Begin(t) ==
  /\ ~client[t].busy
  /\ \E op \in {"write", "read", "empty"}, n \in 0..MaxCall :
       client' = [client EXCEPT ![t] = [@ EXCEPT
                    !.op = op, !.busy = TRUE, !.size = n]]
  /\ UNCHANGED fifo

\* A call that moves nothing begins and returns at once.
Refuse(t) ==
  /\ ~client[t].busy
  /\ \E op \in {"write", "read"} :
       client' = [client EXCEPT ![t] = [@ EXCEPT
                    !.op = op, !.ret = 0]]
  /\ UNCHANGED fifo

\* A writer's call appends one byte.
Put(p, b) ==
  /\ client[p].busy /\ client[p].op = "write"
  /\ client[p].moved < client[p].size
  /\ Len(fifo) < Capacity
  /\ fifo' = Append(fifo, b)
  /\ client' = [client EXCEPT ![p].moved = @ + 1]

\* A reader's call takes the oldest byte.
Take(c) ==
  /\ client[c].busy /\ client[c].op = "read"
  /\ client[c].moved < client[c].size
  /\ fifo # <<>>
  /\ fifo' = Tail(fifo)
  /\ client' = [client EXCEPT ![c] = [@ EXCEPT !.moved = client[c].moved + 1,
                                              !.byte = Head(fifo)]]

\* A read or a write returns the number of bytes it moved.
Return(t) ==
  /\ client[t].busy /\ client[t].op \in {"write", "read"}
  /\ client' = [client EXCEPT ![t] = [@ EXCEPT !.busy = FALSE, !.size = 0,
                                               !.moved = 0,
                                               !.ret = client[t].moved]]
  /\ UNCHANGED fifo

\* queue_empty answers; "not empty" (0) is only answered when it is true.
Answer(c) ==
  /\ client[c].busy => client[c].op = "empty"
  /\ \E answer \in {0, 1} :
       /\ answer = 0 => fifo # <<>>
       /\ client' = [client EXCEPT ![c] = [@ EXCEPT
                       !.op = "empty", !.busy = FALSE, !.ret = answer]]
  /\ UNCHANGED fifo

Next ==
  \/ \E t \in Threads : Begin(t) \/ Refuse(t) \/ Return(t)
  \/ \E p \in Producers, b \in Byte : Put(p, b)
  \/ \E c \in Consumers : Take(c) \/ Answer(c)

Spec == Init /\ [][Next]_vars
=============================================================================
