---------------------------- MODULE QueueProofs ----------------------------
(***************************************************************************)
(* Theorems about Queue, for every buffer size, every set of byte values   *)
(* and every bound on the size of a call.                                  *)
(***************************************************************************)
EXTENDS Queue, SequenceTheorems, TLAPS

USE QueueAssumption

LEMMA ZeroIndex == 0 \in Index
BY DEF Index

LEMMA NextIndexValue ==
  ASSUME NEW k \in Index
  PROVE  /\ NextIndex(k) = IF k + 1 = BufferSize THEN 0 ELSE k + 1
         /\ NextIndex(k) \in Index
BY DEF Index, NextIndex
-----------------------------------------------------------------------------
(***************************************************************************)
(* What each way of updating the two records does, field by field.         *)
(***************************************************************************)
Others(t) == \A s \in Threads \ {t} : call'[s] = call[s]

LEMMA GotoEffect ==
  ASSUME TypeOK, NEW t \in Threads, NEW op \in Op, NEW at \in Point,
         NEW n \in 0..MaxCall, Goto(t, op, at, n)
  PROVE  /\ call' \in [Threads -> CallT]
         /\ call'[t].op = op /\ call'[t].at = at /\ call'[t].size = n
         /\ call'[t].i = call[t].i /\ call'[t].front = call[t].front
         /\ call'[t].byte = call[t].byte /\ call'[t].ret = call[t].ret
         /\ Others(t)
<1> DEFINE r == [call[t] EXCEPT !.op = op, !.at = at, !.size = n]
<1>1. call[t] \in CallT
  BY DEF TypeOK
<1>2. /\ r \in CallT
      /\ r.op = op /\ r.at = at /\ r.size = n /\ r.i = call[t].i
      /\ r.front = call[t].front /\ r.byte = call[t].byte
      /\ r.ret = call[t].ret
  BY <1>1 DEF CallT
<1>3. call' = [call EXCEPT ![t] = r]
  BY DEF Goto
<1> HIDE DEF r
<1> QED BY <1>2, <1>3 DEF TypeOK, Others

LEMMA LeaveEffect ==
  ASSUME TypeOK, NEW t \in Threads, NEW op \in Op, NEW v \in 0..MaxCall,
         Leave(t, op, v)
  PROVE  /\ call' \in [Threads -> CallT]
         /\ call'[t].op = op /\ call'[t].at = "idle" /\ call'[t].size = 0
         /\ call'[t].i = 0 /\ call'[t].front = 0
         /\ call'[t].byte = call[t].byte /\ call'[t].ret = v
         /\ Others(t)
<1> DEFINE r == [op |-> op, at |-> "idle", size |-> 0, i |-> 0, front |-> 0,
                 byte |-> call[t].byte, ret |-> v]
<1>1. call[t].byte \in Byte \cup {Nil}
  BY DEF TypeOK, CallT
<1>2. /\ r \in CallT
      /\ r.op = op /\ r.at = "idle" /\ r.size = 0 /\ r.i = 0
      /\ r.front = 0 /\ r.byte = call[t].byte /\ r.ret = v
  BY <1>1, ZeroIndex DEF CallT, Point
<1>3. call' = [call EXCEPT ![t] = r]
  BY DEF Leave
<1> HIDE DEF r
<1> QED BY <1>2, <1>3 DEF TypeOK, Others

LEMMA LoadFrontEffect ==
  ASSUME TypeOK, NEW t \in Threads, LoadFront(t)
  PROVE  /\ call' \in [Threads -> CallT]
         /\ call'[t].op = call[t].op /\ call'[t].at = "rear"
         /\ call'[t].size = call[t].size /\ call'[t].i = call[t].i
         /\ call'[t].front = queue.front
         /\ call'[t].byte = call[t].byte /\ call'[t].ret = call[t].ret
         /\ Others(t)
<1> DEFINE r == [call[t] EXCEPT !.at = "rear", !.front = queue.front]
<1>1. call[t] \in CallT /\ queue.front \in Index
  BY DEF TypeOK, QueueT
<1>2. /\ r \in CallT
      /\ r.op = call[t].op /\ r.at = "rear" /\ r.size = call[t].size
      /\ r.i = call[t].i /\ r.front = queue.front
      /\ r.byte = call[t].byte /\ r.ret = call[t].ret
  BY <1>1 DEF CallT, Point
<1>3. call' = [call EXCEPT ![t] = r]
  BY DEF LoadFront
<1> HIDE DEF r
<1> QED BY <1>2, <1>3 DEF TypeOK, Others

LEMMA LockEffect ==
  ASSUME TypeOK, NEW t \in Threads, Lock(t)
  PROVE  /\ call' \in [Threads -> CallT]
         /\ call'[t].op = call[t].op /\ call'[t].at = "loop"
         /\ call'[t].size = call[t].size /\ call'[t].i = call[t].i
         /\ call'[t].front = call[t].front
         /\ call'[t].byte = call[t].byte /\ call'[t].ret = call[t].ret
         /\ Others(t)
         /\ queue' \in QueueT
         /\ queue'.mutex = t /\ queue'.is_full = queue.is_full
         /\ queue'.front = queue.front /\ queue'.rear = queue.rear
         /\ queue'.buffer = queue.buffer
<1> DEFINE r == [call[t] EXCEPT !.at = "loop"]
<1>1. call[t] \in CallT
  BY DEF TypeOK
<1>2. /\ r \in CallT
      /\ r.op = call[t].op /\ r.at = "loop" /\ r.size = call[t].size
      /\ r.i = call[t].i /\ r.front = call[t].front
      /\ r.byte = call[t].byte /\ r.ret = call[t].ret
  BY <1>1 DEF CallT, Point
<1>3. call' = [call EXCEPT ![t] = r]
  BY DEF Lock
<1>4. /\ queue' \in QueueT
      /\ queue'.mutex = t /\ queue'.is_full = queue.is_full
      /\ queue'.front = queue.front /\ queue'.rear = queue.rear
      /\ queue'.buffer = queue.buffer
  BY DEF Lock, TypeOK, QueueT
<1> HIDE DEF r
<1> QED BY <1>2, <1>3, <1>4 DEF TypeOK, Others

LEMMA PutByteEffect ==
  ASSUME TypeOK, ControlOK, NEW p \in Producers, NEW b \in Byte, PutByte(p, b)
  PROVE  /\ call' \in [Threads -> CallT]
         /\ call'[p].op = call[p].op
         /\ call'[p].at = IF queue.front # NextIndex(queue.rear)
                              /\ call[p].i + 1 < call[p].size
                           THEN "loop" ELSE "end"
         /\ call'[p].size = call[p].size /\ call'[p].i = call[p].i + 1
         /\ call'[p].front = call[p].front
         /\ call'[p].byte = call[p].byte /\ call'[p].ret = call[p].ret
         /\ Others(p)
         /\ queue' \in QueueT
         /\ queue'.mutex = queue.mutex /\ queue'.is_full = queue.is_full
         /\ queue'.front = queue.front
         /\ queue'.rear = NextIndex(queue.rear)
         /\ queue'.buffer = [queue.buffer EXCEPT ![queue.rear] = b]
<1> DEFINE at == IF queue.front # NextIndex(queue.rear)
                    /\ call[p].i + 1 < call[p].size
                 THEN "loop" ELSE "end"
           r == [call[p] EXCEPT !.i = call[p].i + 1, !.at = at]
           next == NextIndex(queue.rear)
<1>1. call[p] \in CallT /\ p \in Threads
  BY DEF TypeOK, Threads
<1>2. call[p].i + 1 \in 0..MaxCall /\ at \in Point
  <2>1. call[p].i < call[p].size
    BY <1>1 DEF PutByte, ControlOK
  <2>2. call[p].i \in 0..MaxCall /\ call[p].size \in 0..MaxCall
    BY <1>1 DEF CallT
  <2> QED BY <2>1, <2>2 DEF Point
<1>3. next \in Index /\ queue.rear \in Index
  BY NextIndexValue DEF TypeOK, QueueT
<1>4. call' = [call EXCEPT ![p] = r]
  BY DEF PutByte
<1>5. queue' = [queue EXCEPT !.buffer[queue.rear] = b, !.rear = next]
  BY DEF PutByte
<1> HIDE DEF at, next
<1>6. /\ r \in CallT
      /\ r.op = call[p].op /\ r.at = at /\ r.size = call[p].size
      /\ r.i = call[p].i + 1 /\ r.front = call[p].front
      /\ r.byte = call[p].byte /\ r.ret = call[p].ret
  BY <1>1, <1>2 DEF CallT
<1>7. /\ queue' \in QueueT
      /\ queue'.mutex = queue.mutex /\ queue'.is_full = queue.is_full
      /\ queue'.front = queue.front /\ queue'.rear = next
      /\ queue'.buffer = [queue.buffer EXCEPT ![queue.rear] = b]
  BY <1>3, <1>5 DEF TypeOK, QueueT
<1> HIDE DEF r
<1> QED BY <1>1, <1>4, <1>6, <1>7 DEF TypeOK, Others, at, next

LEMMA TakeByteEffect ==
  ASSUME TypeOK, ControlOK, NEW c \in Consumers, TakeByte(c)
  PROVE  /\ call' \in [Threads -> CallT]
         /\ call'[c].op = call[c].op
         /\ call'[c].at = IF NextIndex(queue.front) # queue.rear
                              /\ call[c].i + 1 < call[c].size
                           THEN "loop" ELSE "end"
         /\ call'[c].size = call[c].size /\ call'[c].i = call[c].i + 1
         /\ call'[c].front = call[c].front
         /\ call'[c].byte = queue.buffer[queue.front]
         /\ call'[c].ret = call[c].ret
         /\ Others(c)
         /\ queue' \in QueueT
         /\ queue'.mutex = queue.mutex /\ queue'.is_full = queue.is_full
         /\ queue'.front = NextIndex(queue.front)
         /\ queue'.rear = queue.rear /\ queue'.buffer = queue.buffer
<1> DEFINE at == IF NextIndex(queue.front) # queue.rear
                    /\ call[c].i + 1 < call[c].size
                 THEN "loop" ELSE "end"
           byte == queue.buffer[queue.front]
           r == [call[c] EXCEPT !.byte = byte, !.i = call[c].i + 1, !.at = at]
           next == NextIndex(queue.front)
<1>1. call[c] \in CallT /\ c \in Threads
  BY DEF TypeOK, Threads
<1>2. call[c].i + 1 \in 0..MaxCall /\ at \in Point
  <2>1. call[c].i < call[c].size
    BY <1>1 DEF TakeByte, ControlOK
  <2>2. call[c].i \in 0..MaxCall /\ call[c].size \in 0..MaxCall
    BY <1>1 DEF CallT
  <2> QED BY <2>1, <2>2 DEF Point
<1>3. next \in Index /\ byte \in Byte
  BY NextIndexValue DEF TypeOK, QueueT
<1>4. call' = [call EXCEPT ![c] = r]
  BY DEF TakeByte
<1>5. queue' = [queue EXCEPT !.front = next]
  BY DEF TakeByte
<1> HIDE DEF at, next, byte
<1>6. /\ r \in CallT
      /\ r.op = call[c].op /\ r.at = at /\ r.size = call[c].size
      /\ r.i = call[c].i + 1 /\ r.front = call[c].front
      /\ r.byte = byte /\ r.ret = call[c].ret
  BY <1>1, <1>2, <1>3 DEF CallT
<1>7. /\ queue' \in QueueT
      /\ queue'.mutex = queue.mutex /\ queue'.is_full = queue.is_full
      /\ queue'.front = next /\ queue'.rear = queue.rear
      /\ queue'.buffer = queue.buffer
  BY <1>3, <1>5 DEF TypeOK, QueueT
<1> HIDE DEF r
<1> QED BY <1>1, <1>4, <1>6, <1>7 DEF TypeOK, Others, at, next, byte

LEMMA WriteEndEffect ==
  ASSUME TypeOK, NEW p \in Producers, WriteEnd(p)
  PROVE  /\ queue' \in QueueT
         /\ queue'.mutex = Nil
         /\ queue'.is_full = IF queue.front = queue.rear THEN 1
                              ELSE queue.is_full
         /\ queue'.front = queue.front /\ queue'.rear = queue.rear
         /\ queue'.buffer = queue.buffer
         /\ p \in Threads /\ call[p].i \in 0..MaxCall
<1> DEFINE full == IF queue.front = queue.rear THEN 1 ELSE queue.is_full
<1>1. full \in {0, 1} /\ p \in Threads /\ call[p].i \in 0..MaxCall
  BY DEF TypeOK, QueueT, CallT, Threads
<1>2. queue' = [queue EXCEPT !.is_full = full, !.mutex = Nil]
  BY DEF WriteEnd
<1> HIDE DEF full
<1>3. /\ queue' \in QueueT
      /\ queue'.mutex = Nil /\ queue'.is_full = full
      /\ queue'.front = queue.front /\ queue'.rear = queue.rear
      /\ queue'.buffer = queue.buffer
  BY <1>1, <1>2 DEF TypeOK, QueueT
<1> QED BY <1>1, <1>3 DEF full

LEMMA ReadEndEffect ==
  ASSUME TypeOK, NEW c \in Consumers, ReadEnd(c)
  PROVE  /\ queue' \in QueueT
         /\ queue'.mutex = Nil
         /\ queue'.is_full = IF call[c].i # 0 THEN 0 ELSE queue.is_full
         /\ queue'.front = queue.front /\ queue'.rear = queue.rear
         /\ queue'.buffer = queue.buffer
         /\ c \in Threads /\ call[c].i \in 0..MaxCall
<1> DEFINE full == IF call[c].i # 0 THEN 0 ELSE queue.is_full
<1>1. full \in {0, 1} /\ c \in Threads /\ call[c].i \in 0..MaxCall
  BY DEF TypeOK, QueueT, CallT, Threads
<1>2. queue' = [queue EXCEPT !.is_full = full, !.mutex = Nil]
  BY DEF ReadEnd
<1> HIDE DEF full
<1>3. /\ queue' \in QueueT
      /\ queue'.mutex = Nil /\ queue'.is_full = full
      /\ queue'.front = queue.front /\ queue'.rear = queue.rear
      /\ queue'.buffer = queue.buffer
  BY <1>1, <1>2 DEF TypeOK, QueueT
<1> QED BY <1>1, <1>3 DEF full
-----------------------------------------------------------------------------
(***************************************************************************)
(* Types and control points are preserved, whatever the number of threads  *)
(* at each end.                                                            *)
(***************************************************************************)
LEMMA ThreadsApart ==
  /\ Threads = Producers \cup Consumers
  /\ \A t \in Threads : t # Nil
  /\ \A p \in Producers, c \in Consumers : p # c
BY DEF Threads

LEMMA WriteCallControl ==
  ASSUME TypeOK, ControlOK, NEW p \in Producers, NEW n \in 0..MaxCall,
         WriteCall(p, n)
  PROVE  TypeOK' /\ ControlOK'
<1>1. p \in Threads /\ queue' = queue /\ call[p].at = "idle" /\ call[p].i = 0
  BY DEF WriteCall, Threads, ControlOK
<1>2. CASE n = 0 \/ queue.is_full = 1
  <2>1. Leave(p, "write", 0)
    BY <1>2 DEF WriteCall
  <2> QED BY <1>1, <2>1, LeaveEffect, ThreadsApart
          DEF TypeOK, ControlOK, Others, Op, Point
<1>3. CASE ~(n = 0 \/ queue.is_full = 1)
  <2>1. Goto(p, "write", "lock", n)
    BY <1>3 DEF WriteCall
  <2> QED BY <1>1, <1>3, <2>1, GotoEffect, ThreadsApart
          DEF TypeOK, ControlOK, Others, Op, Point
<1> QED BY <1>2, <1>3

LEMMA LockControl ==
  ASSUME TypeOK, ControlOK, NEW t \in Threads, Lock(t)
  PROVE  TypeOK' /\ ControlOK'
<1>1. call[t].at = "lock" /\ queue.mutex = Nil /\ call[t].i = 0
  BY DEF Lock, ControlOK
<1> QED BY <1>1, LockEffect, ThreadsApart DEF TypeOK, ControlOK, Others

LEMMA ReadCallControl ==
  ASSUME TypeOK, ControlOK, NEW c \in Consumers, NEW n \in 0..MaxCall,
         ReadCall(c, n)
  PROVE  TypeOK' /\ ControlOK'
<1>1. c \in Threads /\ queue' = queue /\ call[c].at = "idle" /\ call[c].i = 0
  BY DEF ReadCall, Threads, ControlOK
<1>2. CASE n = 0 /\ Leave(c, "read", 0)
  BY <1>1, <1>2, LeaveEffect, ThreadsApart
     DEF TypeOK, ControlOK, Others, Op, Point
<1>3. CASE n # 0 /\ Goto(c, "read", "lock", n)
  BY <1>1, <1>3, GotoEffect, ThreadsApart
     DEF TypeOK, ControlOK, Others, Op, Point
<1>4. CASE n # 0 /\ Goto(c, "read", "front", n)
  BY <1>1, <1>4, GotoEffect, ThreadsApart
     DEF TypeOK, ControlOK, Others, Op, Point
<1> QED BY <1>2, <1>3, <1>4 DEF ReadCall

LEMMA EmptyCallControl ==
  ASSUME TypeOK, ControlOK, NEW c \in Consumers, EmptyCall(c)
  PROVE  TypeOK' /\ ControlOK'
<1>1. c \in Threads /\ queue' = queue /\ call[c].at = "idle" /\ call[c].i = 0
  BY DEF EmptyCall, Threads, ControlOK
<1>2. CASE Leave(c, "empty", 0)
  BY <1>1, <1>2, LeaveEffect, ThreadsApart
     DEF TypeOK, ControlOK, Others, Op, Point
<1>3. CASE Goto(c, "empty", "front", 0)
  BY <1>1, <1>3, GotoEffect, ThreadsApart
     DEF TypeOK, ControlOK, Others, Op, Point
<1> QED BY <1>2, <1>3 DEF EmptyCall

LEMMA LoadFrontControl ==
  ASSUME TypeOK, ControlOK, NEW c \in Consumers, LoadFront(c)
  PROVE  TypeOK' /\ ControlOK'
<1>1. c \in Threads /\ queue' = queue /\ call[c].at = "front"
  BY DEF LoadFront, Threads
<1> QED BY <1>1, LoadFrontEffect, ThreadsApart DEF TypeOK, ControlOK, Others

LEMMA LoadRearControl ==
  ASSUME TypeOK, ControlOK, NEW c \in Consumers, LoadRear(c)
  PROVE  TypeOK' /\ ControlOK'
<1>1. c \in Threads /\ queue' = queue /\ call[c].at = "rear" /\ call[c].i = 0
  BY DEF LoadRear, Threads, ControlOK
<1>2. CASE call[c].op = "read" /\ Leave(c, "read", 0)
  BY <1>1, <1>2, LeaveEffect, ThreadsApart
     DEF TypeOK, ControlOK, Others, Op, Point
<1>3. CASE call[c].op = "read" /\ Goto(c, "read", "lock", call[c].size)
  <2>1. call[c].size \in 0..MaxCall /\ call[c].size > 0
    BY <1>1, <1>3 DEF TypeOK, CallT, ControlOK
  <2> QED BY <1>1, <1>3, <2>1, GotoEffect, ThreadsApart
          DEF TypeOK, ControlOK, Others, Op, Point
<1>4. ASSUME NEW v \in {0, 1}, Leave(c, "empty", v)
      PROVE  TypeOK' /\ ControlOK'
  <2>1. v \in 0..MaxCall
    OBVIOUS
  <2> QED BY <1>1, <1>4, <2>1, LeaveEffect, ThreadsApart
          DEF TypeOK, ControlOK, Others, Op, Point
<1> QED BY <1>2, <1>3, <1>4 DEF LoadRear

LEMMA PutByteControl ==
  ASSUME TypeOK, ControlOK, NEW p \in Producers, NEW b \in Byte, PutByte(p, b)
  PROVE  TypeOK' /\ ControlOK'
<1>1. p \in Threads /\ call[p].at = "loop" /\ call[p].op = "write"
  BY DEF PutByte, Threads
<1>2. call[p].i \in Nat /\ call[p].size > 0
  BY <1>1 DEF TypeOK, CallT, ControlOK
<1>3. TypeOK'
  BY PutByteEffect DEF TypeOK
<1>4. /\ queue'.mutex = queue.mutex /\ Others(p)
      /\ call'[p].op = call[p].op /\ call'[p].size = call[p].size
      /\ call'[p].i = call[p].i + 1
  BY PutByteEffect
<1>5. call'[p].at = "end" \/ (call'[p].at = "loop" /\ call[p].i + 1 < call[p].size)
  BY PutByteEffect, Zenon
<1>6. ControlOK'
  BY <1>1, <1>2, <1>4, <1>5, ThreadsApart DEF ControlOK, Others
<1> QED BY <1>3, <1>6

LEMMA TakeByteControl ==
  ASSUME TypeOK, ControlOK, NEW c \in Consumers, TakeByte(c)
  PROVE  TypeOK' /\ ControlOK'
<1>1. c \in Threads /\ call[c].at = "loop" /\ call[c].op = "read"
  BY DEF TakeByte, Threads
<1>2. call[c].i \in Nat /\ call[c].size > 0
  BY <1>1 DEF TypeOK, CallT, ControlOK
<1> QED BY <1>1, <1>2, TakeByteEffect, ThreadsApart DEF TypeOK, ControlOK, Others

LEMMA WriteEndControl ==
  ASSUME TypeOK, ControlOK, NEW p \in Producers, WriteEnd(p)
  PROVE  TypeOK' /\ ControlOK'
<1>1. call[p].at = "end" /\ Leave(p, "write", call[p].i)
  BY DEF WriteEnd
<1>2. p \in Threads /\ call[p].i \in 0..MaxCall /\ queue.mutex = p
  BY <1>1, WriteEndEffect DEF ControlOK
<1> QED BY <1>1, <1>2, WriteEndEffect, LeaveEffect, ThreadsApart
        DEF TypeOK, ControlOK, Others, Op, Point

LEMMA ReadEndControl ==
  ASSUME TypeOK, ControlOK, NEW c \in Consumers, ReadEnd(c)
  PROVE  TypeOK' /\ ControlOK'
<1>1. call[c].at = "end" /\ Leave(c, "read", call[c].i)
  BY DEF ReadEnd
<1>2. c \in Threads /\ call[c].i \in 0..MaxCall /\ queue.mutex = c
  BY <1>1, ReadEndEffect DEF ControlOK
<1> QED BY <1>1, <1>2, ReadEndEffect, LeaveEffect, ThreadsApart
        DEF TypeOK, ControlOK, Others, Op, Point

LEMMA InitControl == Init => TypeOK /\ ControlOK
<1> SUFFICES ASSUME Init PROVE TypeOK /\ ControlOK
  OBVIOUS
<1>1. queue \in QueueT
  BY ZeroIndex DEF Init, NewQueue, QueueT
<1>2. queue.mutex = Nil
  BY DEF Init, NewQueue
<1>3. NoCall \in CallT
  BY ZeroIndex DEF NoCall, CallT, Op, Point
<1>4. \A t \in Threads : call[t] = NoCall
  BY DEF Init
<1>5. call \in [Threads -> CallT]
  BY <1>3 DEF Init
<1> QED BY <1>1, <1>2, <1>4, <1>5, ThreadsApart DEF TypeOK, ControlOK, NoCall

LEMMA StepControl ==
  ASSUME TypeOK, ControlOK, [Next]_vars
  PROVE  TypeOK' /\ ControlOK'
<1>1. ASSUME NEW p \in Producers, WriteStep(p)
      PROVE  TypeOK' /\ ControlOK'
  BY <1>1, LockControl, PutByteControl, WriteEndControl
     DEF WriteStep, Threads
<1>2. ASSUME NEW p \in Producers, NEW n \in 0..MaxCall, WriteCall(p, n)
      PROVE  TypeOK' /\ ControlOK'
  BY <1>2, WriteCallControl
<1>3. ASSUME NEW c \in Consumers, ReadStep(c)
      PROVE  TypeOK' /\ ControlOK'
  BY <1>3, LoadFrontControl, LoadRearControl, LockControl, TakeByteControl,
     ReadEndControl DEF ReadStep, Threads
<1>4. ASSUME NEW c \in Consumers, EmptyCall(c)
      PROVE  TypeOK' /\ ControlOK'
  BY <1>4, EmptyCallControl
<1>5. ASSUME NEW c \in Consumers, NEW n \in 0..MaxCall, ReadCall(c, n)
      PROVE  TypeOK' /\ ControlOK'
  BY <1>5, ReadCallControl
<1>6. CASE UNCHANGED vars
  BY <1>6 DEF vars, TypeOK, ControlOK
<1> QED BY <1>1, <1>2, <1>3, <1>4, <1>5, <1>6 DEF Next

(***************************************************************************)
(* The state never leaves its types: the indices stay below buffer_size,   *)
(* the counters of a call below its size argument, and only a thread of    *)
(* the model owns the mutex, with any number of threads at each end.       *)
(***************************************************************************)
THEOREM TypeCorrect == Spec => []TypeOK
<1>1. Init => TypeOK /\ ControlOK
  BY InitControl
<1>2. TypeOK /\ ControlOK /\ [Next]_vars => (TypeOK /\ ControlOK)'
  BY StepControl
<1> QED BY <1>1, <1>2, PTL DEF Spec
-----------------------------------------------------------------------------
(***************************************************************************)
(* What the threads learnt before they took the mutex stays true, with one *)
(* thread per end.                                                         *)
(***************************************************************************)
LEMMA UsedPositive ==
  TypeOK => (Used > 0 <=> queue.front # queue.rear \/ Closed)
<1> SUFFICES ASSUME TypeOK
             PROVE  Used > 0 <=> queue.front # queue.rear \/ Closed
  OBVIOUS
<1>1. queue.front \in Index /\ queue.rear \in Index
  BY DEF TypeOK, QueueT
<1> QED BY <1>1 DEF Used, Index

\* A step that neither moves a byte nor touches the ring.
LEMMA QuietStep ==
  ASSUME TypeOK, NEW t \in Threads, queue' = queue, Others(t),
         call'[t].i = call[t].i
  PROVE  /\ Moved(Producers)' = Moved(Producers)
         /\ Moved(Consumers)' = Moved(Consumers)
         /\ Used' = Used /\ Contents' = Contents
<1>1. /\ Moved(Producers)' = Moved(Producers)
      /\ Moved(Consumers)' = Moved(Consumers)
  BY ThreadsApart DEF Moved, Others
<1>2. Used' = Used
  BY <1>1 DEF Used, Closed
<1>3. Contents' = Contents
  BY <1>2 DEF Contents, Slot
<1> QED BY <1>1, <1>2, <1>3

LEMMA WriteCallRing ==
  ASSUME OneThreadPerEnd, IndInv, NEW p \in Producers, NEW n \in 0..MaxCall,
         WriteCall(p, n)
  PROVE  RingOK'
<1> USE DEF IndInv
<1>1. p \in Threads /\ queue' = queue /\ call[p].at = "idle" /\ call[p].i = 0
  BY DEF WriteCall, Threads, ControlOK
<1>2. /\ Others(p) /\ call'[p].i = 0
      /\ call'[p].at = "idle" \/ (call'[p].at = "lock" /\ queue.is_full = 0)
  <2>1. CASE n = 0 \/ queue.is_full = 1
    <3>1. Leave(p, "write", 0)
      BY <2>1 DEF WriteCall
    <3> QED BY <1>1, <3>1, LeaveEffect DEF Op
  <2>2. CASE ~(n = 0 \/ queue.is_full = 1)
    <3>1. Goto(p, "write", "lock", n)
      BY <2>2 DEF WriteCall
    <3> QED BY <1>1, <2>2, <3>1, GotoEffect DEF Op, Point, TypeOK, QueueT
  <2> QED BY <2>1, <2>2
<1>3. \A c \in Consumers : call'[c] = call[c]
  BY <1>2, ThreadsApart DEF Others
<1> QED BY <1>1, <1>2, <1>3, QuietStep DEF OneThreadPerEnd, RingOK

\* A reader's step before the lock, or past it without taking it.
LEMMA ReaderQuietRing ==
  ASSUME OneThreadPerEnd, IndInv, NEW c \in Consumers,
         queue' = queue, Others(c), call'[c].i = call[c].i,
         call'[c].at \in {"lock", "loop"} => Used > 0,
         call'[c].at = "rear" => call'[c].front = queue.front
  PROVE  RingOK'
<1>1. \A p \in Producers : call'[p] = call[p]
  BY ThreadsApart DEF Others
<1> QED BY <1>1, QuietStep, ThreadsApart DEF OneThreadPerEnd, RingOK, IndInv

LEMMA ReadCallRing ==
  ASSUME OneThreadPerEnd, IndInv, NEW c \in Consumers, NEW n \in 0..MaxCall,
         ReadCall(c, n)
  PROVE  RingOK'
<1> USE DEF IndInv
<1>1. c \in Threads /\ queue' = queue /\ call[c].at = "idle" /\ call[c].i = 0
  BY DEF ReadCall, Threads, ControlOK
<1>2. CASE Leave(c, "read", 0)
  BY <1>1, <1>2, LeaveEffect, ReaderQuietRing DEF Op
<1>3. CASE queue.is_full = 1 /\ Goto(c, "read", "lock", n)
  <2>1. Used > 0
    BY <1>1, <1>3, UsedPositive DEF Closed, Moved, ControlOK, OneThreadPerEnd
  <2> QED BY <1>1, <1>3, <2>1, GotoEffect, ReaderQuietRing DEF Op, Point
<1>4. CASE Goto(c, "read", "front", n)
  BY <1>1, <1>4, GotoEffect, ReaderQuietRing DEF Op, Point
<1> QED BY <1>2, <1>3, <1>4 DEF ReadCall

LEMMA EmptyCallRing ==
  ASSUME OneThreadPerEnd, IndInv, NEW c \in Consumers, EmptyCall(c)
  PROVE  RingOK'
<1> USE DEF IndInv
<1>1. c \in Threads /\ queue' = queue /\ call[c].at = "idle" /\ call[c].i = 0
  BY DEF EmptyCall, Threads, ControlOK
<1>2. CASE Leave(c, "empty", 0)
  BY <1>1, <1>2, LeaveEffect, ReaderQuietRing DEF Op
<1>3. CASE Goto(c, "empty", "front", 0)
  BY <1>1, <1>3, GotoEffect, ReaderQuietRing DEF Op, Point
<1> QED BY <1>2, <1>3 DEF EmptyCall

LEMMA LoadFrontRing ==
  ASSUME OneThreadPerEnd, IndInv, NEW c \in Consumers, LoadFront(c)
  PROVE  RingOK'
<1>1. c \in Threads /\ queue' = queue
  BY DEF LoadFront, Threads
<1> QED BY <1>1, LoadFrontEffect, ReaderQuietRing DEF IndInv

LEMMA LoadRearRing ==
  ASSUME OneThreadPerEnd, IndInv, NEW c \in Consumers, LoadRear(c)
  PROVE  RingOK'
<1> USE DEF IndInv
<1>1. c \in Threads /\ queue' = queue /\ call[c].at = "rear" /\ call[c].i = 0
  BY DEF LoadRear, Threads, ControlOK
<1>2. CASE Leave(c, "read", 0)
  BY <1>1, <1>2, LeaveEffect, ReaderQuietRing DEF Op
<1>3. CASE /\ call[c].front # queue.rear
           /\ Goto(c, "read", "lock", call[c].size)
  <2>1. Used > 0
    BY <1>1, <1>3, UsedPositive DEF RingOK
  <2>2. call[c].size \in 0..MaxCall
    BY <1>1 DEF TypeOK, CallT
  <2> QED BY <1>1, <1>3, <2>1, <2>2, GotoEffect, ReaderQuietRing DEF Op, Point
<1>4. ASSUME NEW v \in {0, 1}, Leave(c, "empty", v)
      PROVE  RingOK'
  <2>1. v \in 0..MaxCall
    OBVIOUS
  <2> QED BY <1>1, <1>4, <2>1, LeaveEffect, ReaderQuietRing DEF Op
<1> QED BY <1>2, <1>3, <1>4 DEF LoadRear

LEMMA LockRing ==
  ASSUME OneThreadPerEnd, IndInv, NEW t \in Threads, Lock(t)
  PROVE  RingOK'
<1> USE DEF IndInv
<1>1. call[t].at = "lock" /\ queue.mutex = Nil /\ call[t].i = 0
  BY DEF Lock, ControlOK
<1>2. ~Moved(Producers) /\ ~Moved(Consumers)
  BY <1>1, ThreadsApart DEF Moved
<1>3. ~Moved(Producers)' /\ ~Moved(Consumers)'
  BY <1>1, LockEffect DEF Moved
<1>4. Used' = Used
  BY <1>2, <1>3, LockEffect DEF Used, Closed
<1>5. \A s \in Threads : /\ call'[s].i = call[s].i
                         /\ call'[s].front = call[s].front
                         /\ call'[s].at = IF s = t THEN "loop" ELSE call[s].at
  BY LockEffect DEF Others
<1> QED BY <1>1, <1>2, <1>3, <1>4, <1>5, LockEffect
        DEF Threads, OneThreadPerEnd, RingOK

LEMMA PutByteRing ==
  ASSUME OneThreadPerEnd, IndInv, TypeOK', NEW p \in Producers, NEW b \in Byte,
         PutByte(p, b)
  PROVE  RingOK'
<1> USE DEF IndInv
<1>1. /\ p \in Threads /\ call[p].at = "loop" /\ queue.mutex = p
      /\ call[p].i \in Nat
  BY DEF PutByte, ControlOK, Threads, TypeOK, CallT
<1>2. queue.is_full = 0
  BY <1>1 DEF RingOK
<1>3. /\ Others(p) /\ call'[p].i > 0
      /\ queue'.mutex = p /\ queue'.is_full = 0 /\ queue'.front = queue.front
      /\ queue'.rear = NextIndex(queue.rear)
  <2>1. /\ Others(p) /\ call'[p].i = call[p].i + 1
        /\ queue'.mutex = queue.mutex /\ queue'.is_full = queue.is_full
        /\ queue'.front = queue.front
        /\ queue'.rear = NextIndex(queue.rear)
    BY PutByteEffect, Zenon
  <2> QED BY <1>1, <1>2, <2>1
<1>4. call'[p].at = "loop" => queue.front # NextIndex(queue.rear)
  BY PutByteEffect, Zenon
<1>5. Closed'
  BY <1>1, <1>3 DEF Closed, Moved
<1>6. Used' > 0
  <2>1. (Closed => Used > 0)'
    BY UsedPositive, PTL
  <2> QED BY <1>5, <2>1
<1> QED BY <1>1, <1>3, <1>4, <1>6, ThreadsApart
        DEF RingOK, Others, OneThreadPerEnd

LEMMA TakeByteRing ==
  ASSUME OneThreadPerEnd, IndInv, TypeOK', NEW c \in Consumers, TakeByte(c)
  PROVE  RingOK'
<1> USE DEF IndInv
<1>1. c \in Threads /\ call[c].at = "loop" /\ queue.mutex = c
  BY DEF TakeByte, ControlOK, Threads
<1>2. /\ Others(c) /\ call'[c].i > 0
      /\ queue'.mutex = c /\ queue'.is_full = queue.is_full
      /\ queue'.front = NextIndex(queue.front) /\ queue'.rear = queue.rear
  BY <1>1, TakeByteEffect DEF TypeOK, CallT
<1>3. /\ call'[c].at \in {"loop", "end"}
      /\ call'[c].at = "loop" => NextIndex(queue.front) # queue.rear
  BY TakeByteEffect, Zenon
<1>4. Moved(Consumers)'
  BY <1>1, <1>2 DEF Moved
<1>5. call'[c].at = "loop" => Used' > 0
  <2>1. (queue.front # queue.rear => Used > 0)'
    BY UsedPositive, PTL
  <2> QED BY <1>2, <1>3, <2>1
<1>6. \A p \in Producers : call'[p] = call[p] /\ call[p].at # "loop"
  BY <1>1, <1>2, ThreadsApart DEF Others, ControlOK
<1> QED BY <1>1, <1>2, <1>3, <1>4, <1>5, <1>6 DEF RingOK, OneThreadPerEnd

LEMMA WriteEndRing ==
  ASSUME OneThreadPerEnd, IndInv, TypeOK', NEW p \in Producers, WriteEnd(p)
  PROVE  RingOK'
<1> USE DEF IndInv
<1>1. call[p].at = "end" /\ Leave(p, "write", call[p].i)
  BY DEF WriteEnd
<1>2. p \in Threads /\ call[p].i \in 0..MaxCall /\ queue.mutex = p
  BY <1>1, WriteEndEffect DEF ControlOK
<1>3. Others(p) /\ call'[p].at = "idle"
  BY <1>1, <1>2, LeaveEffect DEF Op
<1>4. queue.is_full = 0 /\ call[p].i > 0
  BY <1>1, <1>2 DEF RingOK, ControlOK
<1>5. /\ queue'.mutex = Nil
      /\ queue'.is_full = IF queue.front = queue.rear THEN 1 ELSE 0
      /\ queue'.front = queue.front /\ queue'.rear = queue.rear
  BY <1>4, WriteEndEffect
<1>6. ~Moved(Consumers)'
  BY <1>5, ThreadsApart DEF Moved, Threads
<1>7. Used' > 0
  <2>1. (queue.front # queue.rear \/ Closed => Used > 0)'
    BY UsedPositive, PTL
  <2> QED BY <1>5, <1>6, <2>1 DEF Closed
<1>8. \A c \in Consumers : call'[c] = call[c]
  BY <1>3, ThreadsApart DEF Others
<1> QED BY <1>3, <1>5, <1>7, <1>8 DEF RingOK, OneThreadPerEnd

LEMMA ReadEndRing ==
  ASSUME OneThreadPerEnd, IndInv, NEW c \in Consumers, ReadEnd(c)
  PROVE  RingOK'
<1> USE DEF IndInv
<1>1. call[c].at = "end" /\ Leave(c, "read", call[c].i)
  BY DEF ReadEnd
<1>2. c \in Threads /\ call[c].i \in 0..MaxCall /\ queue.mutex = c
  BY <1>1, ReadEndEffect DEF ControlOK
<1>3. Others(c) /\ call'[c].at = "idle"
  BY <1>1, <1>2, LeaveEffect DEF Op
<1>4. call[c].i # 0
  BY <1>1, <1>2 DEF ControlOK
<1>5. queue'.is_full = 0
  BY <1>4, ReadEndEffect
<1>6. \A p \in Producers : call'[p] = call[p] /\ call[p].at # "loop"
  BY <1>2, <1>3, ThreadsApart DEF Others, ControlOK
<1> QED BY <1>3, <1>5, <1>6 DEF RingOK, OneThreadPerEnd

LEMMA StepRing ==
  ASSUME OneThreadPerEnd, IndInv, TypeOK', [Next]_vars
  PROVE  RingOK'
<1>1. ASSUME NEW p \in Producers, WriteStep(p)
      PROVE  RingOK'
  BY <1>1, LockRing, PutByteRing, WriteEndRing DEF WriteStep, Threads
<1>2. ASSUME NEW p \in Producers, NEW n \in 0..MaxCall, WriteCall(p, n)
      PROVE  RingOK'
  BY <1>2, WriteCallRing
<1>3. ASSUME NEW c \in Consumers, ReadStep(c)
      PROVE  RingOK'
  BY <1>3, LoadFrontRing, LoadRearRing, LockRing, TakeByteRing, ReadEndRing
     DEF ReadStep, Threads
<1>4. ASSUME NEW c \in Consumers, EmptyCall(c)
      PROVE  RingOK'
  BY <1>4, EmptyCallRing
<1>5. ASSUME NEW c \in Consumers, NEW n \in 0..MaxCall, ReadCall(c, n)
      PROVE  RingOK'
  BY <1>5, ReadCallRing
<1>6. CASE UNCHANGED vars
  <2>1. Used' = Used
    BY <1>6 DEF vars, Used, Closed, Moved
  <2> QED BY <1>6, <2>1 DEF vars, IndInv, RingOK, Moved
<1> QED BY <1>1, <1>2, <1>3, <1>4, <1>5, <1>6 DEF Next

LEMMA InitInv == Init => IndInv
<1> SUFFICES ASSUME Init PROVE IndInv
  OBVIOUS
<1>1. TypeOK /\ ControlOK
  BY InitControl
<1>2. queue.is_full = 0 /\ \A t \in Threads : call[t].at = "idle"
  BY DEF Init, NewQueue, NoCall
<1> QED BY <1>1, <1>2 DEF IndInv, RingOK, Threads

LEMMA StepInv == OneThreadPerEnd /\ IndInv /\ [Next]_vars => IndInv'
BY StepControl, StepRing DEF IndInv

LEMMA InvLoopSafe == IndInv => LoopSafe
<1> SUFFICES ASSUME IndInv PROVE LoopSafe
  OBVIOUS
<1> USE DEF IndInv
<1>1. queue.front \in Index /\ queue.rear \in Index
  BY DEF TypeOK, QueueT
<1>2. ASSUME NEW p \in Producers, call[p].at = "loop"
      PROVE  Used < BufferSize
  <2>1. queue.mutex = p /\ queue.is_full = 0 /\ call[p].i \in Nat
    BY <1>2 DEF ControlOK, RingOK, Threads, TypeOK, CallT
  <2>2. queue.front # queue.rear \/ ~Closed
    BY <1>2, <2>1 DEF RingOK, Closed, Moved
  <2> QED BY <1>1, <2>2 DEF Used, Index
<1> QED BY <1>2 DEF LoopSafe, RingOK

(***************************************************************************)
(* With one writing and one reading thread, the invariant that relates the *)
(* two indices, the full flag and what each thread has already tested is   *)
(* never lost, for any buffer size and any sizes of the calls.             *)
(***************************************************************************)
THEOREM RingInvariant == ASSUME OneThreadPerEnd PROVE Spec => []IndInv
<1>1. Init => IndInv
  BY InitInv
<1>2. IndInv /\ [Next]_vars => IndInv'
  BY StepInv
<1> QED BY <1>1, <1>2, PTL DEF Spec

(***************************************************************************)
(* No turn of queue_write's loop overwrites an unread byte and no turn of  *)
(* queue_read's loop reads past the last one, although both functions test *)
(* the ring before they lock it.                                           *)
(***************************************************************************)
THEOREM LoopsAreSafe == ASSUME OneThreadPerEnd PROVE Spec => []LoopSafe
<1>1. Spec => []IndInv
  BY RingInvariant
<1>2. IndInv => LoopSafe
  BY InvLoopSafe
<1> QED BY <1>1, <1>2, PTL
-----------------------------------------------------------------------------
(***************************************************************************)
(* Queue implements ByteFifo, for every buffer size: the ring, its full    *)
(* flag and its unlocked tests behave to their callers as a first-in       *)
(* first-out sequence.                                                     *)
(***************************************************************************)
-----------------------------------------------------------------------------
(***************************************************************************)
(* What the ring holds, as a sequence.                                     *)
(***************************************************************************)
LEMMA UsedRange ==
  ASSUME TypeOK
  PROVE  Used \in 0..BufferSize
<1>1. queue.front \in Index /\ queue.rear \in Index
  BY DEF TypeOK, QueueT
<1> QED BY <1>1 DEF Used, Index

LEMMA SlotRange ==
  ASSUME TypeOK, NEW k \in 0..(BufferSize - 1)
  PROVE  Slot(k) \in Index
<1>1. queue.front \in Index
  BY DEF TypeOK, QueueT
<1> QED BY <1>1 DEF Slot, Index

LEMMA ContentsIsSeq ==
  TypeOK => /\ Contents \in Seq(Byte)
            /\ Len(Contents) = Used
            /\ \A k \in 1..Used : Contents[k] = queue.buffer[Slot(k - 1)]
<1> SUFFICES ASSUME TypeOK
             PROVE  /\ Contents \in Seq(Byte)
                    /\ Len(Contents) = Used
                    /\ \A k \in 1..Used : Contents[k] = queue.buffer[Slot(k - 1)]
  OBVIOUS
<1>1. Used \in Nat /\ Used <= BufferSize
  BY UsedRange
<1>2. \A k \in 1..Used : queue.buffer[Slot(k - 1)] \in Byte
  <2>1. ASSUME NEW k \in 1..Used PROVE Slot(k - 1) \in Index
    BY <1>1, SlotRange
  <2> QED BY <2>1 DEF TypeOK, QueueT
<1>3. Contents \in [1..Used -> Byte]
  BY <1>2 DEF Contents
<1> QED BY <1>1, <1>3, SeqDef DEF Contents

LEMMA ContentsEmpty ==
  ASSUME TypeOK, Used = 0
  PROVE  Contents = <<>>
BY ContentsIsSeq, EmptySeq

\* queue_write's loop appends, when there is room.
LEMMA PutByteContents ==
  ASSUME TypeOK, TypeOK', NEW b \in Byte, Used < BufferSize, Used' = Used + 1,
         queue'.front = queue.front,
         queue'.buffer = [queue.buffer EXCEPT ![queue.rear] = b]
  PROVE  Contents' = Append(Contents, b)
<1>1. /\ queue.front \in Index /\ queue.rear \in Index
      /\ queue.buffer \in [Index -> Byte]
  BY DEF TypeOK, QueueT
<1>2. Used \in Nat
  BY UsedRange
<1>3. Slot(Used) = queue.rear
  BY <1>1 DEF Used, Slot, Index
<1>4. ASSUME NEW k \in 0..(Used - 1)
      PROVE  Slot(k) \in Index /\ Slot(k) # queue.rear
  <2>1. CASE queue.front < queue.rear
    BY <1>1, <2>1 DEF Used, Slot, Index
  <2>2. CASE queue.rear < queue.front
    BY <1>1, <2>2 DEF Used, Slot, Index
  <2>3. CASE queue.front = queue.rear
    BY <1>1, <2>3 DEF Used, Slot, Index
  <2> QED BY <1>1, <2>1, <2>2, <2>3 DEF Index
<1>5. \A k \in 0..Used : Slot(k)' = Slot(k)
  BY DEF Slot
<1>6. /\ Contents \in Seq(Byte) /\ Len(Contents) = Used
      /\ \A k \in 1..Used : Contents[k] = queue.buffer[Slot(k - 1)]
  BY ContentsIsSeq
<1>7. (/\ Contents \in Seq(Byte)
       /\ Len(Contents) = Used
       /\ \A k \in 1..Used : Contents[k] = queue.buffer[Slot(k - 1)])'
  BY ContentsIsSeq, PTL
<1> DEFINE s == Append(Contents, b)
<1>8. /\ s \in Seq(Byte) /\ Len(s) = Used + 1
      /\ \A k \in 1..(Used + 1) :
           s[k] = IF k = Used + 1 THEN b ELSE Contents[k]
  BY <1>2, <1>6, AppendProperties
<1>9. \A k \in 1..Used' : Contents'[k] = s[k]
  <2> SUFFICES ASSUME NEW k \in 1..Used' PROVE Contents'[k] = s[k]
    OBVIOUS
  <2>1. Contents'[k] = queue'.buffer[Slot(k - 1)]
    BY <1>2, <1>5, <1>7
  <2>2. CASE k = Used + 1
    BY <1>1, <1>2, <1>3, <1>8, <2>1, <2>2
  <2>3. CASE k # Used + 1
    <3>1. k \in 1..Used /\ k - 1 \in 0..(Used - 1)
      BY <1>2, <2>3
    <3>2. queue'.buffer[Slot(k - 1)] = queue.buffer[Slot(k - 1)]
      BY <1>1, <1>4, <3>1
    <3> QED BY <1>6, <1>8, <2>1, <2>3, <3>1, <3>2
  <2> QED BY <2>2, <2>3
<1> HIDE DEF s
<1>10. Contents' = s
  BY <1>7, <1>8, <1>9, SeqEqual
<1> QED BY <1>10 DEF s

\* queue_read's loop removes the head, when there is one.
LEMMA TakeByteContents ==
  ASSUME TypeOK, TypeOK', Used > 0, Used' = Used - 1,
         queue'.front = NextIndex(queue.front), queue'.buffer = queue.buffer
  PROVE  /\ Contents # <<>> /\ Head(Contents) = queue.buffer[queue.front]
         /\ Contents' = Tail(Contents)
<1>1. queue.front \in Index /\ queue.rear \in Index
  BY DEF TypeOK, QueueT
<1>2. Used \in Nat /\ Used <= BufferSize
  BY UsedRange
<1>3. /\ Contents \in Seq(Byte) /\ Len(Contents) = Used
      /\ \A k \in 1..Used : Contents[k] = queue.buffer[Slot(k - 1)]
  BY ContentsIsSeq
<1>4. (/\ Contents \in Seq(Byte)
       /\ Len(Contents) = Used
       /\ \A k \in 1..Used : Contents[k] = queue.buffer[Slot(k - 1)])'
  BY ContentsIsSeq, PTL
<1>5. \A k \in 1..(Used - 1) : Slot(k - 1)' = Slot(k)
  BY <1>1, <1>2, NextIndexValue DEF Slot, Index
<1>6. Contents # <<>>
  BY <1>3, EmptySeq
<1>7. Head(Contents) = queue.buffer[queue.front]
  <2>1. Slot(0) = queue.front
    BY <1>1 DEF Slot, Index
  <2>2. Head(Contents) = Contents[1]
    BY <1>3, <1>6, HeadTailProperties
  <2>3. Contents[1] = queue.buffer[Slot(0)]
    BY <1>2, <1>3
  <2> QED BY <2>1, <2>2, <2>3
<1> DEFINE s == Tail(Contents)
<1>8. /\ s \in Seq(Byte) /\ Len(s) = Used - 1
      /\ \A k \in 1..(Used - 1) : s[k] = Contents[k + 1]
  BY <1>2, <1>3, <1>6, HeadTailProperties
<1>9. \A k \in 1..Used' : Contents'[k] = s[k]
  <2> SUFFICES ASSUME NEW k \in 1..Used' PROVE Contents'[k] = s[k]
    OBVIOUS
  <2>1. k \in 1..(Used - 1) /\ k + 1 \in 1..Used /\ (k + 1) - 1 = k
    BY <1>2
  <2>2. Contents'[k] = queue.buffer[Slot(k)]
    BY <1>4, <1>5, <2>1
  <2>3. s[k] = queue.buffer[Slot(k)]
    BY <1>3, <1>8, <2>1
  <2> QED BY <2>2, <2>3
<1> HIDE DEF s
<1>10. Contents' = s
  BY <1>4, <1>8, <1>9, SeqEqual
<1> QED BY <1>6, <1>7, <1>10 DEF s
-----------------------------------------------------------------------------
(***************************************************************************)
(* What the callers see.                                                   *)
(***************************************************************************)
ViewT == [op : Op, busy : BOOLEAN, size : 0..MaxCall, moved : 0..MaxCall,
          byte : Byte \cup {Nil}, ret : 0..MaxCall]

\* v is what the caller sees of a call whose locals are c.
Shows(v, c) == /\ v \in ViewT
               /\ v.op = c.op /\ v.busy = (c.at # "idle")
               /\ v.size = c.size /\ v.moved = c.i
               /\ v.byte = c.byte /\ v.ret = c.ret

LEMMA ViewShows == ASSUME NEW t \in Threads
                   PROVE  TypeOK => Shows(View(t), call[t])
BY DEF View, ViewT, TypeOK, CallT, Shows

LEMMA ViewShowsNext == ASSUME NEW t \in Threads, TypeOK'
                       PROVE  Shows(View(t)', call'[t])
BY DEF View, ViewT, TypeOK, CallT, Shows

LEMMA ClientUpdate ==
  ASSUME NEW t \in Threads, Others(t)
  PROVE  /\ Client[t] = View(t)
         /\ Client' = [Client EXCEPT ![t] = View(t)']
<1>1. \A s \in Threads \ {t} : View(s)' = View(s)
  BY DEF Others, View
<1> QED BY <1>1 DEF Client

\* A step that changes nothing a caller can see.
LEMMA StutterStep ==
  ASSUME NEW t \in Threads, Others(t), Contents' = Contents,
         call'[t].op = call[t].op, call[t].at # "idle", call'[t].at # "idle",
         call'[t].size = call[t].size, call'[t].i = call[t].i,
         call'[t].byte = call[t].byte, call'[t].ret = call[t].ret
  PROVE  UNCHANGED Fifo!vars
<1>1. \A s \in Threads : View(s)' = View(s)
  BY DEF Others, View
<1> QED BY <1>1 DEF Fifo!vars, Client

LEMMA BeginStep ==
  ASSUME TypeOK, TypeOK', NEW t \in Threads, NEW op \in {"write", "read", "empty"},
         NEW at \in Point \ {"idle"}, NEW n \in 0..MaxCall,
         call[t].at = "idle", Contents' = Contents, Goto(t, op, at, n)
  PROVE  Fifo!Begin(t)
<1>1. /\ Others(t) /\ call'[t].op = op /\ call'[t].at # "idle"
      /\ call'[t].size = n /\ call'[t].i = call[t].i
      /\ call'[t].byte = call[t].byte /\ call'[t].ret = call[t].ret
  BY GotoEffect DEF Op
<1> DEFINE v == Client[t]
           w == View(t)'
<1>2. w = [v EXCEPT !.op = op, !.busy = TRUE, !.size = n]
  <2>1. Shows(v, call[t]) /\ Shows(w, call'[t])
    BY <1>1, ClientUpdate, ViewShows, ViewShowsNext
  <2> HIDE DEF v, w
  <2> QED BY <1>1, <2>1 DEF Shows, ViewT
<1>3. Client' = [Client EXCEPT ![t] = [@ EXCEPT !.op = op, !.busy = TRUE,
                                                !.size = n]]
  BY <1>1, <1>2, ClientUpdate
<1>4. ~Client[t].busy
  BY <1>1, ClientUpdate, ViewShows DEF Shows
<1> QED BY <1>3, <1>4 DEF Fifo!Begin

LEMMA RefuseStep ==
  ASSUME TypeOK, TypeOK', ControlOK, NEW t \in Threads, NEW op \in {"write", "read"},
         call[t].at = "idle", Contents' = Contents, Leave(t, op, 0)
  PROVE  Fifo!Refuse(t)
<1>1. /\ Others(t) /\ call'[t].op = op /\ call'[t].at = "idle"
      /\ call'[t].size = 0 /\ call'[t].i = 0
      /\ call'[t].byte = call[t].byte /\ call'[t].ret = 0
  BY LeaveEffect DEF Op
<1>2. call[t].size = 0 /\ call[t].i = 0
  BY DEF ControlOK, TypeOK, CallT
<1> DEFINE v == Client[t]
           w == View(t)'
<1>3. w = [v EXCEPT !.op = op, !.ret = 0]
  <2>1. Shows(v, call[t]) /\ Shows(w, call'[t])
    BY <1>1, ClientUpdate, ViewShows, ViewShowsNext
  <2> HIDE DEF v, w
  <2> QED BY <1>1, <1>2, <2>1 DEF Shows, ViewT
<1>4. Client' = [Client EXCEPT ![t] = [@ EXCEPT !.op = op, !.ret = 0]]
  BY <1>1, <1>3, ClientUpdate
<1>5. ~Client[t].busy
  BY <1>1, ClientUpdate, ViewShows DEF Shows
<1> QED BY <1>4, <1>5 DEF Fifo!Refuse

LEMMA ReturnStep ==
  ASSUME TypeOK, TypeOK', NEW t \in Threads, NEW op \in {"write", "read"},
         call[t].op = op, call[t].at # "idle", Contents' = Contents,
         Leave(t, op, call[t].i)
  PROVE  Fifo!Return(t)
<1>1. call[t].i \in 0..MaxCall
  BY DEF TypeOK, CallT
<1>2. /\ Others(t) /\ call'[t].op = op /\ call'[t].at = "idle"
      /\ call'[t].size = 0 /\ call'[t].i = 0
      /\ call'[t].byte = call[t].byte /\ call'[t].ret = call[t].i
  BY <1>1, LeaveEffect DEF Op
<1> DEFINE v == Client[t]
           w == View(t)'
<1>3. w = [v EXCEPT !.busy = FALSE, !.size = 0, !.moved = 0,
                                 !.ret = v.moved]
  <2>1. Shows(v, call[t]) /\ Shows(w, call'[t])
    BY <1>2, ClientUpdate, ViewShows, ViewShowsNext
  <2> HIDE DEF v, w
  <2> QED BY <1>2, <2>1 DEF Shows, ViewT
<1>4. Client' = [Client EXCEPT ![t] = [@ EXCEPT !.busy = FALSE, !.size = 0,
                   !.moved = 0, !.ret = Client[t].moved]]
  BY <1>2, <1>3, ClientUpdate
<1>5. Client[t].busy /\ Client[t].op \in {"write", "read"}
  BY <1>2, ClientUpdate, ViewShows DEF Shows
<1> QED BY <1>4, <1>5 DEF Fifo!Return

LEMMA AnswerStep ==
  ASSUME TypeOK, TypeOK', ControlOK, NEW t \in Threads, NEW answer \in {0, 1},
         call[t].at # "idle" => call[t].op = "empty",
         call[t].at \notin {"loop", "end"},
         answer = 0 => Used > 0,
         Contents' = Contents, Leave(t, "empty", answer)
  PROVE  Fifo!Answer(t)
<1>1. answer \in 0..MaxCall
  OBVIOUS
<1>2. /\ Others(t) /\ call'[t].op = "empty" /\ call'[t].at = "idle"
      /\ call'[t].size = 0 /\ call'[t].i = 0
      /\ call'[t].byte = call[t].byte /\ call'[t].ret = answer
  BY <1>1, LeaveEffect DEF Op
<1>3. call[t].size = 0 /\ call[t].i = 0
  BY DEF ControlOK, TypeOK, CallT
<1> DEFINE v == Client[t]
           w == View(t)'
<1>4. w = [v EXCEPT !.op = "empty", !.busy = FALSE,
                                 !.ret = answer]
  <2>1. Shows(v, call[t]) /\ Shows(w, call'[t])
    BY <1>2, ClientUpdate, ViewShows, ViewShowsNext
  <2> HIDE DEF v, w
  <2>2. /\ w.op = "empty" /\ w.busy = FALSE /\ w.size = v.size
        /\ w.moved = v.moved /\ w.byte = v.byte /\ w.ret = answer
    BY <1>2, <1>3, <2>1 DEF Shows
  <2>3. v \in ViewT /\ w \in ViewT
    BY <2>1 DEF Shows
  <2> QED BY <2>2, <2>3 DEF ViewT
<1>5. Client' = [Client EXCEPT ![t] = [@ EXCEPT !.op = "empty",
                                           !.busy = FALSE, !.ret = answer]]
  BY <1>2, <1>4, ClientUpdate
<1>6. Client[t].busy => Client[t].op = "empty"
  BY <1>2, ClientUpdate, ViewShows DEF Shows
<1>7. answer = 0 => Contents # <<>>
  <2>1. Len(Contents) = Used /\ Used \in Nat
    BY ContentsIsSeq, UsedRange
  <2> QED BY <2>1, EmptySeq
<1> QED BY <1>5, <1>6, <1>7 DEF Fifo!Answer
-----------------------------------------------------------------------------
(***************************************************************************)
(* Every step of Queue is a step of ByteFifo or none.                      *)
(***************************************************************************)
StepHyp == OneThreadPerEnd /\ IndInv /\ IndInv'

LEMMA WriteCallSim ==
  ASSUME StepHyp, NEW p \in Producers, NEW n \in 0..MaxCall, WriteCall(p, n)
  PROVE  Fifo!Begin(p) \/ Fifo!Refuse(p)
<1> USE DEF StepHyp, IndInv
<1>1. p \in Threads /\ queue' = queue /\ call[p].at = "idle" /\ call[p].i = 0
  BY DEF WriteCall, Threads, ControlOK
<1>2. CASE Leave(p, "write", 0)
  <2>1. Contents' = Contents
    BY <1>1, <1>2, LeaveEffect, QuietStep DEF Op
  <2> QED BY <1>1, <1>2, <2>1, RefuseStep
<1>3. CASE Goto(p, "write", "lock", n)
  <2>1. Contents' = Contents
    BY <1>1, <1>3, GotoEffect, QuietStep DEF Op, Point
  <2> QED BY <1>1, <1>3, <2>1, BeginStep DEF Point
<1> QED BY <1>2, <1>3 DEF WriteCall

LEMMA ReadCallSim ==
  ASSUME StepHyp, NEW c \in Consumers, NEW n \in 0..MaxCall, ReadCall(c, n)
  PROVE  Fifo!Begin(c) \/ Fifo!Refuse(c)
<1> USE DEF StepHyp, IndInv
<1>1. c \in Threads /\ queue' = queue /\ call[c].at = "idle" /\ call[c].i = 0
  BY DEF ReadCall, Threads, ControlOK
<1>2. CASE Leave(c, "read", 0)
  <2>1. Contents' = Contents
    BY <1>1, <1>2, LeaveEffect, QuietStep DEF Op
  <2> QED BY <1>1, <1>2, <2>1, RefuseStep
<1>3. ASSUME NEW at \in {"lock", "front"}, Goto(c, "read", at, n)
      PROVE  Fifo!Begin(c)
  <2>1. Contents' = Contents
    BY <1>1, <1>3, GotoEffect, QuietStep DEF Op, Point
  <2> QED BY <1>1, <1>3, <2>1, BeginStep DEF Point
<1> QED BY <1>2, <1>3 DEF ReadCall

LEMMA EmptyCallSim ==
  ASSUME StepHyp, NEW c \in Consumers, EmptyCall(c)
  PROVE  Fifo!Begin(c) \/ Fifo!Answer(c)
<1> USE DEF StepHyp, IndInv
<1>1. c \in Threads /\ queue' = queue /\ call[c].at = "idle" /\ call[c].i = 0
  BY DEF EmptyCall, Threads, ControlOK
<1>2. CASE queue.is_full = 1 /\ Leave(c, "empty", 0)
  <2>1. Contents' = Contents
    BY <1>1, <1>2, LeaveEffect, QuietStep DEF Op
  <2>2. Used > 0
    BY <1>1, <1>2, UsedPositive DEF Closed, Moved, ControlOK, OneThreadPerEnd
  <2> QED BY <1>1, <1>2, <2>1, <2>2, AnswerStep
<1>3. CASE Goto(c, "empty", "front", 0)
  <2>1. Contents' = Contents
    BY <1>1, <1>3, GotoEffect, QuietStep DEF Op, Point
  <2> QED BY <1>1, <1>3, <2>1, BeginStep DEF Point
<1> QED BY <1>2, <1>3 DEF EmptyCall

LEMMA LoadFrontSim ==
  ASSUME StepHyp, NEW c \in Consumers, LoadFront(c)
  PROVE  UNCHANGED Fifo!vars
<1> USE DEF StepHyp, IndInv
<1>1. c \in Threads /\ queue' = queue /\ call[c].at = "front"
  BY DEF LoadFront, Threads
<1>2. Contents' = Contents
  BY <1>1, LoadFrontEffect, QuietStep
<1> QED BY <1>1, <1>2, LoadFrontEffect, StutterStep

LEMMA LoadRearSim ==
  ASSUME StepHyp, NEW c \in Consumers, LoadRear(c)
  PROVE  UNCHANGED Fifo!vars \/ Fifo!Return(c) \/ Fifo!Answer(c)
<1> USE DEF StepHyp, IndInv
<1>1. c \in Threads /\ queue' = queue /\ call[c].at = "rear" /\ call[c].i = 0
  BY DEF LoadRear, Threads, ControlOK
<1>2. CASE call[c].op = "read" /\ Leave(c, "read", 0)
  <2>1. Contents' = Contents
    BY <1>1, <1>2, LeaveEffect, QuietStep DEF Op
  <2> QED BY <1>1, <1>2, <2>1, ReturnStep
<1>3. CASE call[c].op = "read" /\ Goto(c, "read", "lock", call[c].size)
  <2>1. call[c].size \in 0..MaxCall
    BY <1>1 DEF TypeOK, CallT
  <2>2. Contents' = Contents
    BY <1>1, <1>3, <2>1, GotoEffect, QuietStep DEF Op, Point
  <2> QED BY <1>1, <1>3, <2>1, <2>2, GotoEffect, StutterStep DEF Op, Point
<1>4. ASSUME NEW v \in {0, 1}, call[c].op = "empty", Leave(c, "empty", v),
             v = 0 => call[c].front # queue.rear
      PROVE  Fifo!Answer(c)
  <2>1. v \in 0..MaxCall
    OBVIOUS
  <2>2. Contents' = Contents
    BY <1>1, <1>4, <2>1, LeaveEffect, QuietStep DEF Op
  <2>3. v = 0 => Used > 0
    BY <1>1, <1>4, UsedPositive DEF RingOK
  <2> QED BY <1>1, <1>4, <2>2, <2>3, AnswerStep
<1> QED BY <1>2, <1>3, <1>4 DEF LoadRear

LEMMA LockSim ==
  ASSUME StepHyp, NEW t \in Threads, Lock(t)
  PROVE  UNCHANGED Fifo!vars
<1> USE DEF StepHyp, IndInv
<1>1. call[t].at = "lock" /\ queue.mutex = Nil /\ call[t].i = 0
  BY DEF Lock, ControlOK
<1>2. ~Moved(Producers) /\ ~Moved(Consumers)
  BY <1>1, ThreadsApart DEF Moved
<1>3. ~Moved(Producers)' /\ ~Moved(Consumers)'
  BY <1>1, LockEffect DEF Moved
<1>4. Used' = Used
  BY <1>2, <1>3, LockEffect DEF Used, Closed
<1>5. Contents' = Contents
  BY <1>4, LockEffect DEF Contents, Slot
<1> QED BY <1>1, <1>5, LockEffect, StutterStep

\* A loop turn of t moves one byte; b is what its caller's buffer shows.
LEMMA MoveClient ==
  ASSUME TypeOK, TypeOK', NEW t \in Threads, NEW b, Others(t),
         call[t].at # "idle", call'[t].at # "idle",
         call'[t].op = call[t].op, call'[t].size = call[t].size,
         call'[t].i = call[t].i + 1, call'[t].byte = b,
         call'[t].ret = call[t].ret
  PROVE  /\ Client' = [Client EXCEPT ![t] =
                         [@ EXCEPT !.moved = Client[t].moved + 1, !.byte = b]]
         /\ b = call[t].byte => Client' = [Client EXCEPT ![t].moved = @ + 1]
<1> DEFINE v == Client[t]
           w == View(t)'
<1>1. Shows(v, call[t]) /\ Shows(w, call'[t])
  BY ClientUpdate, ViewShows, ViewShowsNext
<1>2. Client' = [Client EXCEPT ![t] = w]
  BY ClientUpdate
<1> HIDE DEF w
<1>3. w = [v EXCEPT !.moved = v.moved + 1, !.byte = b]
  <2> HIDE DEF v
  <2> QED BY <1>1 DEF Shows, ViewT
<1>4. b = call[t].byte => w = [v EXCEPT !.moved = v.moved + 1]
  <2> HIDE DEF v
  <2> QED BY <1>1 DEF Shows, ViewT
<1> QED BY <1>2, <1>3, <1>4

LEMMA PutByteSim ==
  ASSUME StepHyp, NEW p \in Producers, NEW b \in Byte, PutByte(p, b)
  PROVE  Fifo!Put(p, b)
<1> USE DEF StepHyp, IndInv
<1>1. /\ p \in Threads /\ call[p].at = "loop" /\ call[p].op = "write"
      /\ queue.mutex = p /\ call[p].i \in Nat /\ call[p].i < call[p].size
  BY DEF PutByte, ControlOK, Threads, TypeOK, CallT
<1>2. /\ Others(p) /\ call'[p].op = call[p].op /\ call'[p].at # "idle"
      /\ call'[p].size = call[p].size /\ call'[p].i = call[p].i + 1
      /\ call'[p].byte = call[p].byte /\ call'[p].ret = call[p].ret
  <2>1. call'[p].at \in {"loop", "end"}
    BY PutByteEffect, Zenon
  <2> QED BY <2>1, PutByteEffect, Zenon
<1>3. /\ queue'.mutex = queue.mutex
      /\ queue'.front = queue.front /\ queue'.rear = NextIndex(queue.rear)
      /\ queue'.buffer = [queue.buffer EXCEPT ![queue.rear] = b]
  BY PutByteEffect, Zenon
<1>4. Used < BufferSize
  BY <1>1, InvLoopSafe DEF LoopSafe
<1>5. Used' = Used + 1
  <2>1. queue.front \in Index /\ queue.rear \in Index
    BY DEF TypeOK, QueueT
  <2>2. Closed'
    BY <1>1, <1>2, <1>3 DEF Closed, Moved
  <2>3. queue.front # queue.rear \/ ~Closed
    BY <1>4, <2>1 DEF Used, Index
  <2> QED BY <1>3, <2>1, <2>2, <2>3, NextIndexValue DEF Used, Index
<1>6. Contents' = Append(Contents, b)
  BY <1>3, <1>4, <1>5, PutByteContents
<1>7. Len(Contents) < BufferSize
  BY <1>4, ContentsIsSeq
<1>8. Client' = [Client EXCEPT ![p].moved = @ + 1]
  BY <1>1, <1>2, MoveClient
<1>9. /\ Client[p].busy /\ Client[p].op = "write"
      /\ Client[p].moved < Client[p].size
  <2>1. Shows(Client[p], call[p])
    BY <1>1, <1>2, ClientUpdate, ViewShows
  <2>2. Client[p].busy = (call[p].at # "idle") /\ Client[p].op = call[p].op
        /\ Client[p].moved = call[p].i /\ Client[p].size = call[p].size
    BY <2>1 DEF Shows
  <2> QED BY <1>1, <2>2
<1> QED BY <1>6, <1>7, <1>8, <1>9 DEF Fifo!Put

LEMMA TakeByteSim ==
  ASSUME StepHyp, NEW c \in Consumers, TakeByte(c)
  PROVE  Fifo!Take(c)
<1> USE DEF StepHyp, IndInv
<1>1. /\ c \in Threads /\ call[c].at = "loop" /\ call[c].op = "read"
      /\ queue.mutex = c /\ call[c].i \in Nat /\ call[c].i < call[c].size
  BY DEF TakeByte, ControlOK, Threads, TypeOK, CallT
<1>2. /\ Others(c) /\ call'[c].op = call[c].op /\ call'[c].at # "idle"
      /\ call'[c].size = call[c].size /\ call'[c].i = call[c].i + 1
      /\ call'[c].byte = queue.buffer[queue.front]
      /\ call'[c].ret = call[c].ret
  <2>1. call'[c].at \in {"loop", "end"}
    BY TakeByteEffect, Zenon
  <2> QED BY <2>1, TakeByteEffect, Zenon
<1>3. /\ queue'.mutex = queue.mutex /\ queue'.rear = queue.rear
      /\ queue'.front = NextIndex(queue.front) /\ queue'.buffer = queue.buffer
  BY TakeByteEffect, Zenon
<1>4. Used > 0
  BY <1>1, InvLoopSafe DEF LoopSafe
<1>5. Used' = Used - 1
  <2>1. queue.front \in Index /\ queue.rear \in Index
    BY DEF TypeOK, QueueT
  <2>2. ~Closed'
    BY <1>1, <1>2, <1>3, ThreadsApart DEF Closed, Moved
  <2>3. queue.front # queue.rear \/ Closed
    BY <1>4, UsedPositive
  <2> QED BY <1>3, <2>1, <2>2, <2>3, NextIndexValue DEF Used, Index
<1>6. /\ Contents # <<>> /\ Contents' = Tail(Contents)
      /\ call'[c].byte = Head(Contents)
  BY <1>2, <1>3, <1>4, <1>5, TakeByteContents
<1>7. Client' = [Client EXCEPT ![c] = [@ EXCEPT
                   !.moved = Client[c].moved + 1, !.byte = Head(Contents)]]
  <2> DEFINE b == Head(Contents)
  <2>1. call'[c].byte = b /\ call[c].at # "idle"
    BY <1>1, <1>6
  <2> HIDE DEF b
  <2>2. Client' = [Client EXCEPT ![c] = [@ EXCEPT
                     !.moved = Client[c].moved + 1, !.byte = b]]
    BY <1>1, <1>2, <2>1, MoveClient
  <2> QED BY <2>2 DEF b
<1>8. /\ Client[c].busy /\ Client[c].op = "read"
      /\ Client[c].moved < Client[c].size
  <2>1. Shows(Client[c], call[c])
    BY <1>1, <1>2, ClientUpdate, ViewShows
  <2>2. Client[c].busy = (call[c].at # "idle") /\ Client[c].op = call[c].op
        /\ Client[c].moved = call[c].i /\ Client[c].size = call[c].size
    BY <2>1 DEF Shows
  <2> QED BY <1>1, <2>2
<1> QED BY <1>6, <1>7, <1>8 DEF Fifo!Take

LEMMA WriteEndSim ==
  ASSUME StepHyp, NEW p \in Producers, WriteEnd(p)
  PROVE  Fifo!Return(p)
<1> USE DEF StepHyp, IndInv
<1>1. /\ call[p].at = "end" /\ call[p].op = "write" /\ p \in Threads
      /\ Leave(p, "write", call[p].i)
  BY DEF WriteEnd, Threads
<1>2. queue.mutex = p /\ call[p].i > 0
  BY <1>1 DEF ControlOK
<1>3. Closed
  BY <1>2 DEF Closed, Moved
<1>4. /\ queue'.mutex = Nil
      /\ queue'.is_full = IF queue.front = queue.rear THEN 1 ELSE queue.is_full
      /\ queue'.front = queue.front /\ queue'.rear = queue.rear
      /\ queue'.buffer = queue.buffer
  BY WriteEndEffect
<1>5. queue.front = queue.rear => Closed'
  BY <1>4, ThreadsApart DEF Closed, Moved, Threads
<1>6. Used' = Used
  <2>1. queue.front \in Index /\ queue.rear \in Index
    BY DEF TypeOK, QueueT
  <2>2. CASE queue.front = queue.rear
    BY <1>3, <1>4, <1>5, <2>2 DEF Used
  <2>3. CASE queue.front # queue.rear
    <3>1. queue'.front = queue.front /\ queue'.rear = queue.rear
      BY <1>4
    <3>2. queue.front < queue.rear \/ queue.rear < queue.front
      BY <2>1, <2>3 DEF Index
    <3> QED BY <3>1, <3>2 DEF Used
  <2> QED BY <2>2, <2>3
<1>7. Contents' = Contents
  BY <1>4, <1>6 DEF Contents, Slot
<1> QED BY <1>1, <1>7, ReturnStep

LEMMA ReadEndSim ==
  ASSUME StepHyp, NEW c \in Consumers, ReadEnd(c)
  PROVE  Fifo!Return(c)
<1> USE DEF StepHyp, IndInv
<1>1. /\ call[c].at = "end" /\ call[c].op = "read" /\ c \in Threads
      /\ Leave(c, "read", call[c].i)
  BY DEF ReadEnd, Threads
<1>2. queue.mutex = c /\ call[c].i > 0 /\ call[c].i # 0
  BY <1>1 DEF ControlOK
<1>3. ~Closed
  BY <1>2, ThreadsApart DEF Closed, Moved
<1>4. /\ queue'.mutex = Nil /\ queue'.is_full = 0
      /\ queue'.front = queue.front /\ queue'.rear = queue.rear
      /\ queue'.buffer = queue.buffer
  BY <1>2, ReadEndEffect
<1>5. ~Closed'
  BY <1>4, ThreadsApart DEF Closed, Moved, Threads
<1>6. Used' = Used
  BY <1>3, <1>4, <1>5 DEF Used
<1>7. Contents' = Contents
  BY <1>4, <1>6 DEF Contents, Slot
<1> QED BY <1>1, <1>7, ReturnStep

LEMMA InitSim == Init => Fifo!Init
<1> SUFFICES ASSUME Init PROVE Fifo!Init
  OBVIOUS
<1>1. IndInv
  BY InitInv
<1>2. /\ queue.front = 0 /\ queue.rear = 0 /\ queue.is_full = 0
      /\ queue.mutex = Nil
  BY DEF Init, NewQueue
<1>3. ~Closed
  BY <1>2, ThreadsApart DEF Closed, Moved, Threads
<1>4. Contents = <<>>
  BY <1>1, <1>2, <1>3, ContentsEmpty DEF Used, IndInv
<1>5. Client = [t \in Threads |-> [op |-> "none", busy |-> FALSE, size |-> 0,
                                   moved |-> 0, byte |-> Nil, ret |-> 0]]
  BY DEF Client, View, Init, NoCall
<1> QED BY <1>4, <1>5 DEF Fifo!Init, Fifo!Threads, Threads

LEMMA StepSim == StepHyp /\ [Next]_vars => [Fifo!Next]_(Fifo!vars)
<1> SUFFICES ASSUME StepHyp, [Next]_vars
             PROVE  Fifo!Next \/ UNCHANGED Fifo!vars
  OBVIOUS
<1>1. ASSUME NEW p \in Producers, WriteStep(p)
      PROVE  Fifo!Next \/ UNCHANGED Fifo!vars
  BY <1>1, LockSim, PutByteSim, WriteEndSim
     DEF WriteStep, Threads, Fifo!Next, Fifo!Threads
<1>2. ASSUME NEW p \in Producers, NEW n \in 0..MaxCall, WriteCall(p, n)
      PROVE  Fifo!Next
  BY <1>2, WriteCallSim DEF Fifo!Next, Fifo!Threads
<1>3. ASSUME NEW c \in Consumers, ReadStep(c)
      PROVE  Fifo!Next \/ UNCHANGED Fifo!vars
  BY <1>3, LoadFrontSim, LoadRearSim, LockSim, TakeByteSim, ReadEndSim
     DEF ReadStep, Threads, Fifo!Next, Fifo!Threads
<1>4. ASSUME NEW c \in Consumers, EmptyCall(c)
      PROVE  Fifo!Next
  BY <1>4, EmptyCallSim DEF Fifo!Next, Fifo!Threads
<1>5. ASSUME NEW c \in Consumers, NEW n \in 0..MaxCall, ReadCall(c, n)
      PROVE  Fifo!Next
  BY <1>5, ReadCallSim DEF Fifo!Next, Fifo!Threads
<1>6. CASE UNCHANGED vars
  BY <1>6 DEF vars, Fifo!vars, Contents, Slot, Used, Closed, Moved, Client, View
<1> QED BY <1>1, <1>2, <1>3, <1>4, <1>5, <1>6 DEF Next

(***************************************************************************)
(* queue_write, queue_read and queue_empty implement a first-in first-out  *)
(* sequence of at most buffer_size bytes, for any buffer size and calls of *)
(* any size: no byte is lost, repeated or reordered, and the number a call *)
(* returns is the number it moved.                                         *)
(***************************************************************************)
THEOREM QueueIsFifo == ASSUME OneThreadPerEnd PROVE Spec => FifoSpec
<1>1. Spec => []IndInv
  BY RingInvariant
<1>2. Init => Fifo!Init
  BY InitSim
<1>3. IndInv /\ IndInv' /\ [Next]_vars => [Fifo!Next]_(Fifo!vars)
  BY StepSim DEF StepHyp
<1> QED BY <1>1, <1>2, <1>3, PTL DEF Spec, FifoSpec, Fifo!Spec
-----------------------------------------------------------------------------
(***************************************************************************)
(* What one step of a call does to the contents of the ring: for the       *)
(* modules that use a queue without looking into it.                       *)
(***************************************************************************)
LEMMA WriterQuiet ==
  ASSUME StepHyp, NEW p \in Producers,
         Lock(p) \/ WriteEnd(p) \/ \E n \in 0..MaxCall : WriteCall(p, n)
  PROVE  Contents' = Contents /\ Others(p)
<1> USE DEF StepHyp, IndInv
<1>1. p \in Threads
  BY DEF Threads
<1>2. CASE Lock(p)
  BY <1>1, <1>2, LockSim, LockEffect DEF Fifo!vars
<1>3. CASE WriteEnd(p)
  <2>1. Leave(p, "write", call[p].i) /\ call[p].i \in 0..MaxCall
    BY <1>3, WriteEndEffect DEF WriteEnd
  <2> QED BY <1>1, <1>3, <2>1, LeaveEffect, WriteEndSim DEF Fifo!Return, Op
<1>4. ASSUME NEW n \in 0..MaxCall, WriteCall(p, n)
      PROVE  Contents' = Contents /\ Others(p)
  <2>1. Contents' = Contents
    BY <1>4, WriteCallSim DEF Fifo!Begin, Fifo!Refuse
  <2>2. CASE Leave(p, "write", 0)
    BY <1>1, <2>1, <2>2, LeaveEffect DEF Op
  <2>3. CASE Goto(p, "write", "lock", n)
    BY <1>1, <2>1, <2>3, GotoEffect DEF Op, Point
  <2> QED BY <1>4, <2>2, <2>3 DEF WriteCall
<1> QED BY <1>2, <1>3, <1>4

LEMMA WriterPuts ==
  ASSUME StepHyp, NEW p \in Producers, NEW b \in Byte, PutByte(p, b)
  PROVE  /\ Len(Contents) < BufferSize /\ Contents' = Append(Contents, b)
         /\ Others(p)
<1>1. Fifo!Put(p, b)
  BY PutByteSim
<1>2. Others(p)
  BY PutByteEffect, Zenon DEF StepHyp, IndInv
<1> QED BY <1>1, <1>2 DEF Fifo!Put

LEMMA ReaderQuiet ==
  ASSUME StepHyp, NEW c \in Consumers,
         \/ LoadFront(c) \/ LoadRear(c) \/ Lock(c) \/ EmptyCall(c)
         \/ \E n \in 0..MaxCall : ReadCall(c, n)
  PROVE  /\ Contents' = Contents /\ Others(c)
         /\ call[c].i = 0 /\ call'[c].i = 0
<1> USE DEF StepHyp, IndInv
<1>1. c \in Threads
  BY DEF Threads
<1>2. call[c].i = 0
  BY <1>1 DEF ControlOK, LoadFront, LoadRear, Lock, EmptyCall, ReadCall
<1>3. CASE LoadFront(c)
  BY <1>1, <1>2, <1>3, LoadFrontSim, LoadFrontEffect DEF Fifo!vars
<1>4. CASE Lock(c)
  BY <1>1, <1>2, <1>4, LockSim, LockEffect DEF Fifo!vars
<1>5. CASE LoadRear(c)
  <2>1. Contents' = Contents
    BY <1>5, LoadRearSim DEF Fifo!vars, Fifo!Return, Fifo!Answer
  <2>2. ASSUME NEW op \in Op, NEW v \in {0, 1}, Leave(c, op, v)
        PROVE  Others(c) /\ call'[c].i = 0
    <3>1. v \in 0..MaxCall
      OBVIOUS
    <3> QED BY <1>1, <2>2, <3>1, LeaveEffect
  <2>3. ASSUME Goto(c, "read", "lock", call[c].size)
        PROVE  Others(c) /\ call'[c].i = 0
    <3>1. call[c].size \in 0..MaxCall
      BY <1>1 DEF TypeOK, CallT
    <3> QED BY <1>1, <1>2, <2>3, <3>1, GotoEffect DEF Op, Point
  <2>4. \/ \E op \in Op, v \in {0, 1} : Leave(c, op, v)
        \/ Goto(c, "read", "lock", call[c].size)
    BY <1>5 DEF LoadRear, Op
  <2> QED BY <1>2, <2>1, <2>2, <2>3, <2>4
<1>6. CASE EmptyCall(c)
  <2>1. Contents' = Contents
    BY <1>6, EmptyCallSim DEF Fifo!Begin, Fifo!Answer
  <2>2. CASE Leave(c, "empty", 0)
    BY <1>1, <1>2, <2>1, <2>2, LeaveEffect DEF Op
  <2>3. CASE Goto(c, "empty", "front", 0)
    BY <1>1, <1>2, <2>1, <2>3, GotoEffect DEF Op, Point
  <2> QED BY <1>6, <2>2, <2>3 DEF EmptyCall
<1>7. ASSUME NEW n \in 0..MaxCall, ReadCall(c, n)
      PROVE  Contents' = Contents /\ Others(c) /\ call'[c].i = 0
  <2>1. Contents' = Contents
    BY <1>7, ReadCallSim DEF Fifo!Begin, Fifo!Refuse
  <2>2. CASE Leave(c, "read", 0)
    BY <1>1, <1>2, <2>1, <2>2, LeaveEffect DEF Op
  <2>3. ASSUME NEW at \in {"lock", "front"}, Goto(c, "read", at, n)
        PROVE  Others(c) /\ call'[c].i = 0
    BY <1>1, <1>2, <2>3, GotoEffect DEF Op, Point
  <2> QED BY <1>7, <2>1, <2>2, <2>3 DEF ReadCall
<1> QED BY <1>2, <1>3, <1>4, <1>5, <1>6, <1>7

LEMMA ReaderTakes ==
  ASSUME StepHyp, NEW c \in Consumers, TakeByte(c)
  PROVE  /\ Contents # <<>> /\ Contents' = Tail(Contents)
         /\ call'[c].byte = Head(Contents) /\ call'[c].i = call[c].i + 1
         /\ Others(c)
<1> USE DEF StepHyp, IndInv
<1>1. Contents # <<>> /\ Contents' = Tail(Contents)
  BY TakeByteSim DEF Fifo!Take
<1>2. /\ Others(c) /\ call'[c].i = call[c].i + 1
      /\ call'[c].byte = queue.buffer[queue.front]
  BY TakeByteEffect, Zenon
<1>3. Head(Contents) = queue.buffer[queue.front]
  <2>1. Contents \in Seq(Byte) /\ Len(Contents) = Used
        /\ \A k \in 1..Used : Contents[k] = queue.buffer[Slot(k - 1)]
    BY ContentsIsSeq
  <2>2. Head(Contents) = Contents[1]
    BY <1>1, <2>1, HeadTailProperties
  <2>3. Used \in Nat /\ Used # 0
    BY <1>1, <2>1, UsedRange, EmptySeq
  <2>4. Slot(1 - 1) = queue.front /\ 1 \in 1..Used
    BY <2>3 DEF Slot, TypeOK, QueueT, Index
  <2> QED BY <2>1, <2>2, <2>4
<1> QED BY <1>1, <1>2, <1>3

LEMMA ReaderEnds ==
  ASSUME StepHyp, NEW c \in Consumers, ReadEnd(c)
  PROVE  Contents' = Contents /\ call'[c].i = 0 /\ Others(c)
<1> USE DEF StepHyp, IndInv
<1>1. Contents' = Contents
  BY ReadEndSim DEF Fifo!Return
<1>2. Leave(c, "read", call[c].i) /\ call[c].i \in 0..MaxCall /\ c \in Threads
  BY ReadEndEffect DEF ReadEnd
<1> QED BY <1>1, <1>2, LeaveEffect DEF Op

LEMMA ContentsLength == IndInv => Len(Contents) = Used /\ Used \in 0..BufferSize
BY ContentsIsSeq, UsedRange DEF IndInv

LEMMA HasByte == ASSUME IndInv PROVE Used > 0 <=> Contents # <<>>
<1>1. Contents \in Seq(Byte) /\ Len(Contents) = Used /\ Used \in Nat
  BY ContentsIsSeq, UsedRange DEF IndInv
<1> QED BY <1>1, EmptySeq

\* An answer "not empty" is true.
LEMMA NotEmptyIsTrue ==
  ASSUME StepHyp, NEW c \in Consumers, EmptyCall(c) \/ LoadRear(c),
         call'[c].at = "idle", call'[c].op = "empty", call'[c].ret = 0
  PROVE  Contents' # <<>>
<1> USE DEF StepHyp, IndInv
<1>1. c \in Threads /\ Contents' = Contents
  BY ReaderQuiet DEF Threads
<1> SUFFICES Used > 0
  BY <1>1, HasByte
<1>2. CASE EmptyCall(c)
  <2>1. ~Goto(c, "empty", "front", 0)
    BY <1>1, GotoEffect DEF Op, Point
  <2>2. queue.is_full = 1 /\ call[c].at = "idle"
    BY <1>2, <2>1 DEF EmptyCall
  <2> QED BY <1>1, <2>2, UsedPositive
          DEF Closed, Moved, ControlOK, OneThreadPerEnd
<1>3. CASE LoadRear(c)
  <2>1. ~Leave(c, "read", 0)
    BY <1>1, LeaveEffect DEF Op
  <2>2. ~Goto(c, "read", "lock", call[c].size)
    <3>1. call[c].size \in 0..MaxCall
      BY <1>1 DEF TypeOK, CallT
    <3> QED BY <1>1, <3>1, GotoEffect DEF Op, Point
  <2>3. ~Leave(c, "empty", 1)
    <3>1. 1 \in 0..MaxCall
      OBVIOUS
    <3> QED BY <1>1, <3>1, LeaveEffect DEF Op
  <2>4. call[c].front # queue.rear /\ call[c].at = "rear"
    BY <1>3, <2>1, <2>2, <2>3 DEF LoadRear
  <2> QED BY <2>4, UsedPositive DEF RingOK
<1> QED BY <1>2, <1>3

\* A read that finds a ring with bytes in it empty has found a full one.
LEMMA EmptyReadIsOfFull ==
  ASSUME StepHyp, NEW c \in Consumers, LoadRear(c), call[c].op = "read",
         call'[c].at = "idle", Contents # <<>>
  PROVE  Len(Contents) = BufferSize
<1> USE DEF StepHyp, IndInv
<1>1. c \in Threads /\ call[c].size \in 0..MaxCall
  BY DEF Threads, TypeOK, CallT
<1>2. ~Goto(c, "read", "lock", call[c].size)
  BY <1>1, GotoEffect DEF Op, Point
<1>3. call[c].front = queue.rear /\ call[c].at = "rear"
  BY <1>2 DEF LoadRear
<1>4. queue.front = queue.rear /\ queue.front \in Index
  BY <1>3 DEF RingOK, TypeOK, QueueT
<1>5. Used = BufferSize
  BY <1>4, HasByte DEF Used, Index
<1> QED BY <1>5, ContentsIsSeq

\* A writer is inside the loops only while is_full is 0.
LEMMA StepFullCount == StepHyp /\ FullCount /\ [Next]_vars => FullCount'
<1> SUFFICES ASSUME StepHyp, FullCount, [Next]_vars PROVE FullCount'
  OBVIOUS
<1> USE DEF StepHyp
<1>1. Len(Contents) = Used /\ Used \in 0..BufferSize
      /\ Len(Contents') = Used' /\ Used' \in 0..BufferSize
  <2>1. (Len(Contents) = Used /\ Used \in 0..BufferSize)'
    BY ContentsLength, PTL
  <2> QED BY <2>1, ContentsLength
<1>2. ASSUME Contents' = Contents, queue'.is_full = queue.is_full,
             \A c \in Consumers : call'[c].i = call[c].i
      PROVE  FullCount'
  BY <1>1, <1>2 DEF FullCount
<1>3. ASSUME NEW p \in Producers, WriteStep(p) \/ \E n \in 0..MaxCall : WriteCall(p, n)
      PROVE  FullCount'
  <2>1. CASE Lock(p) \/ \E n \in 0..MaxCall : WriteCall(p, n)
    <3>1. queue'.is_full = queue.is_full
      BY <2>1, LockEffect DEF WriteCall, Threads, IndInv
    <3> QED BY <1>2, <2>1, <3>1, WriterQuiet, ThreadsApart DEF Others
  <2>2. ASSUME NEW b \in Byte, PutByte(p, b) PROVE FullCount'
    <3>1. queue.is_full = 0 /\ queue'.is_full = queue.is_full
      BY <2>2, PutByteEffect, Zenon DEF PutByte, IndInv, RingOK
    <3> QED BY <3>1 DEF FullCount
  <2>3. CASE WriteEnd(p)
    <3>1. /\ queue.mutex = p /\ call[p].i > 0 /\ queue.is_full = 0
          /\ \A c \in Consumers : call[c].i = 0
      BY <2>3, ThreadsApart DEF IndInv, ControlOK, RingOK, WriteEnd
    <3>2. Contents' = Contents /\ \A c \in Consumers : call'[c].i = 0
      BY <2>3, <3>1, WriterQuiet, ThreadsApart DEF Others
    <3>3. queue'.is_full = 1 => queue.front = queue.rear
      BY <2>3, <3>1, WriteEndEffect DEF IndInv
    <3>4. queue.front = queue.rear => Used = BufferSize
      BY <3>1 DEF Used, Closed, Moved, IndInv, TypeOK, QueueT, Index
    <3> QED BY <1>1, <3>2, <3>3, <3>4 DEF FullCount
  <2> QED BY <1>3, <2>1, <2>2, <2>3 DEF WriteStep
<1>4. ASSUME NEW c \in Consumers, ReadStep(c) \/ EmptyCall(c)
                                   \/ \E n \in 0..MaxCall : ReadCall(c, n)
      PROVE  FullCount'
  <2>1. \A d \in Consumers : d = c
    BY DEF OneThreadPerEnd
  <2>2. CASE \/ LoadFront(c) \/ LoadRear(c) \/ Lock(c) \/ EmptyCall(c)
             \/ \E n \in 0..MaxCall : ReadCall(c, n)
    <3>1. queue'.is_full = queue.is_full
      BY <2>2, LockEffect
         DEF LoadFront, LoadRear, EmptyCall, ReadCall, Threads, IndInv
    <3> QED BY <1>2, <2>1, <2>2, <3>1, ReaderQuiet
  <2>3. CASE TakeByte(c)
    <3>1. queue'.is_full = queue.is_full
      BY <2>3, TakeByteEffect, Zenon DEF IndInv
    <3>2. Used' = Used - 1
      <4>1. Contents \in Seq(Byte) /\ Contents # <<>> /\ Contents' = Tail(Contents)
        BY <2>3, ReaderTakes, ContentsIsSeq DEF IndInv
      <4>2. Len(Tail(Contents)) = Len(Contents) - 1
        BY <4>1, HeadTailProperties
      <4> QED BY <1>1, <4>1, <4>2
    <3>3. call'[c].i = call[c].i + 1 /\ call[c].i \in Nat
      BY <2>3, ReaderTakes DEF IndInv, TypeOK, CallT, Threads
    <3>4. Used + call[c].i = BufferSize => Used' + call'[c].i = BufferSize
      BY <1>1, <3>2, <3>3
    <3> QED BY <2>1, <3>1, <3>4 DEF FullCount
  <2>4. CASE ReadEnd(c)
    <3>1. call[c].i > 0 /\ call[c].i # 0
      BY <2>4 DEF IndInv, ControlOK, ReadEnd, Threads
    <3> QED BY <2>4, <3>1, ReadEndEffect DEF IndInv, FullCount
  <2> QED BY <1>4, <2>2, <2>3, <2>4 DEF ReadStep
<1>5. CASE UNCHANGED vars
  BY <1>5 DEF vars, FullCount, Used, Closed, Moved
<1> QED BY <1>3, <1>4, <1>5 DEF Next

(***************************************************************************)
(* A full flag means a ring that was full when the present read began, for *)
(* any buffer size: queue_write never turns a byte away for another        *)
(* reason.                                                                 *)
(***************************************************************************)
THEOREM FullIsFull == ASSUME OneThreadPerEnd PROVE Spec => []FullCount
<1>1. Spec => []IndInv
  BY RingInvariant
<1>2. Init => FullCount
  BY DEF Init, NewQueue, FullCount
<1>3. IndInv /\ IndInv' /\ FullCount /\ [Next]_vars => FullCount'
  BY StepFullCount DEF StepHyp
<1> QED BY <1>1, <1>2, <1>3, PTL DEF Spec
=============================================================================
