---------------------------- MODULE SerialProofs ----------------------------
(***************************************************************************)
(* The serial port uses its two queues as Queue allows, one thread at each *)
(* end, so that what is proved of Queue holds of both.                     *)
(***************************************************************************)
EXTENDS Serial, TLAPS

HostR == INSTANCE QueueProofs WITH
  Producers <- {Writer}, Consumers <- {Vcpu}, Byte <- Char,
  queue <- host_queue, call <- host_call

GuestR == INSTANCE QueueProofs WITH
  Producers <- {Vcpu}, Consumers <- {Reader}, Byte <- Char,
  queue <- guest_queue, call <- guest_call

USE SerialAssumption

LEMMA HostAssumptions == HostR!QueueAssumption /\ HostR!OneThreadPerEnd
BY DEF HostR!QueueAssumption, HostR!OneThreadPerEnd, Char

LEMMA GuestAssumptions == GuestR!QueueAssumption /\ GuestR!OneThreadPerEnd
BY DEF GuestR!QueueAssumption, GuestR!OneThreadPerEnd, Char


\* QueueProofs extends Queue: the same operators, under another name.
LEMMA HostSame ==
  /\ HostQ!Init => HostR!Init
  /\ HostQ!Next => HostR!Next
<1>1. HostQ!Init => HostR!Init
  BY DEF HostQ!Init, HostR!Init,
     HostQ!NewQueue, HostR!NewQueue,
     HostQ!Index, HostR!Index,
     HostQ!NoCall, HostR!NoCall,
     HostQ!Threads, HostR!Threads
<1>2. HostQ!Next => HostR!Next
  BY DEF HostQ!Next, HostR!Next,
     HostQ!WriteStep, HostR!WriteStep,
     HostQ!ReadStep, HostR!ReadStep,
     HostQ!WriteCall, HostR!WriteCall,
     HostQ!ReadCall, HostR!ReadCall,
     HostQ!EmptyCall, HostR!EmptyCall,
     HostQ!LoadFront, HostR!LoadFront,
     HostQ!LoadRear, HostR!LoadRear,
     HostQ!Lock, HostR!Lock,
     HostQ!PutByte, HostR!PutByte,
     HostQ!TakeByte, HostR!TakeByte,
     HostQ!WriteEnd, HostR!WriteEnd,
     HostQ!ReadEnd, HostR!ReadEnd,
     HostQ!Goto, HostR!Goto,
     HostQ!Leave, HostR!Leave,
     HostQ!NextIndex, HostR!NextIndex,
     HostQ!Threads, HostR!Threads
<1> QED BY <1>1, <1>2

\* QueueProofs extends Queue: the same operators, under another name.
LEMMA GuestSame ==
  /\ GuestQ!Init => GuestR!Init
  /\ GuestQ!Next => GuestR!Next
<1>1. GuestQ!Init => GuestR!Init
  BY DEF GuestQ!Init, GuestR!Init,
     GuestQ!NewQueue, GuestR!NewQueue,
     GuestQ!Index, GuestR!Index,
     GuestQ!NoCall, GuestR!NoCall,
     GuestQ!Threads, GuestR!Threads
<1>2. GuestQ!Next => GuestR!Next
  BY DEF GuestQ!Next, GuestR!Next,
     GuestQ!WriteStep, GuestR!WriteStep,
     GuestQ!ReadStep, GuestR!ReadStep,
     GuestQ!WriteCall, GuestR!WriteCall,
     GuestQ!ReadCall, GuestR!ReadCall,
     GuestQ!EmptyCall, GuestR!EmptyCall,
     GuestQ!LoadFront, GuestR!LoadFront,
     GuestQ!LoadRear, GuestR!LoadRear,
     GuestQ!Lock, GuestR!Lock,
     GuestQ!PutByte, GuestR!PutByte,
     GuestQ!TakeByte, GuestR!TakeByte,
     GuestQ!WriteEnd, GuestR!WriteEnd,
     GuestQ!ReadEnd, GuestR!ReadEnd,
     GuestQ!Goto, GuestR!Goto,
     GuestQ!Leave, GuestR!Leave,
     GuestQ!NextIndex, GuestR!NextIndex,
     GuestQ!Threads, GuestR!Threads
<1> QED BY <1>1, <1>2
-----------------------------------------------------------------------------
LEMMA HostStep == [Next]_vars => [HostQ!Next]_(HostQ!vars)
<1> SUFFICES ASSUME [Next]_vars
             PROVE  HostQ!Next \/ UNCHANGED hostVars
  BY DEF hostVars, HostQ!vars
<1>1. CASE SendPoll \/ ReceivePoll
  BY <1>1 DEF SendPoll, ReceivePoll, ReadStatus, HostQ!Next
<1>2. CASE SendStatus \/ SendDone \/ ReceiveDone \/ InGuestQueue
  BY <1>2 DEF SendStatus, SendDone, ReceiveDone, InGuestQueue
<1>3. CASE ReceiveStatus
  BY <1>3 DEF ReceiveStatus, HostQ!Next
<1>4. CASE InHostQueue
  BY <1>4 DEF InHostQueue, HostQ!Next
<1>5. CASE TypeLine
  BY <1>5 DEF TypeLine, HostQ!Next
<1>6. CASE InWrite
  BY <1>6 DEF InWrite, HostQ!Next, HostQ!WriteStep, Char
<1>7. CASE ReadChar \/ InRead
  BY <1>7 DEF ReadChar, InRead
<1>8. CASE UNCHANGED vars
  BY <1>8 DEF vars, hostVars
<1> QED BY <1>1, <1>2, <1>3, <1>4, <1>5, <1>6, <1>7, <1>8 DEF Next, VcpuStep

LEMMA HostSpec == Spec => HostR!Spec
<1>1. Init => HostR!Init
  BY HostSame DEF Init
<1>2. [Next]_vars => [HostR!Next]_(HostR!vars)
  BY HostStep, HostSame DEF HostQ!vars, HostR!vars
<1> QED BY <1>1, <1>2, PTL DEF Spec, HostR!Spec

(***************************************************************************)
(* host_queue is a first-in first-out channel from worker0 to the guest,   *)
(* whatever the threads' interleaving and for any internal_buffer_size:    *)
(* serial_write and serial_inb keep queue.c's contract (one thread per     *)
(* end, calls within bounds).                                              *)
(***************************************************************************)
THEOREM HostQueueIsFifo == Spec => HostR!FifoSpec
<1>1. HostR!Spec => HostR!FifoSpec
  BY HostAssumptions, HostR!QueueIsFifo
<1> QED BY <1>1, HostSpec, PTL

LEMMA GuestStep ==
  ASSUME guest.char \in Char, [Next]_vars
  PROVE  [GuestQ!Next]_(GuestQ!vars)
<1> SUFFICES GuestQ!Next \/ UNCHANGED guestVars
  BY DEF guestVars, GuestQ!vars
<1>1. CASE SendPoll \/ ReceivePoll
  BY <1>1 DEF SendPoll, ReceivePoll, ReadStatus
<1>2. CASE SendDone \/ ReceiveStatus \/ ReceiveDone \/ InHostQueue
  BY <1>2 DEF SendDone, ReceiveStatus, ReceiveDone, InHostQueue
<1>3. CASE SendStatus
  BY <1>3 DEF SendStatus, GuestQ!Next
<1>4. CASE InGuestQueue
  BY <1>4 DEF InGuestQueue, GuestQ!Next, GuestQ!WriteStep
<1>5. CASE TypeLine \/ InWrite
  BY <1>5 DEF TypeLine, InWrite
<1>6. CASE ReadChar
  BY <1>6 DEF ReadChar, GuestQ!Next
<1>7. CASE InRead
  BY <1>7 DEF InRead, GuestQ!Next
<1>8. CASE UNCHANGED vars
  BY <1>8 DEF vars, guestVars
<1> QED BY <1>1, <1>2, <1>3, <1>4, <1>5, <1>6, <1>7, <1>8 DEF Next, VcpuStep
-----------------------------------------------------------------------------
(***************************************************************************)
(* What serial_inb answers, and so what the guest sends, is a character.   *)
(***************************************************************************)
GuestT == [at : GuestAt, char : Char, text : Seq(Char)]

\* Once the guest's read of the data register has a byte, it is a character.
ReadData ==
  LET h == host_call[Vcpu] IN
  guest.at = "rx_data" =>
    /\ h.at # "idle" => h.op = "read"
    /\ h.at = "end" \/ (h.at = "idle" /\ h.ret = 1) => h.byte \in Char

GuestInv == guest \in GuestT /\ ReadData

LEMMA HostOpsSame ==
  /\ HostQ!ReadStep(Vcpu) => HostR!ReadStep(Vcpu)
  /\ HostQ!EmptyCall(Vcpu) => HostR!EmptyCall(Vcpu)
  /\ HostQ!ReadCall(Vcpu, 1) => HostR!ReadCall(Vcpu, 1)
BY DEF HostQ!ReadStep, HostR!ReadStep,
     HostQ!EmptyCall, HostR!EmptyCall,
     HostQ!ReadCall, HostR!ReadCall,
     HostQ!LoadFront, HostR!LoadFront,
     HostQ!LoadRear, HostR!LoadRear,
     HostQ!Lock, HostR!Lock,
     HostQ!TakeByte, HostR!TakeByte,
     HostQ!ReadEnd, HostR!ReadEnd,
     HostQ!Goto, HostR!Goto,
     HostQ!Leave, HostR!Leave,
     HostQ!NextIndex, HostR!NextIndex

LEMMA BeginType ==
  ASSUME NEW text \in Seq(Char)
  PROVE  Begin(text) \in GuestT /\ Begin(text).at # "rx_data"
<1>1. CASE text = <<>>
  BY <1>1 DEF Begin, GuestT, GuestAt, Char
<1>2. CASE text # <<>>
  <2>1. Head(text) \in Char /\ Tail(text) \in Seq(Char)
    BY <1>2
  <2> QED BY <1>2, <2>1 DEF Begin, GuestT, GuestAt
<1> QED BY <1>1, <1>2

LEMMA InitGuest == Init => GuestInv
<1> SUFFICES ASSUME Init PROVE GuestInv
  OBVIOUS
<1>1. Text \in Seq(Char)
  BY DEF Char
<1>2. guest = Begin(Text)
  BY DEF Init
<1> QED BY <1>1, <1>2, BeginType DEF GuestInv, ReadData

\* The guest goes on without leaving the data register.
LEMMA OtherAt ==
  ASSUME GuestInv, NEW at \in GuestAt \ {"rx_data"},
         guest' = [guest EXCEPT !.at = at]
  PROVE  GuestInv'
BY DEF GuestInv, ReadData, GuestT

LEMMA TypistApart ==
  ASSUME HostR!TypeOK, TypeLine \/ InWrite
  PROVE  host_call'[Vcpu] = host_call[Vcpu]
<1>1. Writer \in HostR!Threads /\ Vcpu \in HostR!Threads /\ Vcpu # Writer
  BY DEF HostR!Threads
<1>2. host_call \in [HostR!Threads -> HostR!CallT]
  BY DEF HostR!TypeOK
<1>3. \E r : host_call' = [host_call EXCEPT ![Writer] = r]
  BY DEF TypeLine, InWrite, HostQ!WriteCall, HostQ!Leave, HostQ!Goto,
         HostQ!Lock, HostQ!PutByte, HostQ!WriteEnd
<1> QED BY <1>1, <1>2, <1>3

LEMMA ReadStatusGuest ==
  ASSUME HostR!TypeOK, GuestInv, ReceiveStatus
  PROVE  GuestInv'
<1>1. CASE guest' = [guest EXCEPT !.at = "rx_poll"]
  BY <1>1, OtherAt DEF GuestAt
<1>2. CASE HostQ!ReadCall(Vcpu, 1) /\ guest' = [guest EXCEPT !.at = "rx_data"]
  <2>1. HostR!ReadCall(Vcpu, 1)
    BY <1>2, HostOpsSame
  <2>2. \E at \in {"lock", "front"} : HostR!Goto(Vcpu, "read", at, 1)
    BY <2>1 DEF HostR!ReadCall
  <2>3. host_call'[Vcpu].op = "read" /\ host_call'[Vcpu].at \in {"lock", "front"}
    BY <2>2, HostAssumptions, HostR!GotoEffect
       DEF HostR!Op, HostR!Point, HostR!Threads
  <2>4. guest' \in GuestT
    BY <1>2 DEF GuestInv, GuestT, GuestAt
  <2> QED BY <2>3, <2>4 DEF GuestInv, ReadData
<1> QED BY <1>1, <1>2 DEF ReceiveStatus

LEMMA ReadStepGuest ==
  ASSUME HostR!TypeOK, HostR!ControlOK, GuestInv, InHostQueue
  PROVE  GuestInv'
<1> DEFINE h == host_call[Vcpu]
<1>1. guest' = guest /\ HostR!ReadStep(Vcpu) /\ Vcpu \in HostR!Threads
  BY HostOpsSame DEF InHostQueue, HostR!Threads
<1>2. h.at # "idle"
  BY <1>1 DEF HostR!ReadStep, HostR!LoadFront, HostR!LoadRear, HostR!Lock,
              HostR!TakeByte, HostR!ReadEnd
<1> SUFFICES ASSUME guest.at = "rx_data"
             PROVE  /\ h'.at # "idle" => h'.op = "read"
                    /\ h'.at = "end" \/ (h'.at = "idle" /\ h'.ret = 1)
                         => h'.byte \in Char
  BY <1>1 DEF GuestInv, ReadData
<1>3. h.op = "read" /\ (h.at = "end" => h.byte \in Char)
  BY <1>2 DEF GuestInv, ReadData
<1>4. CASE HostR!LoadFront(Vcpu)
  BY <1>1, <1>3, <1>4, HostAssumptions, HostR!LoadFrontEffect
<1>5. CASE HostR!LoadRear(Vcpu)
  <2>1. CASE HostR!Leave(Vcpu, "read", 0)
    BY <1>1, <2>1, HostAssumptions, HostR!LeaveEffect DEF HostR!Op
  <2>2. CASE HostR!Goto(Vcpu, "read", "lock", h.size)
    <3>1. h.size \in 0..MaxCall
      BY <1>1 DEF HostR!TypeOK, HostR!CallT
    <3> QED BY <1>1, <2>2, <3>1, HostAssumptions, HostR!GotoEffect
            DEF HostR!Op, HostR!Point
  <2> QED BY <1>3, <1>5, <2>1, <2>2 DEF HostR!LoadRear
<1>6. CASE HostR!Lock(Vcpu)
  BY <1>1, <1>3, <1>6, HostAssumptions, HostR!LockEffect
<1>7. CASE HostR!TakeByte(Vcpu)
  <2>1. host_call'[Vcpu].op = h.op
        /\ host_call'[Vcpu].byte = host_queue.buffer[host_queue.front]
        /\ host_call'[Vcpu].at \in {"loop", "end"}
    BY <1>7, HostAssumptions, HostR!TakeByteEffect
  <2>2. host_queue.buffer[host_queue.front] \in Char
    BY DEF HostR!TypeOK, HostR!QueueT
  <2> QED BY <1>3, <2>1, <2>2
<1>8. CASE HostR!ReadEnd(Vcpu)
  <2>1. h.at = "end" /\ HostR!Leave(Vcpu, "read", h.i) /\ h.i \in 0..MaxCall
    BY <1>1, <1>8 DEF HostR!ReadEnd, HostR!TypeOK, HostR!CallT
  <2> QED BY <1>1, <1>3, <2>1, HostAssumptions, HostR!LeaveEffect DEF HostR!Op
<1> QED BY <1>1, <1>4, <1>5, <1>6, <1>7, <1>8 DEF HostR!ReadStep

LEMMA StepGuest ==
  ASSUME HostR!TypeOK, HostR!ControlOK, GuestInv, [Next]_vars
  PROVE  GuestInv'
<1>1. CASE SendPoll \/ ReceivePoll
  <2>1. \E at \in GuestAt \ {"rx_data"} : guest' = [guest EXCEPT !.at = at]
    BY <1>1 DEF SendPoll, ReceivePoll, ReadStatus, GuestAt
  <2> QED BY <2>1, OtherAt
<1>2. CASE SendStatus
  <2>1. \E at \in GuestAt \ {"rx_data"} : guest' = [guest EXCEPT !.at = at]
    BY <1>2 DEF SendStatus, GuestAt
  <2> QED BY <2>1, OtherAt
<1>3. CASE SendDone
  <2>1. guest' = Begin(guest.text) /\ guest.text \in Seq(Char)
    BY <1>3 DEF SendDone, GuestInv, GuestT
  <2> QED BY <2>1, BeginType DEF GuestInv, ReadData
<1>4. CASE ReceiveStatus
  BY <1>4, ReadStatusGuest
<1>5. CASE ReceiveDone
  <2>1. Received \in Char
    BY <1>5 DEF ReceiveDone, HostIdle, Received, GuestInv, ReadData, Char
  <2> QED BY <1>5, <2>1 DEF ReceiveDone, GuestInv, GuestT, GuestAt, ReadData
<1>6. CASE InHostQueue
  BY <1>6, ReadStepGuest
<1>7. CASE InGuestQueue \/ ReadChar \/ InRead
  BY <1>7 DEF InGuestQueue, ReadChar, InRead, hostVars, GuestInv, ReadData
<1>8. CASE TypeLine \/ InWrite
  BY <1>8, TypistApart DEF TypeLine, InWrite, GuestInv, ReadData
<1>9. CASE UNCHANGED vars
  BY <1>9 DEF vars, GuestInv, ReadData
<1> QED BY <1>1, <1>2, <1>3, <1>4, <1>5, <1>6, <1>7, <1>8, <1>9
        DEF Next, VcpuStep

LEMMA GuestCorrect == Spec => []GuestInv
<1>1. Spec => []HostR!IndInv
  <2>1. HostR!Spec => []HostR!IndInv
    BY HostAssumptions, HostR!RingInvariant
  <2> QED BY <2>1, HostSpec, PTL
<1>2. Init => GuestInv
  BY InitGuest
<1>3. HostR!IndInv /\ GuestInv /\ [Next]_vars => GuestInv'
  BY StepGuest DEF HostR!IndInv
<1> QED BY <1>1, <1>2, <1>3, PTL DEF Spec

LEMMA GuestSpec == Spec => GuestR!Spec
<1>1. Spec => []GuestInv
  BY GuestCorrect
<1>2. Init => GuestR!Init
  BY GuestSame DEF Init
<1>3. GuestInv /\ [Next]_vars => [GuestR!Next]_(GuestR!vars)
  BY GuestStep, GuestSame DEF GuestQ!vars, GuestR!vars, GuestInv, GuestT
<1> QED BY <1>1, <1>2, <1>3, PTL DEF Spec, GuestR!Spec

(***************************************************************************)
(* guest_queue is a first-in first-out channel from the guest to worker1:  *)
(* serial_outb and serial_read keep queue.c's contract as well.            *)
(***************************************************************************)
THEOREM GuestQueueIsFifo == Spec => GuestR!FifoSpec
<1>1. GuestR!Spec => GuestR!FifoSpec
  BY GuestAssumptions, GuestR!QueueIsFifo
<1> QED BY <1>1, GuestSpec, PTL

(***************************************************************************)
(* The types of both queues and of the guest program; with it, that the    *)
(* guest never holds anything but a character: serial_inb answers with a   *)
(* byte queue_read stored, or with 0.                                      *)
(***************************************************************************)
THEOREM SerialTypeCorrect == Spec => []TypeOK
<1>1. Spec => []HostR!TypeOK
  <2>1. HostR!Spec => []HostR!TypeOK
    BY HostAssumptions, HostR!TypeCorrect
  <2> QED BY <2>1, HostSpec, PTL
<1>2. Spec => []GuestR!TypeOK
  <2>1. GuestR!Spec => []GuestR!TypeOK
    BY GuestAssumptions, GuestR!TypeCorrect
  <2> QED BY <2>1, GuestSpec, PTL
<1>3. HostR!TypeOK => HostQ!TypeOK
  BY DEF HostR!TypeOK, HostQ!TypeOK, HostR!QueueT, HostQ!QueueT, HostR!CallT,
     HostQ!CallT, HostR!Threads, HostQ!Threads, HostR!Index, HostQ!Index,
     HostR!Op, HostQ!Op, HostR!Point, HostQ!Point
<1>4. GuestR!TypeOK => GuestQ!TypeOK
  BY DEF GuestR!TypeOK, GuestQ!TypeOK, GuestR!QueueT, GuestQ!QueueT,
     GuestR!CallT, GuestQ!CallT, GuestR!Threads, GuestQ!Threads, GuestR!Index,
     GuestQ!Index, GuestR!Op, GuestQ!Op, GuestR!Point, GuestQ!Point
<1>5. HostQ!TypeOK /\ GuestQ!TypeOK /\ GuestInv => TypeOK
  BY DEF TypeOK, GuestInv, GuestT
<1> QED BY <1>1, <1>2, <1>3, <1>4, <1>5, GuestCorrect, PTL
-----------------------------------------------------------------------------
(***************************************************************************)
(* Serial implements EchoPipe.  First what the two queues do for the       *)
(* threads that use them, then the vCPU thread's view of its calls, then   *)
(* the steps.                                                              *)
(***************************************************************************)
LEMMA HostCallsSame ==
  /\ HostQ!Contents = HostR!Contents
  /\ HostQ!LoadFront(Vcpu) <=> HostR!LoadFront(Vcpu)
  /\ HostQ!LoadRear(Vcpu) <=> HostR!LoadRear(Vcpu)
  /\ HostQ!Lock(Vcpu) <=> HostR!Lock(Vcpu)
  /\ HostQ!TakeByte(Vcpu) <=> HostR!TakeByte(Vcpu)
  /\ HostQ!ReadEnd(Vcpu) <=> HostR!ReadEnd(Vcpu)
  /\ HostQ!Lock(Writer) <=> HostR!Lock(Writer)
  /\ HostQ!WriteEnd(Writer) <=> HostR!WriteEnd(Writer)
  /\ \A n \in 0..MaxCall : HostQ!WriteCall(Writer, n) <=> HostR!WriteCall(Writer, n)
  /\ \A b \in Char : HostQ!PutByte(Writer, b) <=> HostR!PutByte(Writer, b)
<1>1. HostQ!Contents = HostR!Contents
  BY DEF HostQ!Contents, HostR!Contents, HostQ!Slot, HostR!Slot, HostQ!Used,
         HostR!Used, HostQ!Closed, HostR!Closed, HostQ!Moved, HostR!Moved
<1>2. /\ HostQ!LoadFront(Vcpu) <=> HostR!LoadFront(Vcpu)
      /\ HostQ!LoadRear(Vcpu) <=> HostR!LoadRear(Vcpu)
      /\ HostQ!Lock(Vcpu) <=> HostR!Lock(Vcpu)
      /\ HostQ!TakeByte(Vcpu) <=> HostR!TakeByte(Vcpu)
      /\ HostQ!ReadEnd(Vcpu) <=> HostR!ReadEnd(Vcpu)
  BY DEF HostQ!LoadFront, HostR!LoadFront, HostQ!LoadRear, HostR!LoadRear,
         HostQ!Lock, HostR!Lock, HostQ!TakeByte, HostR!TakeByte,
         HostQ!ReadEnd, HostR!ReadEnd, HostQ!Goto, HostR!Goto,
         HostQ!Leave, HostR!Leave, HostQ!NextIndex, HostR!NextIndex
<1>3. /\ HostQ!Lock(Writer) <=> HostR!Lock(Writer)
      /\ HostQ!WriteEnd(Writer) <=> HostR!WriteEnd(Writer)
      /\ \A n \in 0..MaxCall : HostQ!WriteCall(Writer, n) <=> HostR!WriteCall(Writer, n)
      /\ \A b \in Char : HostQ!PutByte(Writer, b) <=> HostR!PutByte(Writer, b)
  BY DEF HostQ!Lock, HostR!Lock, HostQ!WriteEnd, HostR!WriteEnd,
         HostQ!WriteCall, HostR!WriteCall, HostQ!PutByte, HostR!PutByte,
         HostQ!Goto, HostR!Goto, HostQ!Leave, HostR!Leave,
         HostQ!NextIndex, HostR!NextIndex
<1> QED BY <1>1, <1>2, <1>3

LEMMA GuestCallsSame ==
  /\ GuestQ!Contents = GuestR!Contents
  /\ GuestQ!FullCount <=> GuestR!FullCount
  /\ GuestQ!LoadFront(Reader) <=> GuestR!LoadFront(Reader)
  /\ GuestQ!LoadRear(Reader) <=> GuestR!LoadRear(Reader)
  /\ GuestQ!Lock(Reader) <=> GuestR!Lock(Reader)
  /\ GuestQ!TakeByte(Reader) <=> GuestR!TakeByte(Reader)
  /\ GuestQ!ReadEnd(Reader) <=> GuestR!ReadEnd(Reader)
  /\ GuestQ!ReadCall(Reader, 1) <=> GuestR!ReadCall(Reader, 1)
  /\ GuestQ!Lock(Vcpu) <=> GuestR!Lock(Vcpu)
  /\ GuestQ!WriteEnd(Vcpu) <=> GuestR!WriteEnd(Vcpu)
  /\ GuestQ!WriteCall(Vcpu, 1) <=> GuestR!WriteCall(Vcpu, 1)
  /\ GuestQ!PutByte(Vcpu, guest.char) <=> GuestR!PutByte(Vcpu, guest.char)
<1>1. /\ GuestQ!Contents = GuestR!Contents
      /\ GuestQ!FullCount <=> GuestR!FullCount
  BY DEF GuestQ!Contents, GuestR!Contents, GuestQ!Slot, GuestR!Slot,
         GuestQ!Used, GuestR!Used, GuestQ!Closed, GuestR!Closed,
         GuestQ!Moved, GuestR!Moved, GuestQ!FullCount, GuestR!FullCount
<1>2. /\ GuestQ!LoadFront(Reader) <=> GuestR!LoadFront(Reader)
      /\ GuestQ!LoadRear(Reader) <=> GuestR!LoadRear(Reader)
      /\ GuestQ!Lock(Reader) <=> GuestR!Lock(Reader)
      /\ GuestQ!TakeByte(Reader) <=> GuestR!TakeByte(Reader)
      /\ GuestQ!ReadEnd(Reader) <=> GuestR!ReadEnd(Reader)
      /\ GuestQ!ReadCall(Reader, 1) <=> GuestR!ReadCall(Reader, 1)
  BY DEF GuestQ!LoadFront, GuestR!LoadFront, GuestQ!LoadRear, GuestR!LoadRear,
         GuestQ!Lock, GuestR!Lock, GuestQ!TakeByte, GuestR!TakeByte,
         GuestQ!ReadEnd, GuestR!ReadEnd, GuestQ!ReadCall, GuestR!ReadCall,
         GuestQ!Goto, GuestR!Goto, GuestQ!Leave, GuestR!Leave,
         GuestQ!NextIndex, GuestR!NextIndex
<1>3. /\ GuestQ!Lock(Vcpu) <=> GuestR!Lock(Vcpu)
      /\ GuestQ!WriteEnd(Vcpu) <=> GuestR!WriteEnd(Vcpu)
      /\ GuestQ!WriteCall(Vcpu, 1) <=> GuestR!WriteCall(Vcpu, 1)
      /\ GuestQ!PutByte(Vcpu, guest.char) <=> GuestR!PutByte(Vcpu, guest.char)
  BY DEF GuestQ!Lock, GuestR!Lock, GuestQ!WriteEnd, GuestR!WriteEnd,
         GuestQ!WriteCall, GuestR!WriteCall, GuestQ!PutByte, GuestR!PutByte,
         GuestQ!Goto, GuestR!Goto, GuestQ!Leave, GuestR!Leave,
         GuestQ!NextIndex, GuestR!NextIndex
<1> QED BY <1>1, <1>2, <1>3

\* What is proved of both queues and of the guest, before a step.
Hyp == HostR!StepHyp /\ GuestR!StepHyp /\ GuestInv /\ EchoInv

LEMMA BytesSame ==
  /\ HostQ!Contents = HostR!Contents /\ HostQ!Contents' = HostR!Contents'
  /\ GuestQ!Contents = GuestR!Contents /\ GuestQ!Contents' = GuestR!Contents'
<1>1. HostQ!Contents = HostR!Contents /\ GuestQ!Contents = GuestR!Contents
  BY HostCallsSame, GuestCallsSame
<1>2. (HostQ!Contents = HostR!Contents /\ GuestQ!Contents = GuestR!Contents)'
  BY <1>1, PTL
<1> QED BY <1>1, <1>2

LEMMA HostKept == hostVars' = hostVars => HostQ!Contents' = HostQ!Contents
BY DEF hostVars, HostQ!Contents, HostQ!Slot, HostQ!Used,
       HostQ!Closed, HostQ!Moved

LEMMA GuestKept == guestVars' = guestVars => GuestQ!Contents' = GuestQ!Contents
BY DEF guestVars, GuestQ!Contents, GuestQ!Slot, GuestQ!Used,
       GuestQ!Closed, GuestQ!Moved
\* serial_inb asks queue_empty.
LEMMA PollStep ==
  ASSUME Hyp, HostQ!EmptyCall(Vcpu)
  PROVE  LET h == host_call[Vcpu] IN
         /\ HostQ!Contents' = HostQ!Contents
         /\ h'.op = "empty" /\ h'.at \in {"idle", "front"}
         /\ h'.at = "idle" /\ h'.ret = 0 => HostQ!Contents' # <<>>
<1> DEFINE h == host_call[Vcpu]
<1>1. HostR!StepHyp /\ HostR!TypeOK /\ HostR!EmptyCall(Vcpu)
  BY HostOpsSame DEF Hyp, HostR!StepHyp, HostR!IndInv
<1>2. HostQ!Contents' = HostQ!Contents
  BY <1>1, BytesSame, HostAssumptions, HostR!ReaderQuiet
<1>3. HostR!Leave(Vcpu, "empty", 0) \/ HostR!Goto(Vcpu, "empty", "front", 0)
  BY <1>1 DEF HostR!EmptyCall
<1>4. h'.op = "empty" /\ h'.at \in {"idle", "front"}
  BY <1>1, <1>3, HostAssumptions, HostR!LeaveEffect, HostR!GotoEffect
     DEF HostR!Op, HostR!Point, HostR!Threads
<1>5. h'.at = "idle" /\ h'.ret = 0 => HostQ!Contents' # <<>>
  BY <1>1, <1>4, BytesSame, HostAssumptions, HostR!NotEmptyIsTrue
<1> QED BY <1>2, <1>4, <1>5

\* queue_empty goes on.
LEMMA PollingStep ==
  ASSUME Hyp, InHostQueue, guest.at # "rx_data"
  PROVE  LET h == host_call[Vcpu] IN
         /\ HostQ!Contents' = HostQ!Contents
         /\ h'.op = "empty" /\ h'.at \in {"idle", "rear"}
         /\ h'.at = "idle" /\ h'.ret = 0 => HostQ!Contents' # <<>>
<1> DEFINE h == host_call[Vcpu]
<1>1. HostR!StepHyp /\ HostR!TypeOK /\ Vcpu \in HostR!Threads
  BY DEF Hyp, HostR!StepHyp, HostR!IndInv, HostR!Threads
<1>2. h.op = "empty" /\ (HostR!LoadFront(Vcpu) \/ HostR!LoadRear(Vcpu))
  BY HostOpsSame
     DEF Hyp, EchoInv, InHostQueue, HostR!ReadStep, HostR!LoadFront,
         HostR!LoadRear, HostR!Lock, HostR!TakeByte, HostR!ReadEnd
<1>3. HostQ!Contents' = HostQ!Contents
  BY <1>1, <1>2, BytesSame, HostAssumptions, HostR!ReaderQuiet
<1>4. CASE HostR!LoadFront(Vcpu)
  BY <1>1, <1>2, <1>3, <1>4, HostAssumptions, HostR!LoadFrontEffect
<1>5. CASE HostR!LoadRear(Vcpu)
  <2>1. \E v \in {0, 1} : HostR!Leave(Vcpu, "empty", v)
    BY <1>2, <1>5 DEF HostR!LoadRear
  <2>2. \A v \in {0, 1} : v \in 0..MaxCall
    OBVIOUS
  <2>3. h'.op = "empty" /\ h'.at = "idle"
    BY <1>1, <2>1, <2>2, HostAssumptions, HostR!LeaveEffect DEF HostR!Op
  <2>4. h'.ret = 0 => HostQ!Contents' # <<>>
    BY <1>1, <1>5, <2>3, BytesSame, HostAssumptions, HostR!NotEmptyIsTrue
  <2> QED BY <1>3, <2>3, <2>4
<1> QED BY <1>2, <1>4, <1>5

\* serial_inb calls queue_read for one byte.
LEMMA ReadCallStep ==
  ASSUME Hyp, HostQ!ReadCall(Vcpu, 1)
  PROVE  LET h == host_call[Vcpu] IN
         /\ HostQ!Contents' = HostQ!Contents
         /\ h'.op = "read" /\ h'.at \in {"front", "lock"} /\ h'.size = 1
<1>1. HostR!StepHyp /\ HostR!TypeOK /\ HostR!ReadCall(Vcpu, 1)
  BY HostOpsSame DEF Hyp, HostR!StepHyp, HostR!IndInv
<1>2. HostQ!Contents' = HostQ!Contents
  <2>1. 1 \in 0..MaxCall
    OBVIOUS
  <2> QED BY <1>1, <2>1, BytesSame, HostAssumptions, HostR!ReaderQuiet
<1>3. \E at \in {"front", "lock"} : HostR!Goto(Vcpu, "read", at, 1)
  BY <1>1 DEF HostR!ReadCall
<1> QED BY <1>1, <1>2, <1>3, HostAssumptions, HostR!GotoEffect
        DEF HostR!Op, HostR!Point, HostR!Threads

\* queue_read goes on: it comes nearer to its byte, finds the ring empty,
\* takes the byte, or returns it.
Nearer(h, next) ==
  /\ h.at \notin {"idle", "end"}
  /\ next.at \notin {"idle", "end"} /\ next.op = "read" /\ next.size = 1
  /\ HostQ!Contents' = HostQ!Contents

FindsNone(h, next) ==
  /\ h.at \notin {"idle", "end"}
  /\ next.at = "idle" /\ next.ret = 0
  /\ Len(HostQ!Contents) = BufferSize /\ HostQ!Contents' = HostQ!Contents

Takes(h, next) ==
  /\ h.at \notin {"idle", "end"}
  /\ next.at = "end" /\ next.i = 1
  /\ HostQ!Contents # <<>> /\ HostQ!Contents' = Tail(HostQ!Contents)
  /\ next.byte = Head(HostQ!Contents)

Returns(h, next) ==
  /\ h.at = "end"
  /\ next.at = "idle" /\ next.ret = 1 /\ next.byte = h.byte
  /\ HostQ!Contents' = HostQ!Contents

LEMMA ReadingStep ==
  ASSUME Hyp, InHostQueue, guest.at = "rx_data"
  PROVE  LET h == host_call[Vcpu] IN
         Nearer(h, h') \/ FindsNone(h, h') \/ Takes(h, h') \/ Returns(h, h')
<1> DEFINE h == host_call[Vcpu]
<1>1. HostR!StepHyp /\ HostR!TypeOK /\ HostR!ControlOK
      /\ Vcpu \in HostR!Threads /\ HostR!ReadStep(Vcpu)
  BY HostOpsSame DEF Hyp, InHostQueue, HostR!StepHyp, HostR!IndInv, HostR!Threads
<1>2. h.at \notin {"idle", "end"} =>
        h.op = "read" /\ h.size = 1 /\ HostQ!Contents # <<>>
  BY DEF Hyp, EchoInv
<1>3. h.at = "end" => h.i = 1
  BY DEF Hyp, EchoInv
<1>4. CASE HostR!LoadFront(Vcpu)
  <2>1. HostQ!Contents' = HostQ!Contents
    BY <1>1, <1>4, BytesSame, HostAssumptions, HostR!ReaderQuiet
  <2>2. h'.op = h.op /\ h'.at = "rear" /\ h'.size = h.size /\ h.at = "front"
    BY <1>1, <1>4, HostAssumptions, HostR!LoadFrontEffect DEF HostR!LoadFront
  <2> QED BY <1>2, <2>1, <2>2 DEF Nearer
<1>5. CASE HostR!LoadRear(Vcpu)
  <2>1. HostQ!Contents' = HostQ!Contents /\ h.at = "rear"
    BY <1>1, <1>5, BytesSame, HostAssumptions, HostR!ReaderQuiet DEF HostR!LoadRear
  <2>2. CASE HostR!Leave(Vcpu, "read", 0)
    <3>1. h'.at = "idle" /\ h'.ret = 0
      BY <1>1, <2>2, HostAssumptions, HostR!LeaveEffect DEF HostR!Op
    <3>2. Len(HostQ!Contents) = BufferSize
      BY <1>1, <1>2, <1>5, <2>1, <3>1, BytesSame, HostAssumptions,
         HostR!EmptyReadIsOfFull
    <3> QED BY <2>1, <3>1, <3>2 DEF FindsNone
  <2>3. CASE HostR!Goto(Vcpu, "read", "lock", h.size)
    <3>1. h.size = 1 /\ 1 \in 0..MaxCall
      BY <1>2, <2>1
    <3>2. h'.op = "read" /\ h'.at = "lock" /\ h'.size = 1
      BY <1>1, <2>3, <3>1, HostAssumptions, HostR!GotoEffect
         DEF HostR!Op, HostR!Point
    <3> QED BY <2>1, <3>2 DEF Nearer
  <2> QED BY <1>2, <1>5, <2>1, <2>2, <2>3 DEF HostR!LoadRear
<1>6. CASE HostR!Lock(Vcpu)
  <2>1. HostQ!Contents' = HostQ!Contents
    BY <1>1, <1>6, BytesSame, HostAssumptions, HostR!ReaderQuiet
  <2>2. h'.op = h.op /\ h'.at = "loop" /\ h'.size = h.size /\ h.at = "lock"
    BY <1>1, <1>6, HostAssumptions, HostR!LockEffect DEF HostR!Lock
  <2> QED BY <1>2, <2>1, <2>2 DEF Nearer
<1>7. CASE HostR!TakeByte(Vcpu)
  <2>1. /\ HostQ!Contents # <<>> /\ HostQ!Contents' = Tail(HostQ!Contents)
        /\ h'.byte = Head(HostQ!Contents)
    BY <1>1, <1>7, BytesSame, HostAssumptions, HostR!ReaderTakes
  <2>2. h.at = "loop" /\ h.size = 1 /\ h.i = 0
    <3>1. h.at = "loop" /\ h.size = 1
      BY <1>2, <1>7 DEF HostR!TakeByte
    <3>2. h.i \in 0..MaxCall /\ h.i < h.size
      BY <1>1, <3>1 DEF HostR!ControlOK, HostR!TypeOK, HostR!CallT
    <3> QED BY <3>1, <3>2
  <2>3. h'.i = 1 /\ h'.at = "end"
    <3>1. ~(h.i + 1 < h.size) /\ h.i + 1 = 1
      BY <2>2
    <3> QED BY <1>1, <1>7, <3>1, HostAssumptions, HostR!TakeByteEffect, Zenon
  <2> QED BY <2>1, <2>2, <2>3 DEF Takes
<1>8. CASE HostR!ReadEnd(Vcpu)
  <2>1. HostQ!Contents' = HostQ!Contents
    BY <1>1, <1>8, BytesSame, HostAssumptions, HostR!ReaderEnds
  <2>2. h.at = "end" /\ HostR!Leave(Vcpu, "read", 1) /\ 1 \in 0..MaxCall
    BY <1>3, <1>8 DEF HostR!ReadEnd
  <2>3. h'.at = "idle" /\ h'.ret = 1 /\ h'.byte = h.byte
    BY <1>1, <2>2, HostAssumptions, HostR!LeaveEffect DEF HostR!Op
  <2> QED BY <2>1, <2>2, <2>3 DEF Returns
<1> QED BY <1>1, <1>4, <1>5, <1>6, <1>7, <1>8 DEF HostR!ReadStep
\* serial_outb calls queue_write for one byte.
LEMMA WriteCallStep ==
  ASSUME Hyp, GuestQ!WriteCall(Vcpu, 1)
  PROVE  LET g == guest_call[Vcpu] IN
         /\ GuestQ!Contents' = GuestQ!Contents
         /\ guest_call'[Reader] = guest_call[Reader]
         /\ \/ g'.at = "idle" /\ guest_queue.is_full = 1
            \/ g'.at = "lock" /\ g'.op = "write" /\ g'.size = 1
<1>1. GuestR!StepHyp /\ GuestR!TypeOK /\ GuestR!WriteCall(Vcpu, 1)
      /\ Vcpu \in GuestR!Threads /\ Reader \in GuestR!Threads
  BY GuestCallsSame DEF Hyp, GuestR!StepHyp, GuestR!IndInv, GuestR!Threads
<1>2. GuestR!Contents' = GuestR!Contents /\ GuestR!Others(Vcpu)
  <2>1. 1 \in 0..MaxCall
    OBVIOUS
  <2> QED BY <1>1, <2>1, GuestAssumptions, GuestR!WriterQuiet
<1>3. CASE guest_queue.is_full = 1 /\ GuestR!Leave(Vcpu, "write", 0)
  <2>1. guest_call'[Vcpu].at = "idle"
    BY <1>1, <1>3, GuestAssumptions, GuestR!LeaveEffect DEF GuestR!Op
  <2> QED BY <1>1, <1>2, <1>3, <2>1, BytesSame DEF GuestR!Others
<1>4. CASE GuestR!Goto(Vcpu, "write", "lock", 1)
  <2>1. /\ guest_call'[Vcpu].at = "lock" /\ guest_call'[Vcpu].op = "write"
        /\ guest_call'[Vcpu].size = 1
    BY <1>1, <1>4, GuestAssumptions, GuestR!GotoEffect
       DEF GuestR!Op, GuestR!Point
  <2> QED BY <1>1, <1>2, <2>1, BytesSame DEF GuestR!Others
<1> QED BY <1>1, <1>3, <1>4 DEF GuestR!WriteCall

\* queue_write goes on: it locks, stores the byte, or returns.
Locks(g, next) ==
  /\ g.at = "lock" /\ next.at = "loop"
  /\ GuestQ!Contents' = GuestQ!Contents

Stores(g, next) ==
  /\ g.at = "loop" /\ next.at = "end"
  /\ Len(GuestQ!Contents) < BufferSize
  /\ GuestQ!Contents' = Append(GuestQ!Contents, guest.char)

Unlocks(g, next) ==
  /\ g.at = "end" /\ next.at = "idle"
  /\ GuestQ!Contents' = GuestQ!Contents

LEMMA SendingStep ==
  ASSUME Hyp, InGuestQueue
  PROVE  LET g == guest_call[Vcpu] IN
         /\ guest.at = "tx_data"
         /\ guest_call'[Reader] = guest_call[Reader]
         /\ Locks(g, g') \/ Stores(g, g') \/ Unlocks(g, g')
         /\ g'.at # "idle" => g'.op = "write" /\ g'.size = 1
<1> DEFINE g == guest_call[Vcpu]
<1>1. /\ GuestR!StepHyp /\ GuestR!TypeOK /\ GuestR!ControlOK
      /\ Vcpu \in GuestR!Threads /\ Reader \in GuestR!Threads
      /\ guest.char \in Char
  BY DEF Hyp, GuestR!StepHyp, GuestR!IndInv, GuestR!Threads, GuestInv, GuestT
<1>2. g.at # "idle" => guest.at = "tx_data" /\ g.op = "write" /\ g.size = 1
  BY DEF Hyp, EchoInv
<1>3. CASE GuestR!Lock(Vcpu)
  <2>1. GuestR!Contents' = GuestR!Contents /\ GuestR!Others(Vcpu)
    BY <1>1, <1>3, GuestAssumptions, GuestR!WriterQuiet
  <2>2. g.at = "lock" /\ g'.at = "loop" /\ g'.op = g.op /\ g'.size = g.size
    BY <1>1, <1>3, GuestAssumptions, GuestR!LockEffect DEF GuestR!Lock
  <2> QED BY <1>1, <1>2, <2>1, <2>2, BytesSame DEF GuestR!Others, Locks
<1>4. CASE GuestR!PutByte(Vcpu, guest.char)
  <2>1. /\ Len(GuestR!Contents) < BufferSize
        /\ GuestR!Contents' = Append(GuestR!Contents, guest.char)
        /\ GuestR!Others(Vcpu)
    BY <1>1, <1>4, GuestAssumptions, GuestR!WriterPuts
  <2>2. g.at = "loop" /\ g.size = 1 /\ g.op = "write"
    BY <1>2, <1>4 DEF GuestR!PutByte
  <2>3. ~(g.i + 1 < g.size)
    <3>1. g.i \in 0..MaxCall
      BY <1>1 DEF GuestR!TypeOK, GuestR!CallT
    <3> QED BY <2>2, <3>1
  <2>4. g'.at = "end" /\ g'.op = g.op /\ g'.size = g.size
    BY <1>1, <1>4, <2>3, GuestAssumptions, GuestR!PutByteEffect, Zenon
  <2> QED BY <1>1, <1>2, <2>1, <2>2, <2>4, BytesSame DEF GuestR!Others, Stores
<1>5. CASE GuestR!WriteEnd(Vcpu)
  <2>1. GuestR!Contents' = GuestR!Contents /\ GuestR!Others(Vcpu)
    BY <1>1, <1>5, GuestAssumptions, GuestR!WriterQuiet
  <2>2. g.at = "end" /\ GuestR!Leave(Vcpu, "write", g.i) /\ g.i \in 0..MaxCall
    BY <1>1, <1>5 DEF GuestR!WriteEnd, GuestR!TypeOK, GuestR!CallT
  <2>3. g'.at = "idle"
    BY <1>1, <2>2, GuestAssumptions, GuestR!LeaveEffect DEF GuestR!Op
  <2> QED BY <1>1, <1>2, <2>1, <2>2, <2>3, BytesSame DEF GuestR!Others, Unlocks
<1> QED BY <1>3, <1>4, <1>5, GuestCallsSame DEF InGuestQueue

\* worker1's reads: they take the head of guest_queue, end, or do neither.
LEMMA HostReadsStep ==
  ASSUME Hyp, ReadChar \/ InRead
  PROVE  LET taken == guest_call[Reader].i IN
         /\ guest_call'[Vcpu] = guest_call[Vcpu]
         /\ \/ GuestQ!Contents' = GuestQ!Contents /\ taken' = taken
            \/ GuestQ!Contents' = GuestQ!Contents /\ taken' = 0
            \/ /\ GuestQ!Contents # <<>>
               /\ GuestQ!Contents' = Tail(GuestQ!Contents)
               /\ taken' = taken + 1
<1>1. GuestR!StepHyp /\ Vcpu \in GuestR!Threads /\ Reader \in GuestR!Threads
  BY DEF Hyp, GuestR!Threads
<1>2. CASE \/ GuestR!LoadFront(Reader) \/ GuestR!LoadRear(Reader)
           \/ GuestR!Lock(Reader) \/ GuestR!ReadCall(Reader, 1)
  <2>1. 1 \in 0..MaxCall
    OBVIOUS
  <2>2. /\ GuestR!Contents' = GuestR!Contents /\ GuestR!Others(Reader)
        /\ guest_call[Reader].i = 0 /\ guest_call'[Reader].i = 0
    BY <1>1, <1>2, <2>1, GuestAssumptions, GuestR!ReaderQuiet
  <2> QED BY <1>1, <2>2, BytesSame DEF GuestR!Others
<1>3. CASE GuestR!TakeByte(Reader)
  BY <1>1, <1>3, BytesSame, GuestAssumptions, GuestR!ReaderTakes
     DEF GuestR!Others
<1>4. CASE GuestR!ReadEnd(Reader)
  BY <1>1, <1>4, BytesSame, GuestAssumptions, GuestR!ReaderEnds
     DEF GuestR!Others
<1> QED BY <1>2, <1>3, <1>4, GuestCallsSame DEF ReadChar, InRead, GuestQ!ReadStep

\* worker0's writes: they append what was typed, or do nothing.
LEMMA TypistStep ==
  ASSUME Hyp, TypeLine \/ InWrite
  PROVE  /\ host_call'[Vcpu] = host_call[Vcpu]
         /\ \/ HostQ!Contents' = HostQ!Contents
            \/ \E b \in Byte : /\ Len(HostQ!Contents) < BufferSize
                              /\ HostQ!Contents' = Append(HostQ!Contents, b)
<1>1. HostR!StepHyp /\ HostR!TypeOK
  BY DEF Hyp, HostR!StepHyp, HostR!IndInv
<1>2. host_call'[Vcpu] = host_call[Vcpu]
  BY <1>1, TypistApart
<1>3. CASE \/ HostR!Lock(Writer) \/ HostR!WriteEnd(Writer)
           \/ \E n \in 0..MaxCall : HostR!WriteCall(Writer, n)
  BY <1>1, <1>2, <1>3, BytesSame, HostAssumptions, HostR!WriterQuiet
<1>4. ASSUME NEW b \in Byte, HostR!PutByte(Writer, b)
      PROVE  /\ Len(HostQ!Contents) < BufferSize
             /\ HostQ!Contents' = Append(HostQ!Contents, b)
  <2>1. b \in Char
    BY DEF Char
  <2> QED BY <1>1, <1>4, <2>1, BytesSame, HostAssumptions, HostR!WriterPuts
<1>5. (\E b \in Byte : HostR!PutByte(Writer, b))
      \/ HostR!Lock(Writer) \/ HostR!WriteEnd(Writer)
      \/ \E n \in 0..MaxCall : HostR!WriteCall(Writer, n)
  BY HostCallsSame DEF TypeLine, InWrite, Char
<1> QED BY <1>2, <1>3, <1>4, <1>5-----------------------------------------------------------------------------
(***************************************************************************)
(* The vCPU thread's view of its calls is kept by every step.              *)
(***************************************************************************)
LEMMA HostGrows ==
  ASSUME Hyp, TypeLine \/ InWrite, HostQ!Contents # <<>>
  PROVE  HostQ!Contents' # <<>>
<1>1. HostQ!Contents \in Seq(Char)
  BY BytesSame, HostAssumptions, HostR!ContentsIsSeq
     DEF Hyp, HostR!StepHyp, HostR!IndInv
<1>2. ASSUME NEW b \in Byte PROVE Append(HostQ!Contents, b) # <<>>
  BY <1>1
<1> QED BY <1>2, TypistStep

LEMMA StepFull ==
  ASSUME Hyp, [Next]_vars
  PROVE  GuestQ!FullCount'
<1>1. GuestR!FullCount /\ GuestR!StepHyp
  BY GuestCallsSame DEF Hyp, EchoInv
<1>2. [GuestR!Next]_(GuestR!vars)
  BY GuestStep, GuestSame DEF GuestQ!vars, GuestR!vars, Hyp, GuestInv, GuestT
<1>3. GuestR!FullCount'
  BY <1>1, <1>2, GuestAssumptions, GuestR!StepFullCount
<1>4. (GuestQ!FullCount <=> GuestR!FullCount)'
  BY GuestCallsSame, PTL
<1> QED BY <1>3, <1>4

LEMMA StepEchoInv ==
  ASSUME Hyp, [Next]_vars
  PROVE  EchoInv'
<1> DEFINE h == host_call[Vcpu]
           g == guest_call[Vcpu]
<1>1. GuestQ!FullCount'
  BY StepFull
<1>2. /\ guest.at # "rx_data" =>
           h.at = "idle" \/ (h.at \in {"front", "rear"} /\ h.op = "empty")
      /\ guest.at = "rx_status" /\ h.at = "idle" /\ h.ret = 0 =>
           HostQ!Contents # <<>>
      /\ guest.at = "rx_data" /\ h.at \notin {"idle", "end"} =>
           h.op = "read" /\ h.size = 1 /\ HostQ!Contents # <<>>
      /\ guest.at = "rx_data" /\ h.at = "end" => h.i = 1
      /\ g.at # "idle" => guest.at = "tx_data" /\ g.op = "write" /\ g.size = 1
      /\ guest \in GuestT
  BY DEF Hyp, EchoInv, GuestInv
<1> SUFFICES
      /\ guest'.at # "rx_data" =>
           h'.at = "idle" \/ (h'.at \in {"front", "rear"} /\ h'.op = "empty")
      /\ guest'.at = "rx_status" /\ h'.at = "idle" /\ h'.ret = 0 =>
           HostQ!Contents' # <<>>
      /\ guest'.at = "rx_data" /\ h'.at \notin {"idle", "end"} =>
           h'.op = "read" /\ h'.size = 1 /\ HostQ!Contents' # <<>>
      /\ guest'.at = "rx_data" /\ h'.at = "end" => h'.i = 1
      /\ g'.at # "idle" => guest'.at = "tx_data" /\ g'.op = "write" /\ g'.size = 1
  BY <1>1 DEF EchoInv
<1>3. CASE SendPoll \/ ReceivePoll
  <2>1. guest.at \in {"tx_poll", "rx_poll"} /\ guest'.at \in {"tx_status", "rx_status"}
    BY <1>2, <1>3 DEF SendPoll, ReceivePoll, ReadStatus, GuestT
  <2>2. g' = g
    BY <1>3 DEF SendPoll, ReceivePoll, ReadStatus, guestVars
  <2>3. /\ h'.op = "empty" /\ h'.at \in {"idle", "front"}
        /\ h'.at = "idle" /\ h'.ret = 0 => HostQ!Contents' # <<>>
    BY <1>3, PollStep DEF SendPoll, ReceivePoll, ReadStatus
  <2> QED BY <1>2, <2>1, <2>2, <2>3
<1>4. CASE SendStatus
  <2>1. h' = h /\ h.at = "idle" /\ guest.at = "tx_status"
    BY <1>4 DEF SendStatus, hostVars, HostIdle
  <2>2. CASE GuestQ!WriteCall(Vcpu, 1) /\ guest' = [guest EXCEPT !.at = "tx_data"]
    <3>1. g'.at = "idle" \/ (g'.op = "write" /\ g'.size = 1)
      BY <2>2, WriteCallStep
    <3>2. guest'.at = "tx_data"
      BY <1>2, <2>2 DEF GuestT
    <3> QED BY <2>1, <3>1, <3>2
  <2>3. CASE guest' = [guest EXCEPT !.at = "tx_poll"] /\ UNCHANGED guestVars
    <3>1. guest'.at = "tx_poll" /\ g' = g
      BY <1>2, <2>3 DEF GuestT, guestVars
    <3> QED BY <1>2, <2>1, <3>1
  <2> QED BY <1>4, <2>2, <2>3 DEF SendStatus
<1>5. CASE SendDone
  <2>1. h' = h /\ g' = g /\ g.at = "idle" /\ guest.at = "tx_data"
    BY <1>5 DEF SendDone, hostVars, guestVars, GuestIdle
  <2>2. guest'.at \in {"tx_poll", "rx_poll"}
    BY <1>5 DEF SendDone, Begin
  <2> QED BY <1>2, <2>1, <2>2
<1>6. CASE ReceiveStatus
  <2>1. g' = g /\ h.at = "idle" /\ guest.at = "rx_status"
    BY <1>6 DEF ReceiveStatus, guestVars, HostIdle
  <2>2. CASE DataReady \in LineStatus /\ HostQ!ReadCall(Vcpu, 1)
             /\ guest' = [guest EXCEPT !.at = "rx_data"]
    <3>1. h.ret = 0
      BY <2>2 DEF LineStatus, DataReady, TransmitterEmpty
    <3>2. /\ HostQ!Contents' = HostQ!Contents
          /\ h'.op = "read" /\ h'.at \in {"front", "lock"} /\ h'.size = 1
      BY <2>2, ReadCallStep
    <3>3. guest'.at = "rx_data"
      BY <1>2, <2>2 DEF GuestT
    <3> QED BY <1>2, <2>1, <3>1, <3>2, <3>3
  <2>3. CASE guest' = [guest EXCEPT !.at = "rx_poll"] /\ UNCHANGED hostVars
    <3>1. guest'.at = "rx_poll" /\ h' = h
      BY <1>2, <2>3 DEF GuestT, hostVars
    <3> QED BY <1>2, <2>1, <3>1
  <2> QED BY <1>6, <2>2, <2>3 DEF ReceiveStatus
<1>7. CASE ReceiveDone
  <2>1. h' = h /\ g' = g /\ h.at = "idle" /\ guest.at = "rx_data"
    BY <1>7 DEF ReceiveDone, hostVars, guestVars, HostIdle
  <2>2. guest'.at = "tx_poll"
    BY <1>2, <1>7 DEF ReceiveDone, GuestT
  <2> QED BY <1>2, <2>1, <2>2
<1>8. CASE InHostQueue
  <2>1. guest' = guest /\ g' = g
    BY <1>8 DEF InHostQueue, guestVars
  <2>2. CASE guest.at = "rx_data"
    <3>1. Nearer(h, h') \/ FindsNone(h, h') \/ Takes(h, h') \/ Returns(h, h')
      BY <1>8, <2>2, ReadingStep
    <3> QED BY <1>2, <2>1, <2>2, <3>1 DEF Nearer, FindsNone, Takes, Returns
  <2>3. CASE guest.at # "rx_data"
    <3>1. /\ h'.op = "empty" /\ h'.at \in {"idle", "rear"}
          /\ h'.at = "idle" /\ h'.ret = 0 => HostQ!Contents' # <<>>
      BY <1>8, <2>3, PollingStep
    <3> QED BY <1>2, <2>1, <2>3, <3>1
  <2> QED BY <2>2, <2>3
<1>9. CASE InGuestQueue
  <2>1. guest' = guest /\ h' = h /\ HostQ!Contents' = HostQ!Contents
    BY <1>9, HostKept DEF InGuestQueue, hostVars
  <2>2. guest.at = "tx_data" /\ (g'.at # "idle" => g'.op = "write" /\ g'.size = 1)
    BY <1>9, SendingStep
  <2> QED BY <1>2, <2>1, <2>2
<1>10. CASE TypeLine \/ InWrite
  <2>1. guest' = guest /\ g' = g
    BY <1>10 DEF TypeLine, InWrite, guestVars
  <2>2. h' = h
    BY <1>10, TypistStep
  <2>3. HostQ!Contents # <<>> => HostQ!Contents' # <<>>
    BY <1>10, HostGrows
  <2> QED BY <1>2, <2>1, <2>2, <2>3
<1>11. CASE ReadChar \/ InRead
  <2>1. guest' = guest /\ h' = h /\ HostQ!Contents' = HostQ!Contents
    BY <1>11, HostKept DEF ReadChar, InRead, hostVars
  <2>2. g' = g
    BY <1>11, HostReadsStep
  <2> QED BY <1>2, <2>1, <2>2
<1>12. CASE UNCHANGED vars
  <2>1. guest' = guest /\ h' = h /\ g' = g /\ HostQ!Contents' = HostQ!Contents
    BY <1>12, HostKept DEF vars, hostVars
  <2> QED BY <1>2, <2>1
<1> QED BY <1>3, <1>4, <1>5, <1>6, <1>7, <1>8, <1>9, <1>10, <1>11, <1>12
        DEF Next, VcpuStep

LEMMA InitEchoInv == Init => EchoInv
<1> SUFFICES ASSUME Init PROVE EchoInv
  OBVIOUS
<1>1. /\ host_call[Vcpu].at = "idle" /\ guest_call[Vcpu].at = "idle"
      /\ guest.at \in {"tx_poll", "rx_poll"}
  BY DEF Init, Begin, HostQ!Init, GuestQ!Init, HostQ!NoCall, GuestQ!NoCall,
         HostQ!Threads, GuestQ!Threads
<1>2. GuestQ!FullCount
  BY DEF Init, GuestQ!Init, GuestQ!NewQueue, GuestQ!FullCount
<1> QED BY <1>1, <1>2 DEF EchoInv

(***************************************************************************)
(* A guest told "data ready" that has not read yet has a byte waiting; the *)
(* vCPU thread is in at most one of the two queues, and in none on behalf  *)
(* of another access than the guest's present one.                         *)
(***************************************************************************)
THEOREM EchoInvariant == Spec => []EchoInv
<1>1. Spec => []HostR!IndInv
  <2>1. HostR!Spec => []HostR!IndInv
    BY HostAssumptions, HostR!RingInvariant
  <2> QED BY <2>1, HostSpec, PTL
<1>2. Spec => []GuestR!IndInv
  <2>1. GuestR!Spec => []GuestR!IndInv
    BY GuestAssumptions, GuestR!RingInvariant
  <2> QED BY <2>1, GuestSpec, PTL
<1>3. Init => EchoInv
  BY InitEchoInv
<1>4. /\ HostR!IndInv /\ HostR!IndInv' /\ GuestR!IndInv /\ GuestR!IndInv'
      /\ GuestInv /\ EchoInv /\ [Next]_vars
      => EchoInv'
  BY StepEchoInv, HostAssumptions, GuestAssumptions
     DEF Hyp, HostR!StepHyp, GuestR!StepHyp
<1> QED BY <1>1, <1>2, <1>3, <1>4, GuestCorrect, PTL DEF Spec-----------------------------------------------------------------------------
(***************************************************************************)
(* The steps of Serial, as steps of EchoPipe.                              *)
(***************************************************************************)
\* The guest takes up its next character.
NextHand == IF guest.text = <<>> THEN Nil ELSE Head(guest.text)
NextRest == IF guest.text = <<>> THEN guest.text ELSE Tail(guest.text)

\* What Hand and Rest are, by the place the guest is at.
HandTable ==
  LET h == host_call[Vcpu]
      g == guest_call[Vcpu]
  IN /\ guest.at \in {"tx_poll", "tx_status"} =>
          Hand = guest.char /\ Rest = guest.text
     /\ guest.at = "tx_data" /\ g.at \in {"lock", "loop"} =>
          Hand = guest.char /\ Rest = guest.text
     /\ guest.at = "tx_data" /\ g.at \in {"end", "idle"} =>
          Hand = NextHand /\ Rest = NextRest
     /\ guest.at = "rx_data" /\ h.at = "end" =>
          Hand = h.byte /\ Rest = guest.text
     /\ guest.at = "rx_data" /\ h.at = "idle" =>
          Hand = Received /\ Rest = guest.text
     /\ guest.at = "rx_data" /\ h.at \notin {"end", "idle"} =>
          Hand = Nil /\ Rest = guest.text
     /\ guest.at \in {"rx_poll", "rx_status"} =>
          Hand = Nil /\ Rest = guest.text

LEMMA HandIs == HandTable
BY DEF HandTable, Hand, Rest, NextHand, NextRest

LEMMA HandWillBe == HandTable'
BY HandIs, PTL

\* Hand and Rest are functions of the vCPU thread's part of the state.
LEMMA HandKept ==
  ASSUME guest' = guest, guest_call'[Vcpu] = guest_call[Vcpu],
         host_call'[Vcpu] = host_call[Vcpu]
  PROVE  Hand' = Hand /\ Rest' = Rest
BY DEF Hand, Rest, Received

LEMMA EchoStutter ==
  ASSUME HostQ!Contents' = HostQ!Contents, GuestQ!Contents' = GuestQ!Contents,
         Hand' = Hand, Rest' = Rest, guest_call'[Reader].i = guest_call[Reader].i
  PROVE  UNCHANGED Echo!vars
BY DEF Echo!vars

\* Reading the line status and the end of an access, seen from outside.
LEMMA PortSteps ==
  ASSUME Hyp, SendPoll \/ SendDone \/ ReceivePoll \/ ReceiveStatus \/ ReceiveDone
  PROVE  UNCHANGED Echo!vars
<1> DEFINE h == host_call[Vcpu]
           g == guest_call[Vcpu]
<1>1. guest \in GuestT
  BY DEF Hyp, GuestInv
<1>2. guestVars' = guestVars
  BY DEF SendPoll, SendDone, ReceivePoll, ReceiveStatus, ReceiveDone, ReadStatus,
         guestVars
<1>3. g' = g /\ GuestQ!Contents' = GuestQ!Contents
      /\ guest_call'[Reader].i = guest_call[Reader].i
  BY <1>2, GuestKept DEF guestVars
<1>4. CASE SendPoll \/ ReceivePoll
  <2>1. HostQ!Contents' = HostQ!Contents
    BY <1>4, PollStep DEF SendPoll, ReceivePoll, ReadStatus
  <2>2. /\ guest.at = "tx_poll" => guest'.at = "tx_status"
        /\ guest.at # "tx_poll" => guest.at = "rx_poll" /\ guest'.at = "rx_status"
        /\ guest'.char = guest.char /\ guest'.text = guest.text
    BY <1>1, <1>4 DEF SendPoll, ReceivePoll, ReadStatus, GuestT
  <2>3. Hand' = Hand /\ Rest' = Rest
    BY <2>2, HandIs, HandWillBe DEF HandTable
  <2> QED BY <1>3, <2>1, <2>3, EchoStutter
<1>5. CASE SendDone
  <2>1. HostQ!Contents' = HostQ!Contents
    BY <1>5, HostKept DEF SendDone
  <2>2. Hand = NextHand /\ Rest = NextRest
    BY <1>5, HandIs DEF HandTable, SendDone, GuestIdle
  <2>3. guest' = Begin(guest.text)
    BY <1>5 DEF SendDone
  <2>4. CASE guest.text = <<>>
    <3>1. guest'.at = "rx_poll" /\ guest'.text = guest.text
      BY <2>3, <2>4 DEF Begin
    <3>2. Hand' = Nil /\ Rest' = guest.text
      BY <3>1, HandWillBe DEF HandTable
    <3>3. Hand = Nil /\ Rest = guest.text
      BY <2>2, <2>4 DEF NextHand, NextRest
    <3> QED BY <1>3, <2>1, <3>2, <3>3, EchoStutter
  <2>5. CASE guest.text # <<>>
    <3>1. /\ guest'.at = "tx_poll" /\ guest'.char = Head(guest.text)
          /\ guest'.text = Tail(guest.text)
      BY <2>3, <2>5 DEF Begin
    <3>2. Hand' = Head(guest.text) /\ Rest' = Tail(guest.text)
      BY <3>1, HandWillBe DEF HandTable
    <3>3. Hand = Head(guest.text) /\ Rest = Tail(guest.text)
      BY <2>2, <2>5 DEF NextHand, NextRest
    <3> QED BY <1>3, <2>1, <3>2, <3>3, EchoStutter
  <2> QED BY <2>4, <2>5
<1>6. CASE ReceiveStatus
  <2>1. guest.at = "rx_status" /\ h.at = "idle"
    BY <1>6 DEF ReceiveStatus, HostIdle
  <2>2. CASE HostQ!ReadCall(Vcpu, 1) /\ guest' = [guest EXCEPT !.at = "rx_data"]
    <3>1. HostQ!Contents' = HostQ!Contents /\ h'.at \in {"front", "lock"}
      BY <2>2, ReadCallStep
    <3>2. guest'.at = "rx_data" /\ guest'.text = guest.text
      BY <1>1, <2>2 DEF GuestT
    <3>3. Hand' = Hand /\ Rest' = Rest
      BY <2>1, <3>1, <3>2, HandIs, HandWillBe DEF HandTable
    <3> QED BY <1>3, <3>1, <3>3, EchoStutter
  <2>3. CASE guest' = [guest EXCEPT !.at = "rx_poll"] /\ UNCHANGED hostVars
    <3>1. guest'.at = "rx_poll" /\ guest'.text = guest.text
      BY <1>1, <2>3 DEF GuestT
    <3>2. Hand' = Hand /\ Rest' = Rest
      BY <2>1, <3>1, HandIs, HandWillBe DEF HandTable
    <3> QED BY <1>3, <2>3, <3>2, HostKept, EchoStutter
  <2> QED BY <1>6, <2>2, <2>3 DEF ReceiveStatus
<1>7. CASE ReceiveDone
  <2>1. HostQ!Contents' = HostQ!Contents
    BY <1>7, HostKept DEF ReceiveDone
  <2>2. guest.at = "rx_data" /\ h.at = "idle"
    BY <1>7 DEF ReceiveDone, HostIdle
  <2>3. guest'.at = "tx_poll" /\ guest'.char = Received /\ guest'.text = guest.text
    BY <1>1, <1>7 DEF ReceiveDone, GuestT
  <2>4. Hand' = Hand /\ Rest' = Rest
    BY <2>2, <2>3, HandIs, HandWillBe DEF HandTable
  <2> QED BY <1>3, <2>1, <2>4, EchoStutter
<1> QED BY <1>4, <1>5, <1>6, <1>7

\* A character turned away by a full guest_queue is lost.
LEMMA SendStatusStep ==
  ASSUME Hyp, SendStatus
  PROVE  Echo!Lose \/ UNCHANGED Echo!vars
<1> DEFINE h == host_call[Vcpu]
           g == guest_call[Vcpu]
<1>1. guest \in GuestT /\ guest.char \in Char
  BY DEF Hyp, GuestInv, GuestT
<1>2. HostQ!Contents' = HostQ!Contents
  BY HostKept DEF SendStatus
<1>3. Hand = guest.char /\ Rest = guest.text
  BY HandIs DEF HandTable, SendStatus
<1>4. CASE GuestQ!WriteCall(Vcpu, 1) /\ guest' = [guest EXCEPT !.at = "tx_data"]
  <2>1. /\ GuestQ!Contents' = GuestQ!Contents
        /\ guest_call'[Reader] = guest_call[Reader]
        /\ \/ g'.at = "idle" /\ guest_queue.is_full = 1
           \/ g'.at = "lock" /\ g'.op = "write" /\ g'.size = 1
    BY <1>4, WriteCallStep
  <2>2. guest'.at = "tx_data" /\ guest'.char = guest.char /\ guest'.text = guest.text
    BY <1>1, <1>4 DEF GuestT
  <2>3. CASE g'.at = "idle" /\ guest_queue.is_full = 1
    <3>1. Len(GuestQ!Contents) + guest_call[Reader].i = BufferSize
      <4>1. GuestR!FullCount /\ GuestR!IndInv
        BY GuestCallsSame DEF Hyp, EchoInv, GuestR!StepHyp
      <4>2. Len(GuestR!Contents) = GuestR!Used
        BY <4>1, GuestAssumptions, GuestR!ContentsLength
      <4> QED BY <2>3, <4>1, <4>2, BytesSame DEF GuestR!FullCount
    <3>2. Hand' = NextHand' /\ Rest' = NextRest'
      BY <2>2, <2>3, HandWillBe DEF HandTable
    <3>3. Echo!NextChar
      BY <1>3, <2>2, <3>2 DEF Echo!NextChar, NextHand, NextRest
    <3>4. Hand # Nil
      BY <1>1, <1>3 DEF Char
    <3> QED BY <1>2, <2>1, <3>1, <3>3, <3>4 DEF Echo!Lose
  <2>4. CASE g'.at = "lock"
    <3>1. Hand' = Hand /\ Rest' = Rest
      BY <1>3, <2>2, <2>4, HandWillBe DEF HandTable
    <3> QED BY <1>2, <2>1, <3>1, EchoStutter
  <2> QED BY <2>1, <2>3, <2>4
<1>5. CASE guest' = [guest EXCEPT !.at = "tx_poll"] /\ UNCHANGED guestVars
  <2>1. GuestQ!Contents' = GuestQ!Contents
        /\ guest_call'[Reader].i = guest_call[Reader].i
    BY <1>5, GuestKept DEF guestVars
  <2>2. guest'.at = "tx_poll" /\ guest'.char = guest.char /\ guest'.text = guest.text
    BY <1>1, <1>5 DEF GuestT
  <2>3. Hand' = Hand /\ Rest' = Rest
    BY <1>3, <2>2, HandWillBe DEF HandTable
  <2> QED BY <1>2, <2>1, <2>3, EchoStutter
<1> QED BY <1>4, <1>5 DEF SendStatus

\* The guest receives the head of host_queue, or a NUL from a full one.
LEMMA InHostQueueStep ==
  ASSUME Hyp, InHostQueue
  PROVE  Echo!Receive \/ Echo!ReceiveNul \/ UNCHANGED Echo!vars
<1> DEFINE h == host_call[Vcpu]
           g == guest_call[Vcpu]
<1>1. /\ guest' = guest /\ g' = g /\ GuestQ!Contents' = GuestQ!Contents
      /\ guest_call'[Reader].i = guest_call[Reader].i
  BY GuestKept DEF InHostQueue, guestVars
<1>2. CASE guest.at # "rx_data"
  <2>1. HostQ!Contents' = HostQ!Contents
    BY <1>2, PollingStep
  <2>2. Hand' = Hand /\ Rest' = Rest
    BY <1>1, <1>2 DEF Hand, Rest
  <2> QED BY <1>1, <2>1, <2>2, EchoStutter
<1>3. CASE guest.at = "rx_data"
  <2>1. Rest = guest.text /\ Rest' = Rest
    BY <1>1, <1>3, HandIs, HandWillBe DEF HandTable
  <2>2. CASE Nearer(h, h')
    <3>1. Hand' = Hand
      BY <1>1, <1>3, <2>2, HandIs, HandWillBe DEF HandTable, Nearer
    <3> QED BY <1>1, <2>1, <2>2, <3>1, EchoStutter DEF Nearer
  <2>3. CASE FindsNone(h, h')
    <3>1. Hand = Nil /\ Hand' = Received'
      BY <1>1, <1>3, <2>3, HandIs, HandWillBe DEF HandTable, FindsNone
    <3>2. Received' = Nul
      BY <2>3 DEF FindsNone, Received
    <3> QED BY <1>1, <2>1, <2>3, <3>1, <3>2 DEF FindsNone, Echo!ReceiveNul
  <2>4. CASE Takes(h, h')
    <3>1. Hand = Nil /\ Hand' = Head(HostQ!Contents)
      BY <1>1, <1>3, <2>4, HandIs, HandWillBe DEF HandTable, Takes
    <3> QED BY <1>1, <2>1, <2>4, <3>1 DEF Takes, Echo!Receive
  <2>5. CASE Returns(h, h')
    <3>1. Hand = h.byte /\ Hand' = Received'
      BY <1>1, <1>3, <2>5, HandIs, HandWillBe DEF HandTable, Returns
    <3>2. Received' = h.byte
      BY <2>5 DEF Returns, Received
    <3> QED BY <1>1, <2>1, <2>5, <3>1, <3>2, EchoStutter DEF Returns
  <2> QED BY <1>3, <2>2, <2>3, <2>4, <2>5, ReadingStep
<1> QED BY <1>2, <1>3

\* The guest's character is sent as its byte is stored.
LEMMA InGuestQueueStep ==
  ASSUME Hyp, InGuestQueue
  PROVE  Echo!Send \/ UNCHANGED Echo!vars
<1> DEFINE h == host_call[Vcpu]
           g == guest_call[Vcpu]
<1>1. guest' = guest /\ HostQ!Contents' = HostQ!Contents
  BY HostKept DEF InGuestQueue
<1>2. /\ guest.at = "tx_data" /\ guest_call'[Reader] = guest_call[Reader]
      /\ Locks(g, g') \/ Stores(g, g') \/ Unlocks(g, g')
  BY SendingStep
<1>3. NextHand' = NextHand /\ NextRest' = NextRest
  BY <1>1 DEF NextHand, NextRest
<1>4. CASE Locks(g, g')
  <2>1. Hand' = Hand /\ Rest' = Rest
    BY <1>1, <1>2, <1>4, HandIs, HandWillBe DEF HandTable, Locks
  <2> QED BY <1>1, <1>2, <1>4, <2>1, EchoStutter DEF Locks
<1>5. CASE Stores(g, g')
  <2>1. Hand = guest.char /\ Rest = guest.text
        /\ Hand' = NextHand /\ Rest' = NextRest
    BY <1>1, <1>2, <1>3, <1>5, HandIs, HandWillBe DEF HandTable, Stores
  <2>2. Echo!NextChar
    BY <2>1 DEF Echo!NextChar, NextHand, NextRest
  <2>3. Hand # Nil
    BY <2>1 DEF Hyp, GuestInv, GuestT, Char
  <2> QED BY <1>1, <1>2, <1>5, <2>1, <2>2, <2>3 DEF Stores, Echo!Send
<1>6. CASE Unlocks(g, g')
  <2>1. Hand' = Hand /\ Rest' = Rest
    BY <1>1, <1>2, <1>3, <1>6, HandIs, HandWillBe DEF HandTable, Unlocks
  <2> QED BY <1>1, <1>2, <1>6, <2>1, EchoStutter DEF Unlocks
<1> QED BY <1>2, <1>4, <1>5, <1>6

\* The host types and reads.
LEMMA HostSteps ==
  ASSUME Hyp, TypeLine \/ InWrite \/ ReadChar \/ InRead
  PROVE  Echo!Next \/ UNCHANGED Echo!vars
<1>1. CASE TypeLine \/ InWrite
  <2>1. guest' = guest /\ guestVars' = guestVars
    BY <1>1 DEF TypeLine, InWrite, guestVars
  <2>2. host_call'[Vcpu] = host_call[Vcpu]
    BY <1>1, TypistStep
  <2>3. /\ GuestQ!Contents' = GuestQ!Contents
        /\ Hand' = Hand /\ Rest' = Rest
        /\ guest_call'[Reader].i = guest_call[Reader].i
    BY <2>1, <2>2, GuestKept, HandKept DEF guestVars
  <2>4. \/ HostQ!Contents' = HostQ!Contents
        \/ \E b \in Byte : /\ Len(HostQ!Contents) < BufferSize
                          /\ HostQ!Contents' = Append(HostQ!Contents, b)
    BY <1>1, TypistStep
  <2> QED BY <2>3, <2>4, EchoStutter DEF Echo!Next, Echo!Type
<1>2. CASE ReadChar \/ InRead
  <2>1. guest' = guest /\ hostVars' = hostVars
    BY <1>2 DEF ReadChar, InRead, hostVars
  <2>2. guest_call'[Vcpu] = guest_call[Vcpu]
    BY <1>2, HostReadsStep
  <2>3. HostQ!Contents' = HostQ!Contents /\ Hand' = Hand /\ Rest' = Rest
    BY <2>1, <2>2, HostKept, HandKept DEF hostVars
  <2>4. \/ /\ GuestQ!Contents' = GuestQ!Contents
           /\ guest_call'[Reader].i = guest_call[Reader].i
        \/ GuestQ!Contents' = GuestQ!Contents /\ guest_call'[Reader].i = 0
        \/ /\ GuestQ!Contents # <<>>
           /\ GuestQ!Contents' = Tail(GuestQ!Contents)
           /\ guest_call'[Reader].i = guest_call[Reader].i + 1
    BY <1>2, HostReadsStep
  <2> QED BY <2>3, <2>4, EchoStutter DEF Echo!Next, Echo!Take, Echo!EndRead
<1> QED BY <1>1, <1>2

LEMMA EchoStep == Hyp /\ [Next]_vars => [Echo!Next]_(Echo!vars)
<1> SUFFICES ASSUME Hyp, [Next]_vars
             PROVE  Echo!Next \/ UNCHANGED Echo!vars
  OBVIOUS
<1>1. CASE UNCHANGED vars
  <2>1. /\ guest' = guest /\ hostVars' = hostVars /\ guestVars' = guestVars
    BY <1>1 DEF vars, hostVars, guestVars
  <2> QED BY <2>1, HostKept, GuestKept, HandKept, EchoStutter
          DEF hostVars, guestVars
<1> QED BY <1>1, PortSteps, SendStatusStep, InHostQueueStep, InGuestQueueStep,
           HostSteps
        DEF Next, VcpuStep, Echo!Next

LEMMA EchoInit == Init => Echo!Init
<1> SUFFICES ASSUME Init PROVE Echo!Init
  OBVIOUS
<1>1. HostR!Contents = <<>> /\ GuestR!Contents = <<>>
  <2>1. HostR!Init /\ GuestR!Init
    BY HostSame, GuestSame DEF Init
  <2> QED BY <2>1, HostAssumptions, GuestAssumptions, HostR!InitSim, GuestR!InitSim
          DEF HostR!Fifo!Init, GuestR!Fifo!Init
<1>2. HostQ!Contents = <<>> /\ GuestQ!Contents = <<>>
  BY <1>1, BytesSame
<1>3. guest_call[Reader].i = 0
  BY DEF Init, GuestQ!Init, GuestQ!NoCall, GuestQ!Threads
<1>4. /\ Hand = IF Text = <<>> THEN Nil ELSE Head(Text)
      /\ Rest = IF Text = <<>> THEN <<>> ELSE Tail(Text)
  BY HandIs DEF HandTable, Init, Begin
<1> QED BY <1>2, <1>3, <1>4 DEF Echo!Init

(***************************************************************************)
(* The echo guest's serial line as a whole, for any internal_buffer_size,  *)
(* any text and lines of any length: what comes back is what was typed, in *)
(* order and without repetitions, except for characters lost when          *)
(* guest_queue had no room as worker1's read began and NULs received when  *)
(* host_queue was full.                                                    *)
(***************************************************************************)
THEOREM SerialIsEchoPipe == Spec => EchoSpec
<1>1. Spec => []HostR!IndInv
  <2>1. HostR!Spec => []HostR!IndInv
    BY HostAssumptions, HostR!RingInvariant
  <2> QED BY <2>1, HostSpec, PTL
<1>2. Spec => []GuestR!IndInv
  <2>1. GuestR!Spec => []GuestR!IndInv
    BY GuestAssumptions, GuestR!RingInvariant
  <2> QED BY <2>1, GuestSpec, PTL
<1>3. Init => Echo!Init
  BY EchoInit
<1>4. /\ HostR!IndInv /\ HostR!IndInv' /\ GuestR!IndInv /\ GuestR!IndInv'
      /\ GuestInv /\ EchoInv /\ [Next]_vars
      => [Echo!Next]_(Echo!vars)
  BY EchoStep, HostAssumptions, GuestAssumptions
     DEF Hyp, HostR!StepHyp, GuestR!StepHyp
<1> QED BY <1>1, <1>2, <1>3, <1>4, GuestCorrect, EchoInvariant, PTL
        DEF Spec, EchoSpec, Echo!Spec
=============================================================================
