------------------------------- MODULE Serial -------------------------------
(***************************************************************************)
(* The emulated serial port of src/serial.c with its three users: the      *)
(* thread in vm_run, which executes serial_inb and serial_outb for the     *)
(* guest; worker0 of examples/guests/main.c, which writes what is typed;   *)
(* and worker1, which reads what the guest sends.  Each of the two queues  *)
(* is an instance of Queue, used through its operations only.  The guest   *)
(* is the echo program of examples/guests/guest32.c: print a text, then    *)
(* receive and send back characters for ever.                              *)
(***************************************************************************)
EXTENDS Naturals, Sequences

CONSTANTS Vcpu, Writer, Reader,  \* the three threads
          Byte,        \* what the host types
          Nul,         \* the character 0
          Text,        \* what the guest prints first
          BufferSize,  \* internal_buffer_size
          MaxCall,     \* bound: the longest line typed
          Nil

ASSUME SerialAssumption ==
  /\ BufferSize \in Nat \ {0}
  /\ MaxCall \in Nat \ {0}
  /\ Byte # {} /\ Nul \notin Byte /\ Nil \notin Byte \cup {Nul}
  /\ Text \in Seq(Byte)
  /\ Vcpu # Writer /\ Vcpu # Reader /\ Writer # Reader
  /\ Nil \notin {Vcpu, Writer, Reader}

VARIABLES host_queue, host_call,    \* from host to guest
          guest_queue, guest_call,  \* from guest to host
          guest                     \* the guest program

vars == <<host_queue, host_call, guest_queue, guest_call, guest>>

hostVars == <<host_queue, host_call>>
guestVars == <<guest_queue, guest_call>>

Char == Byte \cup {Nul}

HostQ == INSTANCE Queue WITH
  Producers <- {Writer}, Consumers <- {Vcpu}, Byte <- Char,
  queue <- host_queue, call <- host_call

GuestQ == INSTANCE Queue WITH
  Producers <- {Vcpu}, Consumers <- {Reader}, Byte <- Char,
  queue <- guest_queue, call <- guest_call

(***************************************************************************)
(* guest.at: the guest is about to read the line status for a send         *)
(* ("tx_poll") or a receive ("rx_poll"); it waits for that answer          *)
(* ("tx_status", "rx_status"); or its access to the data register is under *)
(* way ("tx_data", "rx_data").  "char" is what it sends, "text" the part   *)
(* of its text after that.                                                 *)
(***************************************************************************)
GuestAt == {"tx_poll", "tx_status", "tx_data", "rx_poll", "rx_status", "rx_data"}

TypeOK ==
  /\ HostQ!TypeOK /\ GuestQ!TypeOK
  /\ guest \in [at : GuestAt, char : Char, text : Seq(Char)]

Begin(text) ==
  IF text = <<>> THEN [at |-> "rx_poll", char |-> Nul, text |-> <<>>]
                 ELSE [at |-> "tx_poll", char |-> Head(text), text |-> Tail(text)]

Init ==
  /\ HostQ!Init /\ GuestQ!Init
  /\ guest = Begin(Text)
-----------------------------------------------------------------------------
(***************************************************************************)
(* The thread in vm_run.                                                   *)
(***************************************************************************)
HostIdle == host_call[Vcpu].at = "idle"
GuestIdle == guest_call[Vcpu].at = "idle"

\* Bits of the line status, after queue_empty(host_queue) has answered.
DataReady == 0
TransmitterEmpty == 5

LineStatus_Stuck == {TransmitterEmpty}  \* mutant: data ready is never set
LineStatus == {TransmitterEmpty}
              \cup (IF host_call[Vcpu].ret = 0 THEN {DataReady} ELSE {})

\* inb of the line status: serial_inb calls queue_empty.
ReadStatus(from, to) ==
  /\ guest.at = from
  /\ HostQ!EmptyCall(Vcpu)
  /\ guest' = [guest EXCEPT !.at = to]
  /\ UNCHANGED guestVars

SendPoll == ReadStatus("tx_poll", "tx_status")
ReceivePoll == ReadStatus("rx_poll", "rx_status")

\* outb of the data register: serial_outb calls queue_write for one byte.
SendStatus ==
  /\ guest.at = "tx_status" /\ HostIdle
  /\ IF TransmitterEmpty \in LineStatus
     THEN GuestQ!WriteCall(Vcpu, 1) /\ guest' = [guest EXCEPT !.at = "tx_data"]
     ELSE guest' = [guest EXCEPT !.at = "tx_poll"] /\ UNCHANGED guestVars
  /\ UNCHANGED hostVars

\* write_data does not look at what queue_write returned.
SendDone ==
  /\ guest.at = "tx_data" /\ GuestIdle
  /\ guest' = Begin(guest.text)
  /\ UNCHANGED <<hostVars, guestVars>>

\* Mutant: the guest is given data without waiting for "data ready".
ReceiveStatus_NoWait ==
  /\ guest.at = "rx_status" /\ HostIdle
  /\ HostQ!ReadCall(Vcpu, 1) /\ guest' = [guest EXCEPT !.at = "rx_data"]
  /\ UNCHANGED guestVars

\* inb of the data register: serial_inb calls queue_read for one byte.
ReceiveStatus ==
  /\ guest.at = "rx_status" /\ HostIdle
  /\ IF DataReady \in LineStatus
     THEN HostQ!ReadCall(Vcpu, 1) /\ guest' = [guest EXCEPT !.at = "rx_data"]
     ELSE guest' = [guest EXCEPT !.at = "rx_poll"] /\ UNCHANGED hostVars
  /\ UNCHANGED guestVars

\* Mutant: serial_inb answers with the last byte when there was none.
Received_Stale == host_call[Vcpu].byte

\* What serial_inb answers: data is 0 unless queue_read stored a byte.
Received == IF host_call[Vcpu].ret = 1 THEN host_call[Vcpu].byte ELSE Nul

ReceiveDone ==
  /\ guest.at = "rx_data" /\ HostIdle
  /\ guest' = [guest EXCEPT !.at = "tx_poll", !.char = Received]
  /\ UNCHANGED <<hostVars, guestVars>>

\* The queue functions that serial_inb and serial_outb are in.
InHostQueue == HostQ!ReadStep(Vcpu) /\ UNCHANGED <<guestVars, guest>>

InGuestQueue ==
  /\ \/ GuestQ!Lock(Vcpu)
     \/ GuestQ!PutByte(Vcpu, guest.char)
     \/ GuestQ!WriteEnd(Vcpu)
  /\ UNCHANGED <<hostVars, guest>>

VcpuStep ==
  \/ SendPoll \/ SendStatus \/ SendDone
  \/ ReceivePoll \/ ReceiveStatus \/ ReceiveDone
  \/ InHostQueue \/ InGuestQueue
-----------------------------------------------------------------------------
(***************************************************************************)
(* The host's threads.                                                     *)
(***************************************************************************)
\* worker0: a line was typed, serial_write takes what fits, the rest is lost.
TypeLine ==
  /\ \E n \in 1..MaxCall : HostQ!WriteCall(Writer, n)
  /\ UNCHANGED <<guestVars, guest>>

InWrite ==
  /\ HostQ!Lock(Writer) \/ HostQ!WriteEnd(Writer)
     \/ \E b \in Byte : HostQ!PutByte(Writer, b)
  /\ UNCHANGED <<guestVars, guest>>

\* worker1: serial_read of one byte again, whatever it returned last.
ReadChar == GuestQ!ReadCall(Reader, 1) /\ UNCHANGED <<hostVars, guest>>

InRead == GuestQ!ReadStep(Reader) /\ UNCHANGED <<hostVars, guest>>

Next == VcpuStep \/ TypeLine \/ InWrite \/ ReadChar \/ InRead

Spec == Init /\ [][Next]_vars

(***************************************************************************)
(* Each of the three runs on its own host thread and loops for ever; only  *)
(* the arrival of a line depends on the user.  A thread blocked on a mutex *)
(* gets it if it stays free.                                               *)
(***************************************************************************)
FairSpec == Spec /\ WF_vars(VcpuStep) /\ WF_vars(InWrite)
                 /\ WF_vars(ReadChar \/ InRead)
-----------------------------------------------------------------------------
(***************************************************************************)
(* The character the guest holds: from the byte's removal from host_queue  *)
(* (or the decision that there is none) to its arrival in guest_queue (or  *)
(* the refusal).                                                           *)
(***************************************************************************)
Hand ==
  LET h == host_call[Vcpu]
      g == guest_call[Vcpu]
      next == IF guest.text = <<>> THEN Nil ELSE Head(guest.text)
  IN CASE guest.at \in {"tx_poll", "tx_status"} -> guest.char
       [] guest.at = "tx_data" ->
            IF g.at \in {"lock", "loop"} THEN guest.char ELSE next
       [] guest.at = "rx_data" ->
            IF h.at = "end" THEN h.byte
            ELSE IF h.at = "idle" THEN Received ELSE Nil
       [] OTHER -> Nil

\* What it will still print of its own text after the character in Hand.
Rest ==
  IF guest.at = "tx_data" /\ guest_call[Vcpu].at \in {"end", "idle"}
     /\ guest.text # <<>>
  THEN Tail(guest.text) ELSE guest.text

Echo == INSTANCE EchoPipe WITH
  Capacity <- BufferSize,
  toGuest <- HostQ!Contents, hand <- Hand, text <- Rest,
  toHost <- GuestQ!Contents, taken <- guest_call[Reader].i

(***************************************************************************)
(* What comes back over the serial line is what was typed, in order and    *)
(* without repetitions, except for the two faults EchoPipe allows and only *)
(* where it allows them: losses when guest_queue had no room, NULs when    *)
(* host_queue was full.                                                    *)
(***************************************************************************)
EchoSpec == Echo!Spec

(***************************************************************************)
(* What the vCPU thread knows in each queue function it is in.  A guest    *)
(* that was told "data ready" and has not read yet still has a byte        *)
(* waiting: nobody else takes from host_queue.  And a character was turned *)
(* away by guest_queue only if worker1's read began on a full ring.        *)
(***************************************************************************)
EchoInv ==
  LET h == host_call[Vcpu]
      g == guest_call[Vcpu]
  IN /\ guest.at # "rx_data" =>
          h.at = "idle" \/ (h.at \in {"front", "rear"} /\ h.op = "empty")
     /\ guest.at = "rx_status" /\ h.at = "idle" /\ h.ret = 0 =>
          HostQ!Contents # <<>>
     /\ guest.at = "rx_data" /\ h.at \notin {"idle", "end"} =>
          h.op = "read" /\ h.size = 1 /\ HostQ!Contents # <<>>
     /\ guest.at = "rx_data" /\ h.at = "end" => h.i = 1
     /\ g.at # "idle" => guest.at = "tx_data" /\ g.op = "write" /\ g.size = 1
     /\ GuestQ!FullCount

(***************************************************************************)
(* Typed characters reach the guest: serial_inb's two looks at host_queue, *)
(* for the line status and for the data, do not chase the writer for ever. *)
(* (The queue is empty again and again, or front moves again and again.)   *)
(***************************************************************************)
GuestReceives ==
  []<>(HostQ!Used = 0) \/ []<><<TRUE>>_(host_queue.front)

(***************************************************************************)
(* What the guest sent reaches the host, while the guest keeps sending.    *)
(***************************************************************************)
HostReceives ==
  []<>(GuestQ!Used = 0) \/ []<><<TRUE>>_(guest_queue.front)

(***************************************************************************)
(* The comment in serial_read of guest32.c on the line status: "Wait for   *)
(* some data to be available".  A guest that waited for data ready gets    *)
(* typed data.                                                             *)
(***************************************************************************)
ReadyMeansData ==
  guest.at = "rx_data" /\ HostIdle => host_call[Vcpu].ret = 1
=============================================================================
