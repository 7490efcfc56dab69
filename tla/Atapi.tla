------------------------------- MODULE Atapi -------------------------------
(***************************************************************************)
(* The CD drive of src/atapi.c: its registers as the guest's port accesses *)
(* change them, and the driver in the guest, which takes the drive through *)
(* a command by polling the sector count register.  Counters are in words  *)
(* of two bytes, which is how the data register moves them, and a word of  *)
(* a packet has its bytes in the order of the packet.  The disc is an open *)
(* file with a position, which lseek sets and read moves on; the drive     *)
(* looks at the result of neither.                                         *)
(***************************************************************************)
EXTENDS Naturals, Sequences

CONSTANTS WordSize,      \* the number of values of a word, 2^16
          Reads,         \* first words of a packet with the opcode READ_12
          PacketWords,   \* words in a packet, 6
          BlockWords,    \* words in a block, 1024
          DiskWords,     \* words on the disc, its last block perhaps not whole
          OffsetBlocks,  \* blocks a file offset of 32 bits reaches, 2^21
          DiskFails      \* lseek may fail, and read fail or come short

ASSUME AtapiAssumption ==
  /\ WordSize \in Nat \ {0} /\ Reads \subseteq 0..(WordSize - 1)
  /\ PacketWords \in Nat /\ PacketWords >= 3
  /\ BlockWords \in Nat \ {0} /\ DiskWords \in Nat
  /\ OffsetBlocks \in Nat \ {0} /\ DiskFails \in BOOLEAN

VARIABLES selected_drive, curr_pkt, byte_read, to_send, byte_sent, receiving,
          sending,
          drv,       \* the driver in the guest
          file_pos,  \* the position of disk_fd, in words
          failed     \* what lseek and read returned in the last command: lseek
                     \* failed, or read gave less than a block

disc == <<file_pos, failed>>
drive == <<selected_drive, curr_pkt, byte_read, to_send, byte_sent, receiving,
           sending>>
vars == <<drive, drv, disc>>

Word == 0..(WordSize - 1)
PacketT == [1..PacketWords -> Word]

\* A word of the disc is its place there, from 1 on; NULL bytes are 0.
Zero == 0
DataT == 0..DiskWords
Block(b) == [k \in 1..BlockWords |-> b * BlockWords + k]

Drive == {"master", "slave"}
Bus == {"primary", "secondary"}

\* The values of the sector count register: ATAPI_SIG_SC, which is also
\* PACKET_AWAIT_COMMAND, PACKET_DATA_TRANSMIT and PACKET_COMMAND_COMPLETE.
Await == 1
Transmit == 2
Complete == 3
Answer == 0..3

DrvT == [at : {"idle", "probe", "found", "await", "send", "transmit", "read",
               "complete"},
         pkt : PacketT, sent : 0..PacketWords, data : Seq(DataT),
         bus : Bus, answer : Answer, dirty : BOOLEAN]

TypeOK ==
  /\ selected_drive \in Drive /\ curr_pkt \in PacketT
  /\ byte_read \in 0..PacketWords
  /\ to_send \in [1..BlockWords -> DataT] /\ byte_sent \in 0..BlockWords
  /\ receiving \in BOOLEAN /\ sending \in BOOLEAN
  /\ drv \in DrvT /\ file_pos \in Nat /\ failed \in BOOLEAN

NoPacket == [i \in 1..PacketWords |-> 0]

\* The driver between commands; dirty says that one was left unfinished.
Idle(dirty) ==
  [at |-> "idle", pkt |-> NoPacket, sent |-> 0, data |-> <<>>,
   bus |-> "primary", answer |-> 0, dirty |-> dirty]

Init ==
  /\ selected_drive = "master" /\ curr_pkt = NoPacket /\ byte_read = 0
  /\ to_send = [k \in 1..BlockWords |-> Zero] /\ byte_sent = 0
  /\ receiving = FALSE /\ sending = FALSE
  /\ drv = Idle(FALSE) /\ file_pos = 0 /\ failed = FALSE
-----------------------------------------------------------------------------
(***************************************************************************)
(* The registers.                                                          *)
(***************************************************************************)

\* select_outb: the drive registers of both buses share one variable.
SelectOutb(d) ==
  /\ selected_drive' = d
  /\ UNCHANGED <<curr_pkt, byte_read, to_send, byte_sent, receiving, sending>>

\* Mutant: a full packet takes one more word.
DataOutw_OnePastEnd(w) ==
  IF byte_read > PacketWords
  THEN UNCHANGED drive
  ELSE /\ receiving' = TRUE
       /\ curr_pkt' = [curr_pkt EXCEPT ![byte_read + 1] = w]
       /\ byte_read' = byte_read + 1
       /\ UNCHANGED <<selected_drive, to_send, byte_sent, sending>>

\* data_outw, whichever drive is selected.
DataOutw(w) ==
  IF byte_read > PacketWords - 1
  THEN UNCHANGED drive
  ELSE /\ receiving' = TRUE
       /\ curr_pkt' = [curr_pkt EXCEPT ![byte_read + 1] = w]
       /\ byte_read' = byte_read + 1
       /\ UNCHANGED <<selected_drive, to_send, byte_sent, sending>>

\* data_inw: the word, and the step.
NextWord == IF byte_sent >= BlockWords THEN Zero ELSE to_send[byte_sent + 1]
DataInw ==
  IF byte_sent >= BlockWords THEN UNCHANGED drive
  ELSE /\ sending' = TRUE /\ byte_sent' = byte_sent + 1
       /\ UNCHANGED <<selected_drive, curr_pkt, byte_read, to_send, receiving>>

Lba(p) == p[2] * WordSize + p[3]

\* lba * 2048 is a sum of 32 bits: beyond OffsetBlocks it starts again.
Offset(lba) == IF lba < OffsetBlocks THEN lba ELSE lba % OffsetBlocks

\* Mutant: the position of the file is not set.
Sought_Stays(ok, b) == file_pos

\* What lseek may answer, and where it leaves the file: where it was when it
\* fails, perhaps behind the end when it does not.
Seek == IF DiskFails THEN BOOLEAN ELSE {TRUE}
Sought(ok, b) == IF ok THEN b * BlockWords ELSE file_pos

\* How many words of a block read(2) may store from there on: what the disc
\* has, or less.
Left(from) ==
  IF from >= DiskWords THEN 0
  ELSE IF DiskWords - from < BlockWords THEN DiskWords - from ELSE BlockWords
Stored(from) == IF DiskFails THEN 0..Left(from) ELSE {Left(from)}

\* handle_scsi_packet: another command is not an error to the guest, nor is a
\* disc that fails.
HandlePacket ==
  IF curr_pkt[1] \notin Reads
  THEN UNCHANGED <<to_send, byte_sent, file_pos>> /\ failed' = FALSE
  ELSE \E ok \in Seek :
         LET from == Sought(ok, Offset(Lba(curr_pkt))) IN
         \E n \in Stored(from) :
           /\ to_send' = [k \in 1..BlockWords |-> IF k <= n THEN from + k
                                                  ELSE to_send[k]]
           /\ file_pos' = from + n /\ byte_sent' = 0
           /\ failed' = (~ok \/ n < BlockWords)

\* Mutant: no drive but the selected one is told apart.
SectorCount_AnyDrive ==
  IF sending THEN Complete ELSE IF receiving THEN Transmit ELSE Await

\* signature_inb on the primary bus: what it answers.
SectorCount ==
  IF selected_drive # "master" THEN 0
  ELSE IF sending THEN Complete ELSE IF receiving THEN Transmit ELSE Await

\* Mutant: the transfer stays open after its end.
SectorCountInb_KeepsSending ==
  IF SectorCount = Complete
  THEN /\ byte_sent' = 0
       /\ UNCHANGED <<selected_drive, curr_pkt, byte_read, to_send, receiving, sending,
                      disc>>
  ELSE IF SectorCount = Transmit
  THEN /\ HandlePacket /\ byte_read' = 0 /\ receiving' = FALSE
       /\ UNCHANGED <<selected_drive, curr_pkt, sending>>
  ELSE UNCHANGED <<drive, disc>>

\* Mutant: the next packet does not start at its first word.
SectorCountInb_KeepsRead ==
  IF SectorCount = Complete
  THEN /\ byte_sent' = 0 /\ sending' = FALSE
       /\ UNCHANGED <<selected_drive, curr_pkt, byte_read, to_send, receiving, disc>>
  ELSE IF SectorCount = Transmit
  THEN /\ HandlePacket /\ receiving' = FALSE
       /\ UNCHANGED <<selected_drive, curr_pkt, byte_read, sending>>
  ELSE UNCHANGED <<drive, disc>>

\* signature_inb on the primary bus: what it does.
SectorCountInb ==
  IF SectorCount = Complete
  THEN /\ byte_sent' = 0 /\ sending' = FALSE
       /\ UNCHANGED <<selected_drive, curr_pkt, byte_read, to_send, receiving, disc>>
  ELSE IF SectorCount = Transmit
  THEN /\ HandlePacket /\ byte_read' = 0 /\ receiving' = FALSE
       /\ UNCHANGED <<selected_drive, curr_pkt, sending>>
  ELSE UNCHANGED <<drive, disc>>
-----------------------------------------------------------------------------
(***************************************************************************)
(* The driver: it selects the drive, waits until it awaits a command,      *)
(* sends the packet, waits for the transfer, reads the block and waits for *)
(* completion.  It may be stopped anywhere and start again from nothing.   *)
(***************************************************************************)
Begin(p) ==
  /\ drv.at = "idle"
  /\ SelectOutb("master")
  /\ drv' = [Idle(drv.dirty) EXCEPT !.at = "await", !.pkt = p]
  /\ UNCHANGED disc

\* One read of the sector count; the driver goes on when it is as expected.
Poll(at, expected, next) ==
  /\ drv.at = at
  /\ SectorCountInb
  /\ drv' = IF SectorCount = expected THEN next ELSE drv

Awaited == [drv EXCEPT !.at = "send", !.dirty = FALSE]

Send ==
  /\ drv.at = "send"
  /\ DataOutw(drv.pkt[drv.sent + 1])
  /\ drv' = [drv EXCEPT !.at = IF drv.sent + 1 = PacketWords THEN "transmit" ELSE "send",
                        !.sent = drv.sent + 1]
  /\ UNCHANGED disc

\* A command that transfers nothing has been answered.
Answered == IF drv.pkt[1] \in Reads THEN [drv EXCEPT !.at = "read"] ELSE Idle(FALSE)

Read ==
  /\ drv.at = "read"
  /\ DataInw
  /\ drv' = [drv EXCEPT !.at = IF Len(drv.data) + 1 = BlockWords THEN "complete" ELSE "read",
                        !.data = Append(drv.data, NextWord)]
  /\ UNCHANGED disc

Drives ==
  \/ Poll("await", Await, Awaited)
  \/ Send
  \/ Poll("transmit", Transmit, Answered)
  \/ Read
  \/ Poll("complete", Complete, Idle(FALSE))

GiveUp ==
  /\ drv.at \in {"await", "send", "transmit", "read", "complete"}
  /\ drv' = Idle(TRUE)
  /\ UNCHANGED <<drive, disc>>

\* Data register accesses that belong to no command.
StrayRead ==
  /\ drv.at = "idle" /\ DataInw
  /\ drv' = Idle(TRUE) /\ UNCHANGED disc

StrayWrite(w) ==
  /\ drv.at = "idle" /\ DataOutw(w)
  /\ drv' = Idle(TRUE) /\ UNCHANGED disc

\* A probe selects a drive and reads the signature.  The handlers of the
\* secondary bus answer 0.
ProbeSelect(bus, d) ==
  /\ drv.at = "idle"
  /\ SelectOutb(d)
  /\ drv' = [drv EXCEPT !.at = "probe", !.bus = bus]
  /\ UNCHANGED disc

ProbeRead ==
  /\ drv.at = "probe"
  /\ IF drv.bus = "primary" THEN SectorCountInb ELSE UNCHANGED <<drive, disc>>
  /\ drv' = [drv EXCEPT !.at = "found",
                        !.answer = IF drv.bus = "primary" THEN SectorCount ELSE 0]

Probed ==
  /\ drv.at = "found"
  /\ drv' = Idle(drv.dirty) /\ UNCHANGED <<drive, disc>>

Next ==
  \/ \E p \in PacketT : Begin(p)
  \/ Drives
  \/ GiveUp \/ StrayRead \/ ProbeRead \/ Probed
  \/ \E w \in Word : StrayWrite(w)
  \/ \E bus \in Bus, d \in Drive : ProbeSelect(bus, d)

Spec == Init /\ [][Next]_vars

\* The driver keeps polling, sending and reading.
FairSpec == Spec /\ WF_vars(Drives \/ ProbeRead \/ Probed)
-----------------------------------------------------------------------------
(***************************************************************************)
(* Whatever the guest does, "a packet has begun" and "a block is being     *)
(* read" say what the counters say: handle_scsi_packet, which sets one     *)
(* counter only, and the two answers, which clear one pair each, never     *)
(* leave a flag without its counter, with which the next packet would be   *)
(* executed without its first words or a block be read from its middle.    *)
(***************************************************************************)
TransferOpen == (sending <=> byte_sent > 0) /\ (receiving <=> byte_read > 0)

(***************************************************************************)
(* The driver reads the block it asked for, word by word, whatever it or   *)
(* another program left behind before: half a packet, half a block, a      *)
(* command that is not supported, another drive selected, a disc file left *)
(* anywhere by a read that came short or a seek that failed.  Two cases    *)
(* are excepted, in both of which the guest gets other words without being *)
(* told: lseek and read returned less than they were asked for in this     *)
(* very command, and a block whose offset does not fit in 32 bits.         *)
(***************************************************************************)
ReadsTheBlock ==
  drv.at \in {"read", "complete"} /\ ~failed /\ Lba(drv.pkt) < OffsetBlocks =>
    \A k \in 1..Len(drv.data) : drv.data[k] = Block(Lba(drv.pkt))[k]

(***************************************************************************)
(* "Only supporting one drive on PRIMARY PORT MASTER": a probe finds a     *)
(* drive there, unless a command was left unfinished, and nowhere else.    *)
(* A probe reads right after it has selected: one that selects on the      *)
(* other bus in between meets selected_drive, which both share.            *)
(***************************************************************************)
ProbeFindsMaster ==
  drv.at = "found" =>
    LET there == drv.bus = "primary" /\ selected_drive = "master" IN
    /\ drv.answer # 0 => there
    /\ there /\ ~drv.dirty => drv.answer = Await

(***************************************************************************)
(* A driver that polls the sector count gets every answer it waits for.    *)
(***************************************************************************)
CommandEnds == (drv.at # "idle") ~> (drv.at = "idle")
=============================================================================
