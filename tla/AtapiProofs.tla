---------------------------- MODULE AtapiProofs ----------------------------
(***************************************************************************)
(* Theorems about the CD drive of Atapi and the driver that polls it, for  *)
(* packets, blocks and discs of any size.  The invariant says where the    *)
(* drive is for each place the driver is at: what a driver left behind     *)
(* matters until the drive has been seen to await a command, and not any   *)
(* more after that.                                                        *)
(***************************************************************************)
EXTENDS Atapi, TLAPS

Busy == {"await", "send", "transmit", "read", "complete"}

DriveType ==
  /\ selected_drive \in Drive /\ curr_pkt \in PacketT
  /\ byte_read \in 0..PacketWords
  /\ to_send \in [1..BlockWords -> DataT] /\ byte_sent \in 0..BlockWords
  /\ receiving \in BOOLEAN /\ sending \in BOOLEAN

DiscType == file_pos \in Nat /\ failed \in BOOLEAN

Quiet == ~sending /\ ~receiving

\* The disc gave the block asked for, as far as it says itself.
Given == ~failed /\ Lba(drv.pkt) < OffsetBlocks

IdleInv ==
  drv.at \in {"idle", "probe", "found", "await"} /\ ~drv.dirty => Quiet

BusyInv == drv.at \in Busy => selected_drive = "master"

AwaitInv == drv.at = "await" => drv.sent = 0 /\ drv.data = <<>>

SendInv ==
  drv.at = "send" =>
    /\ ~sending /\ drv.sent < PacketWords /\ byte_read = drv.sent
    /\ drv.data = <<>> /\ \A i \in 1..drv.sent : curr_pkt[i] = drv.pkt[i]

TransmitInv ==
  drv.at = "transmit" =>
    ~sending /\ receiving /\ curr_pkt = drv.pkt /\ drv.data = <<>>

ReadInv ==
  drv.at = "read" =>
    /\ ~receiving /\ byte_sent = Len(drv.data) /\ Len(drv.data) < BlockWords
    /\ Given => to_send = Block(Lba(drv.pkt))

CompleteInv ==
  drv.at = "complete" => ~receiving /\ sending /\ Len(drv.data) <= BlockWords

AtapiInv ==
  /\ TypeOK /\ TransferOpen /\ IdleInv /\ BusyInv /\ AwaitInv /\ SendInv
  /\ TransmitInv /\ ReadInv /\ CompleteInv /\ ReadsTheBlock /\ ProbeFindsMaster

-----------------------------------------------------------------------------
(***************************************************************************)
(* The registers.                                                          *)
(***************************************************************************)

\* The parts of the type invariant.
LEMMA TypeParts == TypeOK <=> DriveType /\ drv \in DrvT /\ DiscType
BY DEF TypeOK, DriveType, DiscType, DiscType, disc

\* Two packets are the same when their words are.
LEMMA SamePacket ==
  ASSUME NEW f \in PacketT, NEW g \in PacketT, \A i \in 1..PacketWords : f[i] = g[i]
  PROVE  f = g
<1>1. f = [i \in 1..PacketWords |-> f[i]] /\ g = [i \in 1..PacketWords |-> g[i]]
  BY DEF PacketT
<1>2. [i \in 1..PacketWords |-> f[i]] = [i \in 1..PacketWords |-> g[i]]
  OBVIOUS
<1> QED BY <1>1, <1>2

\* The words of a packet are numbers, and so is the block it asks for.
LEMMA LbaType == \A p \in PacketT : Lba(p) \in Nat
<1>1. SUFFICES ASSUME NEW p \in PacketT PROVE Lba(p) \in Nat
  OBVIOUS
<1>2. 2 \in 1..PacketWords /\ 3 \in 1..PacketWords BY AtapiAssumption, SMT
<1>3. p[2] \in Word /\ p[3] \in Word BY <1>2 DEF PacketT
<1>4. p[2] \in Nat /\ p[3] \in Nat BY <1>3, AtapiAssumption, SMT DEF Word
<1> HIDE <1>3
<1>5. \A a, b, c \in Nat : a * b + c \in Nat BY SMT
<1>6. WordSize \in Nat BY AtapiAssumption
<1> QED BY <1>4, <1>5, <1>6 DEF Lba

\* So is the block the drive reads, wherever its offset wraps.
LEMMA OffsetType == \A lba \in Nat : Offset(lba) \in Nat
<1>1. SUFFICES ASSUME NEW lba \in Nat PROVE lba % OffsetBlocks \in Nat
  BY DEF Offset
<1> QED BY AtapiAssumption, SMT

\* select_outb.
LEMMA SelectKeeps ==
  ASSUME DriveType, TransferOpen, NEW d \in Drive, SelectOutb(d)
  PROVE  DriveType' /\ TransferOpen' /\ selected_drive' = d
BY DEF DriveType, TransferOpen, SelectOutb

\* data_outw.
LEMMA WriteKeeps ==
  ASSUME DriveType, TransferOpen, NEW w \in Word, DataOutw(w)
  PROVE  DriveType' /\ TransferOpen' /\ selected_drive' = selected_drive
<1>1. CASE byte_read > PacketWords - 1
  <2>1. UNCHANGED drive BY <1>1 DEF DataOutw
  <2> QED BY <2>1 DEF drive, DriveType, TransferOpen
<1>2. CASE ~(byte_read > PacketWords - 1)
  <2>1. /\ receiving' = TRUE /\ byte_read' = byte_read + 1
        /\ curr_pkt' = [curr_pkt EXCEPT ![byte_read + 1] = w]
        /\ UNCHANGED <<selected_drive, to_send, byte_sent, sending>>
    BY <1>2 DEF DataOutw
  <2>2. byte_read + 1 \in 1..PacketWords
    BY <1>2, AtapiAssumption, SMT DEF DriveType
  <2>3. curr_pkt' \in PacketT BY <2>1, <2>2 DEF DriveType, PacketT
  <2>4. byte_read' \in 0..PacketWords /\ byte_read' > 0
    BY <2>1, <2>2, AtapiAssumption, SMT DEF DriveType
  <2> QED BY <2>1, <2>3, <2>4 DEF DriveType, TransferOpen
<1> QED BY <1>1, <1>2

\* NULL bytes are data.
LEMMA ZeroType == Zero \in DataT
BY AtapiAssumption, SMT DEF Zero, DataT

\* data_inw.
LEMMA ReadKeeps ==
  ASSUME DriveType, TransferOpen, DataInw
  PROVE  /\ DriveType' /\ TransferOpen' /\ NextWord \in DataT
         /\ UNCHANGED <<selected_drive, receiving, to_send>>
         /\ byte_sent < BlockWords => sending' /\ byte_sent' = byte_sent + 1
<1>1. NextWord \in DataT
  <2>1. CASE byte_sent >= BlockWords BY <2>1, ZeroType DEF NextWord
  <2>2. CASE ~(byte_sent >= BlockWords)
    <3>1. byte_sent + 1 \in 1..BlockWords
      BY <2>2, AtapiAssumption, SMT DEF DriveType
    <3> QED BY <3>1, <2>2 DEF NextWord, DriveType
  <2> QED BY <2>1, <2>2
<1>2. CASE byte_sent >= BlockWords
  <2>1. UNCHANGED drive BY <1>2 DEF DataInw
  <2>2. ~(byte_sent < BlockWords) BY <1>2, AtapiAssumption, SMT DEF DriveType
  <2> QED BY <2>1, <2>2, <1>1 DEF drive, DriveType, TransferOpen
<1>3. CASE ~(byte_sent >= BlockWords)
  <2>1. /\ sending' = TRUE /\ byte_sent' = byte_sent + 1
        /\ UNCHANGED <<selected_drive, curr_pkt, byte_read, to_send, receiving>>
    BY <1>3 DEF DataInw
  <2>2. byte_sent' \in 0..BlockWords /\ byte_sent' > 0
    BY <1>3, <2>1, AtapiAssumption, SMT DEF DriveType
  <2> QED BY <2>1, <2>2, <1>1 DEF DriveType, TransferOpen
<1> QED BY <1>2, <1>3

\* The part of read(2): there are no words behind the end of the disc, and
\* none behind the block.
LEMMA StoredType ==
  ASSUME NEW from \in Nat, NEW n \in Stored(from)
  PROVE  n \in 0..BlockWords /\ (n > 0 => from + n <= DiskWords)
<1>1. /\ Left(from) \in Nat /\ Left(from) <= BlockWords
      /\ Left(from) > 0 => from + Left(from) <= DiskWords
  <2>1. CASE from >= DiskWords BY <2>1, AtapiAssumption, SMT DEF Left
  <2>2. CASE ~(from >= DiskWords) /\ DiskWords - from < BlockWords
    BY <2>2, AtapiAssumption, SMT DEF Left
  <2>3. CASE ~(from >= DiskWords) /\ ~(DiskWords - from < BlockWords)
    BY <2>3, AtapiAssumption, SMT DEF Left
  <2> QED BY <2>1, <2>2, <2>3
<1>2. n \in 0..Left(from)
  <2>1. CASE DiskFails BY <2>1 DEF Stored
  <2>2. CASE ~DiskFails
    <3>1. n = Left(from) BY <2>2 DEF Stored
    <3> QED BY <3>1, <1>1
  <2> QED BY <2>1, <2>2
<1> HIDE DEF Stored
<1> QED BY <1>1, <1>2, AtapiAssumption, SMT

\* handle_scsi_packet: what it leaves is a block of words of the disc, and
\* the block asked for when lseek and read did all they were asked for.
LEMMA HandleKeeps ==
  ASSUME DriveType, DiscType, HandlePacket
  PROVE  /\ to_send' \in [1..BlockWords -> DataT] /\ byte_sent' \in 0..BlockWords
         /\ DiscType'
         /\ byte_sent' \in {0, byte_sent}
         /\ curr_pkt[1] \in Reads => byte_sent' = 0
         /\ curr_pkt[1] \in Reads /\ ~failed' => to_send' = Block(Offset(Lba(curr_pkt)))
<1> DEFINE b == Offset(Lba(curr_pkt))
<1>0. b \in Nat BY LbaType, OffsetType DEF DriveType
<1>1. CASE curr_pkt[1] \notin Reads
  <2>1. UNCHANGED <<to_send, byte_sent, file_pos>> /\ failed' = FALSE
    BY <1>1 DEF HandlePacket
  <2> QED BY <2>1, <1>1 DEF DriveType, DiscType
<1>2. CASE curr_pkt[1] \in Reads
  <2>1. PICK ok \in Seek : \E n \in Stored(Sought(ok, b)) :
          /\ to_send' = [k \in 1..BlockWords |-> IF k <= n THEN Sought(ok, b) + k
                                                 ELSE to_send[k]]
          /\ file_pos' = Sought(ok, b) + n /\ byte_sent' = 0
          /\ failed' = (~ok \/ n < BlockWords)
    BY <1>2 DEF HandlePacket
  <2> DEFINE from == Sought(ok, b)
  <2>2. PICK n \in Stored(from) :
          /\ to_send' = [k \in 1..BlockWords |-> IF k <= n THEN from + k ELSE to_send[k]]
          /\ file_pos' = from + n /\ byte_sent' = 0
          /\ failed' = (~ok \/ n < BlockWords)
    BY <2>1
  <2>3. from \in Nat
    <3>1. BlockWords \in Nat /\ file_pos \in Nat BY AtapiAssumption DEF DiscType
    <3>2. \A x, y \in Nat : x * y \in Nat BY SMT
    <3>3. b * BlockWords \in Nat BY <1>0, <3>1, <3>2
    <3> HIDE DEF b
    <3> QED BY <3>1, <3>3 DEF Sought
  <2> HIDE DEF from, b
  <2>4. n \in 0..BlockWords /\ (n > 0 => from + n <= DiskWords)
    BY <2>2, <2>3, StoredType
  <2>5. ASSUME NEW k \in 1..BlockWords
        PROVE (IF k <= n THEN from + k ELSE to_send[k]) \in DataT
    <3>1. CASE k <= n
      <4>1. from + k \in 0..DiskWords
        BY <3>1, <2>3, <2>4, AtapiAssumption, SMT
      <4> QED BY <4>1, <3>1 DEF DataT
    <3>2. CASE ~(k <= n) BY <3>2 DEF DriveType
    <3> QED BY <3>1, <3>2
  <2>6. to_send' \in [1..BlockWords -> DataT] BY <2>2, <2>5
  <2>7. ASSUME ~failed' PROVE to_send' = Block(b)
    <3>1. ok /\ ~(n < BlockWords) BY <2>2, <2>7
    <3>2. from = b * BlockWords BY <3>1 DEF from, Sought
    <3>3. \A k \in 1..BlockWords : k <= n
      BY <3>1, <2>4, AtapiAssumption, SMT
    <3>4. to_send' = [k \in 1..BlockWords |-> from + k] BY <3>3, <2>2
    <3> QED BY <3>2, <3>4 DEF Block
  <2>8. byte_sent' \in 0..BlockWords BY <2>2, AtapiAssumption, SMT
  <2>9. DiscType'
    <3>1. file_pos' \in Nat BY <2>2, <2>3, <2>4, SMT
    <3> QED BY <3>1, <2>2 DEF DiscType
  <2> QED BY <2>2, <2>6, <2>7, <2>8, <2>9 DEF b
<1> QED BY <1>1, <1>2

\* What the sector count says.
LEMMA CountSays ==
  /\ SectorCount \in Answer
  /\ SectorCount # 0 => selected_drive = "master"
  /\ SectorCount = Await => Quiet
  /\ SectorCount = Transmit => ~sending
  /\ selected_drive = "master" => /\ sending => SectorCount = Complete
                                  /\ ~sending /\ receiving => SectorCount = Transmit
                                  /\ Quiet => SectorCount = Await
BY SMT DEF SectorCount, Answer, Await, Transmit, Complete, Quiet

\* signature_inb on the sector count.
LEMMA CountKeeps ==
  ASSUME DriveType, TransferOpen, DiscType, SectorCountInb
  PROVE  /\ DriveType' /\ TransferOpen' /\ DiscType'
         /\ UNCHANGED <<selected_drive, curr_pkt>>
         /\ Quiet => Quiet'
         /\ SectorCount = Complete => ~sending' /\ receiving' = receiving
         /\ SectorCount = Transmit => /\ HandlePacket /\ ~receiving'
                                      /\ sending' = sending
         /\ SectorCount \notin {Complete, Transmit} => UNCHANGED <<drive, disc>>
<1>0. Complete # Transmit BY DEF Complete, Transmit
<1>1. CASE SectorCount = Complete
  <2>1. /\ byte_sent' = 0 /\ sending' = FALSE
        /\ UNCHANGED <<selected_drive, curr_pkt, byte_read, to_send, receiving, disc>>
    BY <1>1 DEF SectorCountInb
  <2>2. byte_sent' \in 0..BlockWords /\ ~(byte_sent' > 0)
    BY <2>1, AtapiAssumption, SMT
  <2> QED BY <2>1, <2>2, <1>0, <1>1 DEF DriveType, DiscType, disc, TransferOpen, Quiet
<1>2. CASE SectorCount = Transmit
  <2>1. /\ HandlePacket /\ byte_read' = 0 /\ receiving' = FALSE
        /\ UNCHANGED <<selected_drive, curr_pkt, sending>>
    BY <1>2, <1>0 DEF SectorCountInb
  <2>2. byte_read' \in 0..PacketWords /\ ~(byte_read' > 0)
    BY <2>1, AtapiAssumption, SMT
  <2>3. /\ to_send' \in [1..BlockWords -> DataT] /\ byte_sent' \in 0..BlockWords
        /\ DiscType' /\ byte_sent' \in {0, byte_sent}
    BY <2>1, HandleKeeps
  <2>4. ~sending BY <1>2, CountSays
  <2>5. ~(byte_sent' > 0)
    <3>1. ~(byte_sent > 0) BY <2>4 DEF TransferOpen
    <3> QED BY <3>1, <2>3, SMT
  <2> QED BY <2>1, <2>2, <2>3, <2>4, <2>5, <1>0, <1>2 DEF DriveType, DiscType, disc, TransferOpen, Quiet
<1>3. CASE SectorCount \notin {Complete, Transmit}
  <2>1. UNCHANGED <<drive, disc>> BY <1>3 DEF SectorCountInb
  <2> QED BY <2>1, <1>3 DEF drive, disc, DriveType, DiscType, TransferOpen, Quiet
<1> QED BY <1>1, <1>2, <1>3
-----------------------------------------------------------------------------
(***************************************************************************)
(* The driver.                                                             *)
(***************************************************************************)
Driver(at, pkt, sent, data, bus, answer, dirty) ==
  [at |-> at, pkt |-> pkt, sent |-> sent, data |-> data, bus |-> bus,
   answer |-> answer, dirty |-> dirty]

At == {"idle", "probe", "found", "await", "send", "transmit", "read", "complete"}

\* A driver with fields of the right types.
LEMMA DriverType ==
  ASSUME NEW at \in At, NEW pkt \in PacketT, NEW sent \in 0..PacketWords,
         NEW data \in Seq(DataT), NEW bus \in Bus, NEW answer \in Answer,
         NEW dirty \in BOOLEAN
  PROVE  Driver(at, pkt, sent, data, bus, answer, dirty) \in DrvT
BY DEF Driver, DrvT, At

LEMMA DriverFields ==
  ASSUME NEW d \in DrvT
  PROVE  /\ d.at \in At /\ d.pkt \in PacketT /\ d.sent \in 0..PacketWords
         /\ d.data \in Seq(DataT) /\ d.bus \in Bus /\ d.answer \in Answer
         /\ d.dirty \in BOOLEAN
BY DEF DrvT, At

LEMMA DriverParts ==
  ASSUME NEW at, NEW pkt, NEW sent, NEW data, NEW bus, NEW answer, NEW dirty,
         NEW d, d = Driver(at, pkt, sent, data, bus, answer, dirty)
  PROVE  /\ d.at = at /\ d.pkt = pkt /\ d.sent = sent /\ d.data = data
         /\ d.bus = bus /\ d.answer = answer /\ d.dirty = dirty
BY DEF Driver

\* The driver between commands.
LEMMA IdleType ==
  ASSUME NEW dirty \in BOOLEAN
  PROVE  /\ Idle(dirty) = Driver("idle", NoPacket, 0, <<>>, "primary", 0, dirty)
         /\ Idle(dirty) \in DrvT
<1>1. Idle(dirty) = Driver("idle", NoPacket, 0, <<>>, "primary", 0, dirty)
  BY DEF Idle, Driver
<1>2. NoPacket \in PacketT BY AtapiAssumption, SMT DEF NoPacket, PacketT, Word
<1>3. 0 \in 0..PacketWords BY AtapiAssumption, SMT
<1>4. <<>> \in Seq(DataT) /\ "primary" \in Bus /\ 0 \in Answer /\ "idle" \in At
  BY DEF Bus, Answer, At
<1>5. Driver("idle", NoPacket, 0, <<>>, "primary", 0, dirty) \in DrvT
  BY <1>2, <1>3, <1>4, DriverType
<1> QED BY <1>1, <1>5

\* A driver that is idle again has left the drive quiet, or says that it
\* has not.
LEMMA BecomesIdle ==
  ASSUME DriveType', TransferOpen', DiscType',
         NEW dirty \in BOOLEAN, drv' = Idle(dirty), ~dirty => Quiet'
  PROVE  AtapiInv'
<1>1. drv' \in DrvT BY IdleType
<1>2. drv'.at = "idle" /\ drv'.dirty = dirty BY IdleType, DriverParts
<1>3. TypeOK' BY <1>1, TypeParts DEF TypeOK, DriveType, DiscType, disc
<1>4. IdleInv' BY <1>2 DEF IdleInv
<1>5. /\ BusyInv' /\ AwaitInv' /\ SendInv' /\ TransmitInv' /\ ReadInv' /\ CompleteInv'
      /\ ReadsTheBlock' /\ ProbeFindsMaster'
  BY <1>2 DEF BusyInv, AwaitInv, SendInv, TransmitInv, ReadInv, CompleteInv,
              ReadsTheBlock, ProbeFindsMaster, Busy
<1> QED BY <1>3, <1>4, <1>5 DEF AtapiInv

LEMMA InvParts ==
  ASSUME AtapiInv
  PROVE  DriveType /\ TransferOpen /\ drv \in DrvT /\ DiscType
BY TypeParts DEF AtapiInv

LEMMA BeginKeeps ==
  ASSUME AtapiInv, NEW p \in PacketT, Begin(p)
  PROVE  AtapiInv'
<1>1. drv.at = "idle" /\ SelectOutb("master") /\ UNCHANGED disc BY DEF Begin
<1>2. DriveType' /\ TransferOpen' /\ selected_drive' = "master"
  BY <1>1, InvParts, SelectKeeps DEF Drive
<1>3. drv.dirty \in BOOLEAN BY InvParts, DriverFields
<1>4. drv' = Driver("await", p, 0, <<>>, "primary", 0, drv.dirty)
  <2>1. drv' = [Idle(drv.dirty) EXCEPT !.at = "await", !.pkt = p] BY DEF Begin
  <2> QED BY <2>1 DEF Idle, Driver
<1>5. /\ drv'.at = "await" /\ drv'.pkt = p /\ drv'.sent = 0 /\ drv'.data = <<>>
      /\ drv'.dirty = drv.dirty
  BY <1>4, DriverParts
<1>6. drv' \in DrvT
  <2>2. 0 \in 0..PacketWords BY AtapiAssumption, SMT
  <2>3. <<>> \in Seq(DataT) /\ "primary" \in Bus /\ 0 \in Answer /\ "await" \in At
    BY DEF Bus, Answer, At
  <2> QED BY <1>3, <1>4, <2>2, <2>3, DriverType
<1>7. TypeOK' BY <1>1, <1>2, <1>6, InvParts DEF TypeOK, DriveType, DiscType, disc
<1>8. IdleInv'
  <2>1. ~drv.dirty => Quiet BY <1>1 DEF AtapiInv, IdleInv
  <2>2. Quiet => Quiet' BY <1>1 DEF SelectOutb, Quiet
  <2> QED BY <2>1, <2>2, <1>5 DEF IdleInv
<1>9. BusyInv' /\ AwaitInv' BY <1>2, <1>5 DEF BusyInv, AwaitInv
<1>10. /\ SendInv' /\ TransmitInv' /\ ReadInv' /\ CompleteInv'
       /\ ReadsTheBlock' /\ ProbeFindsMaster'
  BY <1>5 DEF SendInv, TransmitInv, ReadInv, CompleteInv, ReadsTheBlock, ProbeFindsMaster
<1> QED BY <1>2, <1>7, <1>8, <1>9, <1>10 DEF AtapiInv

LEMMA PollAwaitKeeps ==
  ASSUME AtapiInv, Poll("await", Await, Awaited)
  PROVE  AtapiInv'
<1>1. drv.at = "await" /\ SectorCountInb BY DEF Poll
<1>2. /\ DriveType' /\ TransferOpen' /\ DiscType'
      /\ UNCHANGED <<selected_drive, curr_pkt>> /\ (Quiet => Quiet')
  BY <1>1, InvParts, CountKeeps
<1>3. selected_drive = "master" BY <1>1 DEF AtapiInv, BusyInv, Busy
<1>4. drv.sent = 0 /\ drv.data = <<>> BY <1>1 DEF AtapiInv, AwaitInv
<1>5. CASE SectorCount = Await
  <2>1. Quiet' BY <1>2, <1>5, CountSays
  <2>2. SectorCount \notin {Complete, Transmit}
    BY <1>5 DEF Await, Complete, Transmit
  <2>3. UNCHANGED <<drive, disc>> BY <1>1, <2>2, InvParts, CountKeeps
  <2>4. drv' = Driver("send", drv.pkt, drv.sent, drv.data, drv.bus, drv.answer, FALSE)
    <3>1. drv' = [drv EXCEPT !.at = "send", !.dirty = FALSE] BY <1>5 DEF Poll, Awaited
    <3> QED BY <3>1, InvParts DEF Driver, DrvT
  <2>5. /\ drv'.at = "send" /\ drv'.pkt = drv.pkt /\ drv'.sent = 0 /\ drv'.data = <<>>
    <3>1. drv'.at = "send" /\ drv'.pkt = drv.pkt /\ drv'.sent = drv.sent
          /\ drv'.data = drv.data
      BY <2>4 DEF Driver
    <3> QED BY <3>1, <1>4
  <2>6. drv' \in DrvT
    <3>1. "send" \in At BY DEF At
    <3> QED BY <3>1, <2>4, InvParts, DriverFields, DriverType
  <2>7. TypeOK' BY <1>2, <2>6 DEF TypeOK, DriveType, DiscType, disc
  <2>8. BusyInv' BY <1>2, <1>3, <2>5 DEF BusyInv
  <2>9. SendInv'
    <3>1. ~(byte_read' > 0) BY <1>2, <2>1 DEF TransferOpen, Quiet
    <3>2. byte_read' = 0 BY <3>1, <1>2, AtapiAssumption, SMT DEF DriveType
    <3>3. 0 < PacketWords /\ 1..0 = {} BY AtapiAssumption, SMT
    <3> QED BY <2>1, <2>5, <3>2, <3>3 DEF SendInv, Quiet
  <2>10. /\ IdleInv' /\ AwaitInv' /\ TransmitInv' /\ ReadInv' /\ CompleteInv'
         /\ ReadsTheBlock' /\ ProbeFindsMaster'
    BY <2>5 DEF IdleInv, AwaitInv, TransmitInv, ReadInv, CompleteInv, ReadsTheBlock,
                ProbeFindsMaster
  <2> QED BY <1>2, <2>7, <2>8, <2>9, <2>10 DEF AtapiInv
<1>6. CASE SectorCount # Await
  <2>1. drv' = drv BY <1>6 DEF Poll
  <2>2. TypeOK' BY <1>2, <2>1, InvParts DEF TypeOK, DriveType, DiscType, disc
  <2>3. IdleInv' BY <1>1, <1>2, <2>1 DEF AtapiInv, IdleInv
  <2>4. BusyInv' /\ AwaitInv' BY <1>2, <1>3, <1>4, <2>1 DEF BusyInv, AwaitInv
  <2>5. /\ SendInv' /\ TransmitInv' /\ ReadInv' /\ CompleteInv'
        /\ ReadsTheBlock' /\ ProbeFindsMaster'
    BY <1>1, <2>1 DEF SendInv, TransmitInv, ReadInv, CompleteInv, ReadsTheBlock,
                      ProbeFindsMaster
  <2> QED BY <1>2, <2>2, <2>3, <2>4, <2>5 DEF AtapiInv
<1> QED BY <1>5, <1>6

LEMMA SendKeeps ==
  ASSUME AtapiInv, Send
  PROVE  AtapiInv'
<1> DEFINE n == drv.sent
           next == IF n + 1 = PacketWords THEN "transmit" ELSE "send"
<1>1. drv.at = "send" /\ DataOutw(drv.pkt[n + 1]) /\ UNCHANGED disc BY DEF Send
<1>2. selected_drive = "master" BY <1>1 DEF AtapiInv, BusyInv, Busy
<1>3. /\ ~sending /\ n < PacketWords /\ byte_read = n /\ drv.data = <<>>
      /\ \A i \in 1..n : curr_pkt[i] = drv.pkt[i]
  BY <1>1 DEF AtapiInv, SendInv
<1>4. drv.pkt \in PacketT /\ n \in 0..PacketWords BY InvParts, DriverFields
<1>5. n + 1 \in 1..PacketWords /\ n + 1 \in 0..PacketWords /\ n \in Nat
  BY <1>3, <1>4, AtapiAssumption, SMT
<1>6. drv.pkt[n + 1] \in Word BY <1>4, <1>5 DEF PacketT
<1>7. DriveType' /\ TransferOpen' /\ selected_drive' = "master"
  BY <1>1, <1>2, <1>6, InvParts, WriteKeeps
<1>8. ~(byte_read > PacketWords - 1) BY <1>3, <1>5, AtapiAssumption, SMT
<1>9. /\ receiving' = TRUE /\ byte_read' = n + 1 /\ sending' = sending
      /\ curr_pkt' = [curr_pkt EXCEPT ![n + 1] = drv.pkt[n + 1]]
  BY <1>1, <1>3, <1>8 DEF DataOutw
<1>10. \A i \in 1..(n + 1) : curr_pkt'[i] = drv.pkt[i]
  <2>1. SUFFICES ASSUME NEW i \in 1..(n + 1) PROVE curr_pkt'[i] = drv.pkt[i] OBVIOUS
  <2>2. i \in 1..PacketWords /\ (i = n + 1 \/ i \in 1..n)
    BY <1>5, AtapiAssumption, SMT
  <2>3. curr_pkt \in [1..PacketWords -> Word] BY InvParts DEF DriveType, PacketT
  <2>4. i = n + 1 => curr_pkt'[i] = drv.pkt[i] BY <1>9, <2>2, <2>3
  <2>5. i # n + 1 => curr_pkt'[i] = curr_pkt[i] BY <1>9, <2>2, <2>3
  <2> QED BY <1>3, <2>2, <2>4, <2>5
<1>11. drv' = Driver(next, drv.pkt, n + 1, drv.data, drv.bus, drv.answer, drv.dirty)
  <2>1. drv' = [drv EXCEPT !.at = next, !.sent = n + 1] BY DEF Send
  <2> HIDE DEF next, n
  <2> QED BY <2>1, InvParts DEF Driver, DrvT
<1>12. /\ drv'.at = next /\ drv'.pkt = drv.pkt /\ drv'.sent = n + 1 /\ drv'.data = <<>>
  <2> HIDE DEF next, n
  <2> QED BY <1>11, <1>3, DriverParts
<1>13. drv' \in DrvT
  <2>1. next \in At BY DEF At
  <2> HIDE DEF next, n
  <2> QED BY <2>1, <1>5, <1>11, InvParts, DriverFields, DriverType
<1>14. TypeOK' BY <1>1, <1>7, <1>13, InvParts DEF TypeOK, DriveType, DiscType, disc
<1>15. BusyInv' BY <1>2, <1>7, <1>12 DEF BusyInv
<1>16. SendInv'
  <2>1. next = "send" => n + 1 < PacketWords
    BY <1>5, AtapiAssumption, SMT
  <2> QED BY <2>1, <1>3, <1>9, <1>10, <1>12 DEF SendInv
<1>17. TransmitInv'
  <2>1. SUFFICES ASSUME next = "transmit"
                 PROVE ~sending' /\ receiving' /\ curr_pkt' = drv.pkt
    BY <1>3, <1>12 DEF TransmitInv
  <2>2. n + 1 = PacketWords BY <2>1
  <2>3. \A i \in 1..PacketWords : curr_pkt'[i] = drv.pkt[i] BY <2>2, <1>10
  <2>4. curr_pkt' = drv.pkt
    <3> DEFINE f == curr_pkt'
               g == drv.pkt
    <3>1. f \in PacketT /\ g \in PacketT BY <1>4, <1>7 DEF DriveType
    <3>2. \A i \in 1..PacketWords : f[i] = g[i] BY <2>3
    <3> HIDE DEF f, g
    <3>3. f = g BY <3>1, <3>2, SamePacket
    <3> QED BY <3>3 DEF f, g
  <2> QED BY <2>4, <1>3, <1>9
<1>18. /\ IdleInv' /\ AwaitInv' /\ ReadInv' /\ CompleteInv' /\ ReadsTheBlock'
       /\ ProbeFindsMaster'
  BY <1>12 DEF IdleInv, AwaitInv, ReadInv, CompleteInv, ReadsTheBlock, ProbeFindsMaster
<1> QED BY <1>7, <1>14, <1>15, <1>16, <1>17, <1>18 DEF AtapiInv

LEMMA PollTransmitKeeps ==
  ASSUME AtapiInv, Poll("transmit", Transmit, Answered)
  PROVE  AtapiInv'
<1>1. drv.at = "transmit" /\ SectorCountInb BY DEF Poll
<1>2. /\ DriveType' /\ TransferOpen' /\ DiscType'
      /\ UNCHANGED <<selected_drive, curr_pkt>>
  BY <1>1, InvParts, CountKeeps
<1>3. selected_drive = "master" BY <1>1 DEF AtapiInv, BusyInv, Busy
<1>4. ~sending /\ receiving /\ curr_pkt = drv.pkt /\ drv.data = <<>>
  BY <1>1 DEF AtapiInv, TransmitInv
<1>5. SectorCount = Transmit BY <1>3, <1>4, CountSays
<1>6. HandlePacket /\ ~receiving' /\ sending' = sending
  BY <1>1, <1>5, InvParts, CountKeeps
<1>7. drv' = Answered BY <1>5 DEF Poll
<1>8. CASE drv.pkt[1] \notin Reads
  <2>1. drv' = Idle(FALSE) BY <1>7, <1>8 DEF Answered
  <2>2. Quiet' BY <1>4, <1>6 DEF Quiet
  <2> QED BY <1>2, <2>1, <2>2, BecomesIdle
<1>9. CASE drv.pkt[1] \in Reads
  <2>1. drv' = Driver("read", drv.pkt, drv.sent, drv.data, drv.bus, drv.answer, drv.dirty)
    <3>1. drv' = [drv EXCEPT !.at = "read"] BY <1>7, <1>9 DEF Answered
    <3> QED BY <3>1, InvParts DEF Driver, DrvT
  <2>2. drv'.at = "read" /\ drv'.pkt = drv.pkt /\ drv'.data = drv.data
    BY <2>1, DriverParts
  <2>3. drv' \in DrvT
    <3>1. "read" \in At BY DEF At
    <3> QED BY <3>1, <2>1, InvParts, DriverFields, DriverType
  <2>4. TypeOK' BY <1>2, <2>3 DEF TypeOK, DriveType, DiscType, disc
  <2>5. BusyInv' BY <1>2, <1>3, <2>2 DEF BusyInv
  <2>6. ReadInv'
    <3>1. byte_sent' = 0 /\ (~failed' => to_send' = Block(Offset(Lba(drv.pkt))))
      BY <1>4, <1>6, <1>9, InvParts, HandleKeeps
    <3>2. Lba(drv.pkt) < OffsetBlocks => Offset(Lba(drv.pkt)) = Lba(drv.pkt)
      BY DEF Offset
    <3>3. Len(drv'.data) = 0 BY <1>4, <2>2
    <3>4. 0 < BlockWords BY AtapiAssumption, SMT
    <3> QED BY <3>1, <3>2, <3>3, <3>4, <1>6, <2>2 DEF ReadInv, Given
  <2>7. ReadsTheBlock'
    <3>1. Len(drv'.data) = 0 /\ 1..0 = {} BY <1>4, <2>2
    <3> QED BY <3>1 DEF ReadsTheBlock
  <2>8. /\ IdleInv' /\ AwaitInv' /\ SendInv' /\ TransmitInv' /\ CompleteInv'
        /\ ProbeFindsMaster'
    BY <2>2 DEF IdleInv, AwaitInv, SendInv, TransmitInv, CompleteInv, ProbeFindsMaster
  <2> QED BY <1>2, <2>4, <2>5, <2>6, <2>7, <2>8 DEF AtapiInv
<1> QED BY <1>8, <1>9

LEMMA DriverReadKeeps ==
  ASSUME AtapiInv, Read
  PROVE  AtapiInv'
<1> DEFINE n == Len(drv.data)
           next == IF n + 1 = BlockWords THEN "complete" ELSE "read"
           data == Append(drv.data, NextWord)
<1>1. drv.at = "read" /\ DataInw /\ UNCHANGED disc BY DEF Read
<1>2. selected_drive = "master" BY <1>1 DEF AtapiInv, BusyInv, Busy
<1>3. /\ ~receiving /\ byte_sent = n /\ n < BlockWords
      /\ Given => to_send = Block(Lba(drv.pkt))
  BY <1>1 DEF AtapiInv, ReadInv
<1>4. drv.data \in Seq(DataT) /\ n \in Nat BY InvParts, DriverFields
<1>5. /\ DriveType' /\ TransferOpen' /\ NextWord \in DataT
      /\ UNCHANGED <<selected_drive, receiving, to_send>>
      /\ sending' /\ byte_sent' = n + 1
  BY <1>1, <1>3, InvParts, ReadKeeps
<1>6. /\ data \in Seq(DataT) /\ Len(data) = n + 1 /\ data[n + 1] = NextWord
      /\ \A k \in 1..n : data[k] = drv.data[k]
  BY <1>4, <1>5
<1>7. n + 1 \in 1..BlockWords /\ n + 1 <= BlockWords /\ ~(n >= BlockWords)
  BY <1>3, <1>4, AtapiAssumption, SMT
<1>8. drv' = Driver(next, drv.pkt, drv.sent, data, drv.bus, drv.answer, drv.dirty)
  <2>1. drv' = [drv EXCEPT !.at = next, !.data = data] BY DEF Read
  <2> HIDE DEF next, data
  <2> QED BY <2>1, InvParts DEF Driver, DrvT
<1>9. drv'.at = next /\ drv'.pkt = drv.pkt /\ drv'.data = data
  <2> HIDE DEF next, data
  <2> QED BY <1>8, DriverParts
<1>10. drv' \in DrvT
  <2>1. next \in At BY DEF At
  <2> HIDE DEF next, data
  <2> QED BY <2>1, <1>6, <1>8, InvParts, DriverFields, DriverType
<1>11. TypeOK' BY <1>1, <1>5, <1>10, InvParts DEF TypeOK, DriveType, DiscType, disc
<1>12. BusyInv' BY <1>2, <1>5, <1>9 DEF BusyInv
<1>13. ReadInv'
  <2>1. next = "read" => n + 1 < BlockWords BY <1>4, <1>7, AtapiAssumption, SMT
  <2> HIDE DEF n, data
  <2> QED BY <2>1, <1>1, <1>3, <1>5, <1>6, <1>9 DEF ReadInv, Given, disc
<1>14. CompleteInv'
  <2> HIDE DEF n, data
  <2> QED BY <1>3, <1>5, <1>6, <1>7, <1>9 DEF CompleteInv
<1>15. ReadsTheBlock'
  <2>1. SUFFICES ASSUME Given, NEW k \in 1..(n + 1)
                 PROVE  data[k] = Block(Lba(drv.pkt))[k]
    <3> HIDE DEF n, data
    <3> QED BY <1>1, <1>6, <1>9 DEF ReadsTheBlock, Given, disc
  <2>2. CASE k = n + 1
    <3>1. NextWord = to_send[n + 1] BY <1>3, <1>7 DEF NextWord
    <3>2. to_send = Block(Lba(drv.pkt)) BY <1>3, <2>1
    <3> HIDE DEF n, data
    <3> QED BY <3>1, <3>2, <1>6, <2>2
  <2>3. CASE k # n + 1
    <3>1. k \in 1..n BY <2>3, <1>4
    <3>2. drv.data[k] = Block(Lba(drv.pkt))[k]
      BY <3>1, <2>1, <1>1 DEF AtapiInv, ReadsTheBlock, Given
    <3> HIDE DEF n, data
    <3> QED BY <3>1, <3>2, <1>6
  <2> QED BY <2>2, <2>3
<1>16. IdleInv' /\ AwaitInv' /\ SendInv' /\ TransmitInv' /\ ProbeFindsMaster'
  BY <1>9 DEF IdleInv, AwaitInv, SendInv, TransmitInv, ProbeFindsMaster
<1> QED BY <1>5, <1>11, <1>12, <1>13, <1>14, <1>15, <1>16 DEF AtapiInv

LEMMA PollCompleteKeeps ==
  ASSUME AtapiInv, Poll("complete", Complete, Idle(FALSE))
  PROVE  AtapiInv'
<1>1. drv.at = "complete" /\ SectorCountInb BY DEF Poll
<1>2. DriveType' /\ TransferOpen' /\ DiscType'
  BY <1>1, InvParts, CountKeeps
<1>3. selected_drive = "master" /\ ~receiving /\ sending
  BY <1>1 DEF AtapiInv, BusyInv, Busy, CompleteInv
<1>4. SectorCount = Complete BY <1>3, CountSays
<1>5. drv' = Idle(FALSE) BY <1>4 DEF Poll
<1>6. Quiet' BY <1>1, <1>3, <1>4, InvParts, CountKeeps DEF Quiet
<1> QED BY <1>2, <1>5, <1>6, BecomesIdle

\* A driver that stops, and accesses that belong to no command: the driver
\* that comes next does not know where the drive is.
LEMMA StraysKeep ==
  ASSUME AtapiInv, GiveUp \/ StrayRead \/ \E w \in Word : StrayWrite(w)
  PROVE  AtapiInv'
<1>1. drv' = Idle(TRUE) /\ UNCHANGED disc BY DEF GiveUp, StrayRead, StrayWrite
<1>2. DiscType' BY <1>1, InvParts DEF disc, DiscType
<1>3. DriveType' /\ TransferOpen'
  <2>1. CASE GiveUp
    <3>1. UNCHANGED drive BY <2>1 DEF GiveUp
    <3> QED BY <3>1, InvParts DEF drive, DriveType, TransferOpen
  <2>2. CASE StrayRead
    <3>1. DataInw BY <2>2 DEF StrayRead
    <3> QED BY <3>1, InvParts, ReadKeeps
  <2>3. CASE \E w \in Word : StrayWrite(w)
    <3>1. PICK w \in Word : DataOutw(w) BY <2>3 DEF StrayWrite
    <3> QED BY <3>1, InvParts, WriteKeeps
  <2> QED BY <2>1, <2>2, <2>3
<1> QED BY <1>1, <1>2, <1>3, BecomesIdle

LEMMA ProbeSelectKeeps ==
  ASSUME AtapiInv, NEW bus \in Bus, NEW d \in Drive, ProbeSelect(bus, d)
  PROVE  AtapiInv'
<1>1. drv.at = "idle" /\ SelectOutb(d) /\ UNCHANGED disc BY DEF ProbeSelect
<1>2. DriveType' /\ TransferOpen' BY <1>1, InvParts, SelectKeeps
<1>3. drv' = Driver("probe", drv.pkt, drv.sent, drv.data, bus, drv.answer, drv.dirty)
  <2>1. drv' = [drv EXCEPT !.at = "probe", !.bus = bus] BY DEF ProbeSelect
  <2> QED BY <2>1, InvParts DEF Driver, DrvT
<1>4. drv'.at = "probe" /\ drv'.dirty = drv.dirty BY <1>3, DriverParts
<1>5. drv' \in DrvT
  <2>1. "probe" \in At BY DEF At
  <2> QED BY <2>1, <1>3, InvParts, DriverFields, DriverType
<1>6. TypeOK' BY <1>1, <1>2, <1>5, InvParts DEF TypeOK, DriveType, DiscType, disc
<1>7. IdleInv'
  <2>1. ~drv.dirty => Quiet BY <1>1 DEF AtapiInv, IdleInv
  <2>2. Quiet => Quiet' BY <1>1 DEF SelectOutb, Quiet
  <2> QED BY <2>1, <2>2, <1>4 DEF IdleInv
<1>8. /\ BusyInv' /\ AwaitInv' /\ SendInv' /\ TransmitInv' /\ ReadInv' /\ CompleteInv'
      /\ ReadsTheBlock' /\ ProbeFindsMaster'
  BY <1>4 DEF BusyInv, AwaitInv, SendInv, TransmitInv, ReadInv, CompleteInv,
              ReadsTheBlock, ProbeFindsMaster, Busy
<1> QED BY <1>2, <1>6, <1>7, <1>8 DEF AtapiInv

LEMMA ProbeReadKeeps ==
  ASSUME AtapiInv, ProbeRead
  PROVE  AtapiInv'
<1> DEFINE answer == IF drv.bus = "primary" THEN SectorCount ELSE 0
<1>1. drv.at = "probe" BY DEF ProbeRead
<1>2. /\ DriveType' /\ TransferOpen' /\ DiscType'
      /\ selected_drive' = selected_drive /\ (Quiet => Quiet')
  <2>1. CASE drv.bus = "primary"
    <3>1. SectorCountInb BY <2>1 DEF ProbeRead
    <3> QED BY <3>1, InvParts, CountKeeps
  <2>2. CASE drv.bus # "primary"
    <3>1. UNCHANGED <<drive, disc>> BY <2>2 DEF ProbeRead
    <3> QED BY <3>1, InvParts DEF drive, disc, DriveType, DiscType, TransferOpen, Quiet
  <2> QED BY <2>1, <2>2
<1>3. answer \in Answer BY CountSays DEF Answer
<1>4. drv' = Driver("found", drv.pkt, drv.sent, drv.data, drv.bus, answer, drv.dirty)
  <2>1. drv' = [drv EXCEPT !.at = "found", !.answer = answer] BY DEF ProbeRead
  <2> HIDE DEF answer
  <2> QED BY <2>1, InvParts DEF Driver, DrvT
<1>5. /\ drv'.at = "found" /\ drv'.bus = drv.bus /\ drv'.answer = answer
      /\ drv'.dirty = drv.dirty
  <2> HIDE DEF answer
  <2> QED BY <1>4, DriverParts
<1>6. drv' \in DrvT
  <2>1. "found" \in At BY DEF At
  <2> HIDE DEF answer
  <2> QED BY <2>1, <1>3, <1>4, InvParts, DriverFields, DriverType
<1>7. TypeOK' BY <1>2, <1>6 DEF TypeOK, DriveType, DiscType, disc
<1>8. ~drv.dirty => Quiet BY <1>1 DEF AtapiInv, IdleInv
<1>9. IdleInv' BY <1>2, <1>5, <1>8 DEF IdleInv
<1>10. ProbeFindsMaster'
  <2>1. answer # 0 => drv.bus = "primary" /\ selected_drive = "master" BY CountSays
  <2>2. drv.bus = "primary" /\ selected_drive = "master" /\ ~drv.dirty => answer = Await
    BY <1>8, CountSays
  <2> HIDE DEF answer
  <2> QED BY <2>1, <2>2, <1>2, <1>5 DEF ProbeFindsMaster
<1>11. /\ BusyInv' /\ AwaitInv' /\ SendInv' /\ TransmitInv' /\ ReadInv' /\ CompleteInv'
       /\ ReadsTheBlock'
  BY <1>5 DEF BusyInv, AwaitInv, SendInv, TransmitInv, ReadInv, CompleteInv,
              ReadsTheBlock, Busy
<1> QED BY <1>2, <1>7, <1>9, <1>10, <1>11 DEF AtapiInv

LEMMA ProbedKeeps ==
  ASSUME AtapiInv, Probed
  PROVE  AtapiInv'
<1>1. drv.at = "found" /\ drv' = Idle(drv.dirty) /\ UNCHANGED <<drive, disc>>
  BY DEF Probed
<1>2. DriveType' /\ TransferOpen' /\ DiscType' /\ (Quiet => Quiet')
  BY <1>1, InvParts DEF drive, disc, DriveType, DiscType, TransferOpen, Quiet
<1>3. ~drv.dirty => Quiet BY <1>1 DEF AtapiInv, IdleInv
<1>4. drv.dirty \in BOOLEAN BY InvParts, DriverFields
<1> QED BY <1>1, <1>2, <1>3, <1>4, BecomesIdle
-----------------------------------------------------------------------------
(***************************************************************************)
(* The theorems.                                                           *)
(***************************************************************************)
LEMMA AtapiInvHolds == Spec => []AtapiInv
<1>1. Init => AtapiInv
  <2> SUFFICES ASSUME Init PROVE AtapiInv OBVIOUS
  <2>1. NoPacket \in PacketT BY AtapiAssumption, SMT DEF NoPacket, PacketT, Word
  <2>2. [k \in 1..BlockWords |-> Zero] \in [1..BlockWords -> DataT] BY ZeroType
  <2>3. 0 \in 0..PacketWords /\ 0 \in 0..BlockWords /\ ~(0 > 0)
    BY AtapiAssumption, SMT
  <2>4. DriveType BY <2>1, <2>2, <2>3 DEF Init, DriveType, Drive
  <2>5. TransferOpen /\ Quiet BY <2>3 DEF Init, TransferOpen, Quiet
  <2>6. drv = Idle(FALSE) /\ DiscType BY DEF Init, DiscType
  <2>7. drv \in DrvT /\ drv.at = "idle"
    <3>1. Idle(FALSE) \in DrvT BY IdleType
    <3>2. Idle(FALSE).at = "idle" BY DEF Idle
    <3> QED BY <2>6, <3>1, <3>2
  <2>8. TypeOK BY <2>4, <2>6, <2>7, TypeParts
  <2>9. /\ IdleInv /\ BusyInv /\ AwaitInv /\ SendInv /\ TransmitInv /\ ReadInv
        /\ CompleteInv /\ ReadsTheBlock /\ ProbeFindsMaster
    BY <2>5, <2>7 DEF IdleInv, BusyInv, AwaitInv, SendInv, TransmitInv, ReadInv,
                      CompleteInv, ReadsTheBlock, ProbeFindsMaster, Busy
  <2> QED BY <2>5, <2>8, <2>9 DEF AtapiInv
<1>2. AtapiInv /\ [Next]_vars => AtapiInv'
  <2> SUFFICES ASSUME AtapiInv, [Next]_vars PROVE AtapiInv' OBVIOUS
  <2>1. CASE \E p \in PacketT : Begin(p) BY <2>1, BeginKeeps
  <2>2. CASE Poll("await", Await, Awaited) BY <2>2, PollAwaitKeeps
  <2>3. CASE Send BY <2>3, SendKeeps
  <2>4. CASE Poll("transmit", Transmit, Answered) BY <2>4, PollTransmitKeeps
  <2>5. CASE Read BY <2>5, DriverReadKeeps
  <2>6. CASE Poll("complete", Complete, Idle(FALSE)) BY <2>6, PollCompleteKeeps
  <2>7. CASE GiveUp \/ StrayRead \/ \E w \in Word : StrayWrite(w)
    BY <2>7, StraysKeep
  <2>8. CASE \E bus \in Bus, d \in Drive : ProbeSelect(bus, d)
    BY <2>8, ProbeSelectKeeps
  <2>9. CASE ProbeRead BY <2>9, ProbeReadKeeps
  <2>10. CASE Probed BY <2>10, ProbedKeeps
  <2>11. CASE UNCHANGED vars
    <3>1. UNCHANGED drive /\ drv' = drv /\ UNCHANGED disc BY <2>11 DEF vars
    <3>2. TypeOK' /\ TransferOpen'
      BY <3>1 DEF drive, disc, AtapiInv, TypeOK, TransferOpen
    <3>3. IdleInv' /\ BusyInv' /\ AwaitInv' /\ SendInv' /\ TransmitInv'
      BY <3>1 DEF drive, AtapiInv, IdleInv, BusyInv, AwaitInv, SendInv, TransmitInv, Quiet
    <3>4. ReadInv' /\ CompleteInv' /\ ReadsTheBlock' /\ ProbeFindsMaster'
      BY <3>1 DEF drive, disc, AtapiInv, ReadInv, CompleteInv, ReadsTheBlock,
                  ProbeFindsMaster, Given
    <3> QED BY <3>2, <3>3, <3>4 DEF AtapiInv
  <2> QED BY <2>1, <2>2, <2>3, <2>4, <2>5, <2>6, <2>7, <2>8, <2>9, <2>10, <2>11
          DEF Next, Drives
<1> QED BY <1>1, <1>2, PTL DEF Spec

(***************************************************************************)
(* The drive and the driver stay within their types: no word is stored     *)
(* behind the packet, none read behind the block (data_outw, data_inw).    *)
(***************************************************************************)
THEOREM AtapiTypeCorrect == Spec => []TypeOK
<1>1. AtapiInv => TypeOK BY DEF AtapiInv
<1> QED BY <1>1, AtapiInvHolds, PTL

(***************************************************************************)
(* The flags and the counters of the two transfers never part.             *)
(***************************************************************************)
THEOREM TransfersStayOpen == Spec => []TransferOpen
<1>1. AtapiInv => TransferOpen BY DEF AtapiInv
<1> QED BY <1>1, AtapiInvHolds, PTL

(***************************************************************************)
(* The driver reads the block it asked for, whatever was left behind in    *)
(* the drive and wherever the disc's file was left before its command, if  *)
(* lseek and read did what this command asked of them, which the drive     *)
(* does not look at, and the block's offset fits in 32 bits.               *)
(***************************************************************************)
THEOREM DriverReadsTheBlock == Spec => []ReadsTheBlock
<1>1. AtapiInv => ReadsTheBlock BY DEF AtapiInv
<1> QED BY <1>1, AtapiInvHolds, PTL

(***************************************************************************)
(* A probe finds the master of the primary bus and nothing else.           *)
(***************************************************************************)
THEOREM ProbesFindTheMaster == Spec => []ProbeFindsMaster
<1>1. AtapiInv => ProbeFindsMaster BY DEF AtapiInv
<1> QED BY <1>1, AtapiInvHolds, PTL
=============================================================================
