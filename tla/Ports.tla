------------------------------- MODULE Ports -------------------------------
(***************************************************************************)
(* The port I/O of the process: the table of handlers of src/io.c, which   *)
(* all devices share, the serial ports (src/serial.c) and the CD drive     *)
(* (src/atapi.c) that put themselves into it, and the IN and OUT exits     *)
(* vm_run takes to it.  Devices come and go in any order, between exits.   *)
(***************************************************************************)
EXTENDS Naturals

CONSTANTS Serial,       \* the addresses malloc may return for a serial_t
          Ports,        \* the number of ports, 2^16
          SerialPorts,  \* where the program asks for serial ports
          Primary, Secondary, PrimaryDcr, SecondaryDcr,  \* ports of the drive
          GuestPorts    \* the ports the guest accesses

\* The table has one element less than there are ports.
Port == 0..(Ports - 1)
Last == Ports - 1

SerialRange(p) == {p + i : i \in 0..7}

ASSUME PortsAssumption ==
  /\ Ports \in Nat \ {0} /\ SerialPorts \subseteq Port
  /\ \A p \in SerialPorts : SerialRange(p) \subseteq Port \ {Last}
  /\ \A i \in 0..7 : {Primary + i, Secondary + i} \subseteq Port
  /\ {Primary, Secondary} \subseteq Nat /\ {PrimaryDcr, SecondaryDcr} \subseteq Port
  /\ {"atapi", "behind", "none", "nobody"} \cap Serial = {}
  /\ GuestPorts \subseteq Port

VARIABLES handlers,  \* the table, and what is in memory behind it
          serials,   \* the port of each serial_t, None when it is not allocated
          atapi,     \* atapi_init was called
          apart,     \* so far no device was put on the ports of another
          exit       \* the guest's last access and who served it

vars == <<handlers, serials, atapi, apart, exit>>

Op == {"inb", "outb", "inw", "outw"}

None == [params |-> "none", ops |-> {}]
Behind == [params |-> "behind", ops |-> Op]
Handler == [params : Serial \cup {"atapi", "behind", "none"}, ops : SUBSET Op]

NoPort == Ports
ExitT == [port : Port, op : Op \cup {"ind", "outd"},
          by : Serial \cup {"atapi", "behind", "nobody"}]

TypeOK ==
  /\ handlers \in [Port -> Handler]
  /\ serials \in [Serial -> SerialPorts \cup {NoPort}]
  /\ atapi \in BOOLEAN /\ apart \in BOOLEAN /\ exit \in ExitT

Live(s) == serials[s] # NoPort

\* The element behind the table is memory of something else.
Init ==
  /\ \E behind \in {None, Behind} :
       handlers = [p \in Port |-> IF p = Last THEN behind ELSE None]
  /\ serials = [s \in Serial |-> NoPort] /\ atapi = FALSE /\ apart = TRUE
  /\ exit = [port |-> 0, op |-> "inb", by |-> "nobody"]
-----------------------------------------------------------------------------
(***************************************************************************)
(* io_register_handler replaces the whole struct, io_unregister_handler    *)
(* clears it, whoever registered it.                                       *)
(***************************************************************************)
Registered(t, ports, h) == [p \in Port |-> IF p \in ports THEN h ELSE t[p]]

SerialHandler(s) == [params |-> s, ops |-> {"inb", "outb"}]

\* What the drive handles: offsets from its two bases, 1 and 2 to 5, of
\* which the second registration holds, 6, 0 and 7.
AtapiOps ==
  [p \in {Primary + i : i \in 0..7} \cup {Secondary + i : i \in 1..6}
         \cup {PrimaryDcr, SecondaryDcr} |->
     IF p = Primary THEN {"inw", "outw"}
     ELSE IF \/ p \in {Primary + i : i \in 2..5} \cup {Secondary + i : i \in 2..5}
             \/ p = Primary + 7
          THEN {"inb", "outb"} ELSE {"outb"}]
AtapiRange == DOMAIN AtapiOps

\* DOCS.md: a serial port's ports "should not be conflicting with another
\* IO device".
Conflict(ports) ==
  \/ atapi /\ AtapiRange \cap ports # {}
  \/ \E s \in Serial : Live(s) /\ SerialRange(serials[s]) \cap ports # {}

(***************************************************************************)
(* serial_new, after malloc and both queue_new.  If one of these fails     *)
(* nothing is registered; the host queue is not freed when the guest queue *)
(* is what is missing.                                                     *)
(***************************************************************************)
SerialNew(s, port) ==
  /\ ~Live(s)
  /\ apart' = (apart /\ ~Conflict(SerialRange(port)))
  /\ serials' = [serials EXCEPT ![s] = port]
  /\ handlers' = Registered(handlers, SerialRange(port), SerialHandler(s))
  /\ UNCHANGED <<atapi, exit>>

\* Mutant: the last register is forgotten.
SerialDestroy_SevenOnly(s) ==
  /\ Live(s)
  /\ handlers' = Registered(handlers, SerialRange(serials[s]) \ {serials[s] + 7}, None)
  /\ serials' = [serials EXCEPT ![s] = NoPort]
  /\ UNCHANGED <<atapi, apart, exit>>

\* Mutant: one port too many is cleared.
SerialDestroy_NineOf(s) ==
  /\ Live(s)
  /\ handlers' = Registered(handlers, SerialRange(serials[s]) \cup {serials[s] + 8}, None)
  /\ serials' = [serials EXCEPT ![s] = NoPort]
  /\ UNCHANGED <<atapi, apart, exit>>

\* serial_destroy; the handlers go before what they point at.
SerialDestroy(s) ==
  /\ Live(s)
  /\ handlers' = Registered(handlers, SerialRange(serials[s]), None)
  /\ serials' = [serials EXCEPT ![s] = NoPort]
  /\ UNCHANGED <<atapi, apart, exit>>

AtapiInit ==
  /\ ~atapi
  /\ apart' = (apart /\ ~Conflict(AtapiRange))
  /\ atapi' = TRUE
  /\ handlers' = [p \in Port |-> IF p \in AtapiRange
                                 THEN [params |-> "atapi", ops |-> AtapiOps[p]]
                                 ELSE handlers[p]]
  /\ UNCHANGED <<serials, exit>>
-----------------------------------------------------------------------------
\* Mutant: the width is not tested.
Handled_NotTested(port, op) == handlers[port].params

\* io_handle_inb, outb, inw, outw: the device called, if any.
Handled(port, op) ==
  IF op \in handlers[port].ops THEN handlers[port].params ELSE "nobody"

\* handle_exit_io: an access of two bytes goes to one handler, one of four
\* ("ind", "outd") to none; an IN nobody serves leaves the guest what is in
\* the shared page.
Exit(port, op) ==
  /\ exit' = [port |-> port, op |-> op, by |-> Handled(port, op)]
  /\ UNCHANGED <<handlers, serials, atapi, apart>>

Next ==
  \/ \E s \in Serial : SerialDestroy(s) \/ \E port \in SerialPorts : SerialNew(s, port)
  \/ AtapiInit
  \/ \E port \in GuestPorts, op \in Op \cup {"ind", "outd"} : Exit(port, op)

Spec == Init /\ [][Next]_vars
-----------------------------------------------------------------------------
(***************************************************************************)
(* Whatever the ports the serial ports were asked for, in conflict or not, *)
(* and in whatever order they are destroyed: no handler is left of a       *)
(* serial port that is freed, so that no exit reaches freed memory.        *)
(***************************************************************************)
NoFreedDevice ==
  \A p \in Port : handlers[p].params \in Serial =>
    /\ Live(handlers[p].params)
    /\ p \in SerialRange(serials[handlers[p].params])

NobodysPort(port) ==
  /\ ~(atapi /\ port \in AtapiRange)
  /\ \A s \in Serial : Live(s) => port \notin SerialRange(serials[s])

(***************************************************************************)
(* DOCS.md: "Create a UART device on a defined port."  As long as  *)
(* the program kept the devices apart, each serves all its ports, in the   *)
(* widths it has, from its creation to its destruction, whatever else      *)
(* comes and goes, and nobody serves the others.                           *)
(***************************************************************************)
DevicesServed ==
  apart =>
    /\ \A s \in Serial : Live(s) =>
         \A p \in SerialRange(serials[s]) : handlers[p] = SerialHandler(s)
    /\ atapi => \A p \in AtapiRange : handlers[p] = [params |-> "atapi", ops |-> AtapiOps[p]]
    /\ \A p \in Port \ {Last} : NobodysPort(p) => handlers[p] = None

(***************************************************************************)
(* vm.c: "Outb to unsupported port", "Inb to unsupported port".  An access *)
(* to a port no device has is told to be unsupported.                      *)
(***************************************************************************)
NobodysPortUnsupported ==
  [][exit' # exit /\ NobodysPort(exit'.port) => exit'.by = "nobody"]_vars
=============================================================================
