---------------------------- MODULE PortsProofs ----------------------------
(***************************************************************************)
(* Theorems about the port table of Ports, for any number of serial ports  *)
(* at any ports.  Both properties of the table are inductive: in a table   *)
(* that tells who serves a port, two devices on one port would have to be  *)
(* the same.                                                               *)
(***************************************************************************)
EXTENDS Ports, TLAPS

\* An element without a device has no functions.
NoneServesNothing ==
  \A p \in Port : handlers[p].params = "none" => handlers[p].ops = {}

PortsInv == TypeOK /\ NoneServesNothing /\ NoFreedDevice /\ DevicesServed

AtapiHandler(p) == [params |-> "atapi", ops |-> AtapiOps[p]]

\* The ports of the devices are ports.
LEMMA SerialRangePorts == \A p \in SerialPorts : SerialRange(p) \subseteq Port \ {Last}
BY PortsAssumption

LEMMA AtapiRangePorts == AtapiRange \subseteq Port
<1>1. AtapiRange = {Primary + i : i \in 0..7} \cup {Secondary + i : i \in 1..6}
                     \cup {PrimaryDcr, SecondaryDcr}
  BY DEF AtapiRange, AtapiOps
<1>2. \A i \in 0..7 : Primary + i \in Port /\ Secondary + i \in Port
  BY PortsAssumption
<1>3. \A i \in 1..6 : i \in 0..7 BY SMT
<1>4. PrimaryDcr \in Port /\ SecondaryDcr \in Port BY PortsAssumption
<1> QED BY <1>1, <1>2, <1>3, <1>4

LEMMA NoPortIsNone == \A p \in SerialPorts : p # NoPort
<1>1. \A p \in Port : p # Ports BY PortsAssumption, SMT DEF Port
<1> QED BY <1>1, PortsAssumption DEF NoPort

\* Handlers are handlers, and the devices are told apart by their params.
LEMMA HandlerTypes ==
  /\ None \in Handler /\ Behind \in Handler
  /\ \A s \in Serial : SerialHandler(s) \in Handler /\ SerialHandler(s).params = s
  /\ \A p \in AtapiRange : AtapiHandler(p) \in Handler /\ AtapiHandler(p).params = "atapi"
  /\ None.params = "none" /\ None.ops = {} /\ Behind.params = "behind"
<1>1. \A p \in AtapiRange : AtapiOps[p] \in SUBSET Op
  BY DEF AtapiRange, AtapiOps, Op
<1> QED BY <1>1 DEF None, Behind, Handler, SerialHandler, AtapiHandler, Op

\* The table after io_register_handler.
LEMMA RegisteredTable ==
  ASSUME NEW t \in [Port -> Handler], NEW ports, NEW h \in Handler
  PROVE  /\ Registered(t, ports, h) \in [Port -> Handler]
         /\ \A p \in Port \cap ports : Registered(t, ports, h)[p] = h
         /\ \A p \in Port \ ports : Registered(t, ports, h)[p] = t[p]
BY DEF Registered

LEMMA SerialNewKeeps ==
  ASSUME PortsInv, NEW s \in Serial, NEW port \in SerialPorts, SerialNew(s, port)
  PROVE  PortsInv'
<1> DEFINE range == SerialRange(port)
<1>1. /\ ~Live(s) /\ serials' = [serials EXCEPT ![s] = port]
      /\ handlers' = Registered(handlers, range, SerialHandler(s))
      /\ apart' = (apart /\ ~Conflict(range)) /\ UNCHANGED <<atapi, exit>>
  BY DEF SerialNew
<1>2. handlers \in [Port -> Handler] /\ serials \in [Serial -> SerialPorts \cup {NoPort}]
  BY DEF PortsInv, TypeOK
<1>3. /\ handlers' \in [Port -> Handler]
      /\ \A p \in Port \cap range : handlers'[p] = SerialHandler(s)
      /\ \A p \in Port \ range : handlers'[p] = handlers[p]
  BY <1>1, <1>2, HandlerTypes, RegisteredTable
<1>4. serials'[s] = port /\ \A t \in Serial \ {s} : serials'[t] = serials[t]
  BY <1>1, <1>2
<1>5. Live(s)' /\ \A t \in Serial \ {s} : Live(t)' <=> Live(t)
  BY <1>4, NoPortIsNone DEF Live
<1>6. range \subseteq Port \ {Last} BY SerialRangePorts
<1>7. TypeOK'
  <2>1. serials' \in [Serial -> SerialPorts \cup {NoPort}] BY <1>1, <1>2
  <2>2. apart' \in BOOLEAN BY <1>1
  <2> QED BY <1>1, <1>3, <2>1, <2>2 DEF PortsInv, TypeOK
<1> HIDE DEF range
<1>8. NoFreedDevice'
  <2> SUFFICES ASSUME NEW p \in Port, handlers'[p].params \in Serial
               PROVE  /\ serials'[handlers'[p].params] # NoPort
                      /\ p \in SerialRange(serials'[handlers'[p].params])
    BY DEF NoFreedDevice, Live
  <2>1. CASE p \in range
    <3>1. handlers'[p].params = s BY <1>3, <2>1, HandlerTypes
    <3> QED BY <3>1, <1>4, <2>1, NoPortIsNone DEF range
  <2>2. CASE p \notin range
    <3> DEFINE t == handlers[p].params
    <3>1. handlers'[p].params = t BY <1>3, <2>2
    <3>2. Live(t) /\ p \in SerialRange(serials[t]) BY <3>1 DEF PortsInv, NoFreedDevice
    <3>3. t \in Serial \ {s} BY <3>1, <3>2, <1>1
    <3> QED BY <3>1, <3>2, <3>3, <1>4 DEF Live
  <2> QED BY <2>1, <2>2
<1>9. DevicesServed'
  <2> SUFFICES ASSUME apart' PROVE
        /\ \A t \in Serial : Live(t)' =>
             \A p \in SerialRange(serials'[t]) : handlers'[p] = SerialHandler(t)
        /\ atapi' => \A p \in AtapiRange : handlers'[p] = AtapiHandler(p)
        /\ \A p \in Port \ {Last} : NobodysPort(p)' => handlers'[p] = None
    BY DEF DevicesServed, AtapiHandler
  <2>1. /\ apart /\ (atapi => AtapiRange \cap range = {})
        /\ \A t \in Serial : Live(t) => SerialRange(serials[t]) \cap range = {}
    BY <1>1 DEF Conflict
  <2>2. /\ \A t \in Serial : Live(t) =>
             \A p \in SerialRange(serials[t]) : handlers[p] = SerialHandler(t)
        /\ atapi => \A p \in AtapiRange : handlers[p] = AtapiHandler(p)
        /\ \A p \in Port \ {Last} : NobodysPort(p) => handlers[p] = None
    BY <2>1 DEF PortsInv, DevicesServed, AtapiHandler
  <2>3. ASSUME NEW t \in Serial, Live(t)', NEW p \in SerialRange(serials'[t])
        PROVE  handlers'[p] = SerialHandler(t)
    <3>1. CASE t = s BY <3>1, <2>3, <1>3, <1>4, <1>6 DEF range
    <3>2. CASE t # s
      <4>1. Live(t) /\ p \in SerialRange(serials[t]) BY <3>2, <2>3, <1>4, <1>5
      <4>2. serials[t] \in SerialPorts BY <4>1, <1>2 DEF Live
      <4>3. p \in Port \ range BY <4>1, <4>2, <2>1, SerialRangePorts
      <4> QED BY <4>1, <4>3, <2>2, <1>3
    <3> QED BY <3>1, <3>2
  <2>4. ASSUME atapi', NEW p \in AtapiRange PROVE handlers'[p] = AtapiHandler(p)
    <3>1. atapi BY <2>4, <1>1
    <3>2. p \in Port \ range BY <3>1, <2>1, AtapiRangePorts
    <3> QED BY <3>1, <3>2, <2>2, <1>3
  <2>5. ASSUME NEW p \in Port \ {Last}, NobodysPort(p)' PROVE handlers'[p] = None
    <3>1. /\ ~(atapi' /\ p \in AtapiRange)
          /\ \A t \in Serial : Live(t)' => p \notin SerialRange(serials'[t])
      BY <2>5 DEF NobodysPort
    <3>2. p \notin range BY <3>1, <1>4, <1>5 DEF range
    <3>3. \A t \in Serial : Live(t) => p \notin SerialRange(serials[t])
      BY <3>1, <1>1, <1>4, <1>5
    <3>4. NobodysPort(p) BY <3>1, <3>3, <1>1 DEF NobodysPort
    <3> QED BY <3>2, <3>4, <2>2, <1>3
  <2> QED BY <2>3, <2>4, <2>5
<1>10. NoneServesNothing'
  <2>1. \A p \in Port \cap range : handlers'[p].params # "none"
    BY <1>3, HandlerTypes, PortsAssumption
  <2> QED BY <2>1, <1>3 DEF PortsInv, NoneServesNothing
<1> QED BY <1>7, <1>8, <1>9, <1>10 DEF PortsInv

LEMMA SerialDestroyKeeps ==
  ASSUME PortsInv, NEW s \in Serial, SerialDestroy(s)
  PROVE  PortsInv'
<1> DEFINE range == SerialRange(serials[s])
<1>1. /\ Live(s) /\ serials' = [serials EXCEPT ![s] = NoPort]
      /\ handlers' = Registered(handlers, range, None)
      /\ UNCHANGED <<atapi, apart, exit>>
  BY DEF SerialDestroy
<1>2. handlers \in [Port -> Handler] /\ serials \in [Serial -> SerialPorts \cup {NoPort}]
  BY DEF PortsInv, TypeOK
<1>3. /\ handlers' \in [Port -> Handler]
      /\ \A p \in Port \cap range : handlers'[p] = None
      /\ \A p \in Port \ range : handlers'[p] = handlers[p]
  BY <1>1, <1>2, HandlerTypes, RegisteredTable
<1>4. serials'[s] = NoPort /\ \A t \in Serial \ {s} : serials'[t] = serials[t]
  BY <1>1, <1>2
<1>5. ~Live(s)' /\ \A t \in Serial \ {s} : Live(t)' <=> Live(t)
  BY <1>4 DEF Live
<1>6. range \subseteq Port \ {Last}
  BY <1>1, <1>2, SerialRangePorts DEF Live
<1>7. TypeOK'
  <2>1. serials' \in [Serial -> SerialPorts \cup {NoPort}] BY <1>1, <1>2
  <2> QED BY <1>1, <1>3, <2>1 DEF PortsInv, TypeOK
<1> HIDE DEF range
<1>8. NoFreedDevice'
  <2> SUFFICES ASSUME NEW p \in Port, handlers'[p].params \in Serial
               PROVE  /\ serials'[handlers'[p].params] # NoPort
                      /\ p \in SerialRange(serials'[handlers'[p].params])
    BY DEF NoFreedDevice, Live
  <2>1. p \notin range
    <3> SUFFICES ASSUME p \in range PROVE FALSE OBVIOUS
    <3>1. handlers'[p].params = "none" BY <1>3, HandlerTypes
    <3> QED BY <3>1, PortsAssumption
  <2> DEFINE t == handlers[p].params
  <2>2. handlers'[p].params = t BY <1>3, <2>1
  <2>3. Live(t) /\ p \in SerialRange(serials[t]) BY <2>2 DEF PortsInv, NoFreedDevice
  <2>4. t \in Serial \ {s} BY <2>1, <2>2, <2>3 DEF range
  <2> QED BY <2>2, <2>3, <2>4, <1>4 DEF Live
<1>9. DevicesServed'
  <2> SUFFICES ASSUME apart' PROVE
        /\ \A t \in Serial : Live(t)' =>
             \A p \in SerialRange(serials'[t]) : handlers'[p] = SerialHandler(t)
        /\ atapi' => \A p \in AtapiRange : handlers'[p] = AtapiHandler(p)
        /\ \A p \in Port \ {Last} : NobodysPort(p)' => handlers'[p] = None
    BY DEF DevicesServed, AtapiHandler
  <2>2. /\ \A t \in Serial : Live(t) =>
             \A p \in SerialRange(serials[t]) : handlers[p] = SerialHandler(t)
        /\ atapi => \A p \in AtapiRange : handlers[p] = AtapiHandler(p)
        /\ \A p \in Port \ {Last} : NobodysPort(p) => handlers[p] = None
    BY <1>1 DEF PortsInv, DevicesServed, AtapiHandler
  <2>3. ASSUME NEW t \in Serial, Live(t)', NEW p \in SerialRange(serials'[t])
        PROVE  handlers'[p] = SerialHandler(t)
    <3>1. t # s BY <2>3, <1>5
    <3>2. Live(t) /\ p \in SerialRange(serials[t]) BY <3>1, <2>3, <1>4, <1>5
    <3>3. handlers[p] = SerialHandler(t) BY <3>2, <2>2
    <3>4. p \notin range
      <4>1. p \in range => handlers[p] = SerialHandler(s) BY <1>1, <2>2 DEF range
      <4> QED BY <4>1, <3>1, <3>3, HandlerTypes
    <3>5. p \in Port
      <4>1. serials[t] \in SerialPorts BY <3>2, <1>2 DEF Live
      <4> QED BY <4>1, <3>2, SerialRangePorts
    <3> QED BY <3>3, <3>4, <3>5, <1>3
  <2>4. ASSUME atapi', NEW p \in AtapiRange PROVE handlers'[p] = AtapiHandler(p)
    <3>1. handlers[p] = AtapiHandler(p) BY <2>4, <1>1, <2>2
    <3>2. p \notin range
      <4>1. p \in range => handlers[p] = SerialHandler(s) BY <1>1, <2>2 DEF range
      <4>2. s # "atapi" BY PortsAssumption
      <4> QED BY <4>1, <4>2, <3>1, HandlerTypes
    <3> QED BY <3>1, <3>2, <1>3, AtapiRangePorts
  <2>5. ASSUME NEW p \in Port \ {Last}, NobodysPort(p)' PROVE handlers'[p] = None
    <3>1. CASE p \in range BY <3>1, <1>3
    <3>2. CASE p \notin range
      <4>1. /\ ~(atapi' /\ p \in AtapiRange)
            /\ \A t \in Serial : Live(t)' => p \notin SerialRange(serials'[t])
        BY <2>5 DEF NobodysPort
      <4>2. \A t \in Serial : Live(t) => p \notin SerialRange(serials[t])
        BY <4>1, <3>2, <1>4, <1>5 DEF range
      <4>3. NobodysPort(p) BY <4>1, <4>2, <1>1 DEF NobodysPort
      <4> QED BY <4>3, <3>2, <2>2, <1>3
    <3> QED BY <3>1, <3>2
  <2> QED BY <2>3, <2>4, <2>5
<1>10. NoneServesNothing'
  BY <1>3, HandlerTypes DEF PortsInv, NoneServesNothing
<1> QED BY <1>7, <1>8, <1>9, <1>10 DEF PortsInv

LEMMA AtapiInitKeeps ==
  ASSUME PortsInv, AtapiInit
  PROVE  PortsInv'
<1>1. /\ ~atapi /\ atapi' = TRUE /\ apart' = (apart /\ ~Conflict(AtapiRange))
      /\ handlers' = [p \in Port |-> IF p \in AtapiRange THEN AtapiHandler(p)
                                                         ELSE handlers[p]]
      /\ UNCHANGED <<serials, exit>>
  BY DEF AtapiInit, AtapiHandler
<1>2. handlers \in [Port -> Handler] /\ serials \in [Serial -> SerialPorts \cup {NoPort}]
  BY DEF PortsInv, TypeOK
<1>3. /\ \A p \in AtapiRange : handlers'[p] = AtapiHandler(p)
      /\ \A p \in Port \ AtapiRange : handlers'[p] = handlers[p]
  BY <1>1, AtapiRangePorts
<1>4. handlers' \in [Port -> Handler] BY <1>1, <1>2, HandlerTypes
<1>5. \A t \in Serial : Live(t)' <=> Live(t) BY <1>1 DEF Live
<1>6. TypeOK' BY <1>1, <1>4 DEF PortsInv, TypeOK
<1>7. NoFreedDevice'
  <2> SUFFICES ASSUME NEW p \in Port, handlers'[p].params \in Serial
               PROVE  /\ serials'[handlers'[p].params] # NoPort
                      /\ p \in SerialRange(serials'[handlers'[p].params])
    BY DEF NoFreedDevice, Live
  <2>1. p \notin AtapiRange BY <1>3, HandlerTypes, PortsAssumption
  <2>2. handlers'[p] = handlers[p] BY <1>3, <2>1
  <2> QED BY <2>2, <1>1 DEF PortsInv, NoFreedDevice, Live
<1>8. DevicesServed'
  <2> SUFFICES ASSUME apart' PROVE
        /\ \A t \in Serial : Live(t)' =>
             \A p \in SerialRange(serials'[t]) : handlers'[p] = SerialHandler(t)
        /\ atapi' => \A p \in AtapiRange : handlers'[p] = AtapiHandler(p)
        /\ \A p \in Port \ {Last} : NobodysPort(p)' => handlers'[p] = None
    BY DEF DevicesServed, AtapiHandler
  <2>1. /\ apart
        /\ \A t \in Serial : Live(t) => SerialRange(serials[t]) \cap AtapiRange = {}
    BY <1>1 DEF Conflict
  <2>2. /\ \A t \in Serial : Live(t) =>
             \A p \in SerialRange(serials[t]) : handlers[p] = SerialHandler(t)
        /\ \A p \in Port \ {Last} : NobodysPort(p) => handlers[p] = None
    BY <2>1 DEF PortsInv, DevicesServed
  <2>3. ASSUME NEW t \in Serial, Live(t)', NEW p \in SerialRange(serials'[t])
        PROVE  handlers'[p] = SerialHandler(t)
    <3>1. Live(t) /\ p \in SerialRange(serials[t]) BY <2>3, <1>1, <1>5
    <3>2. serials[t] \in SerialPorts BY <3>1, <1>2 DEF Live
    <3>3. p \in Port \ AtapiRange BY <3>1, <3>2, <2>1, SerialRangePorts
    <3> QED BY <3>1, <3>3, <2>2, <1>3
  <2>4. ASSUME NEW p \in Port \ {Last}, NobodysPort(p)' PROVE handlers'[p] = None
    <3>1. p \notin AtapiRange /\ NobodysPort(p)
      BY <2>4, <1>1, <1>5 DEF NobodysPort
    <3> QED BY <3>1, <2>2, <1>3
  <2> QED BY <2>3, <2>4, <1>3
<1>9. NoneServesNothing'
  <2>1. \A p \in AtapiRange : handlers'[p].params # "none" BY <1>3, HandlerTypes
  <2> QED BY <2>1, <1>3 DEF PortsInv, NoneServesNothing
<1> QED BY <1>6, <1>7, <1>8, <1>9 DEF PortsInv

LEMMA ExitKeeps ==
  ASSUME PortsInv, NEW port \in GuestPorts, NEW op \in Op \cup {"ind", "outd"},
         Exit(port, op)
  PROVE  PortsInv'
<1>1. /\ exit' = [port |-> port, op |-> op, by |-> Handled(port, op)]
      /\ UNCHANGED <<handlers, serials, atapi, apart>>
  BY DEF Exit
<1>2. port \in Port BY PortsAssumption
<1>3. handlers[port] \in Handler BY <1>2 DEF PortsInv, TypeOK
<1>4. Handled(port, op) \in Serial \cup {"atapi", "behind", "nobody"}
  <2>1. CASE op \in handlers[port].ops
    <3>1. handlers[port].params # "none"
      BY <1>2, <2>1 DEF PortsInv, NoneServesNothing
    <3>2. handlers[port].params \in Serial \cup {"atapi", "behind", "none"}
      BY <1>3 DEF Handler
    <3> QED BY <3>1, <3>2, <2>1 DEF Handled
  <2>2. CASE op \notin handlers[port].ops BY <2>2 DEF Handled
  <2> QED BY <2>1, <2>2
<1>5. exit' \in ExitT BY <1>1, <1>2, <1>4 DEF ExitT
<1>6. TypeOK' BY <1>1, <1>5 DEF PortsInv, TypeOK
<1>7. NoneServesNothing' /\ NoFreedDevice' /\ DevicesServed'
  BY <1>1 DEF PortsInv, NoneServesNothing, NoFreedDevice, DevicesServed, NobodysPort, Live
<1> QED BY <1>6, <1>7 DEF PortsInv

LEMMA InitHolds == Init => PortsInv
<1> SUFFICES ASSUME Init PROVE PortsInv OBVIOUS
<1>1. PICK behind \in {None, Behind} :
        handlers = [p \in Port |-> IF p = Last THEN behind ELSE None]
  BY DEF Init
<1>2. /\ serials = [s \in Serial |-> NoPort] /\ atapi = FALSE /\ apart = TRUE
      /\ exit = [port |-> 0, op |-> "inb", by |-> "nobody"]
  BY DEF Init
<1>3. \A p \in Port : handlers[p] \in {None, Behind} BY <1>1
<1>4. \A p \in Port \ {Last} : handlers[p] = None BY <1>1
<1>5. TypeOK
  <2>1. handlers \in [Port -> Handler] BY <1>1, HandlerTypes
  <2>2. 0 \in Port BY PortsAssumption, SMT DEF Port
  <2>3. exit \in ExitT BY <1>2, <2>2 DEF ExitT, Op
  <2> QED BY <1>2, <2>1, <2>3 DEF TypeOK
<1>6. \A s \in Serial : ~Live(s) BY <1>2 DEF Live
<1>7. NoneServesNothing /\ NoFreedDevice
  BY <1>3, HandlerTypes, PortsAssumption DEF NoneServesNothing, NoFreedDevice
<1>8. DevicesServed BY <1>2, <1>4, <1>6 DEF DevicesServed
<1> QED BY <1>5, <1>7, <1>8 DEF PortsInv

LEMMA NextKeeps == PortsInv /\ [Next]_vars => PortsInv'
<1> SUFFICES ASSUME PortsInv, [Next]_vars PROVE PortsInv' OBVIOUS
<1>1. ASSUME NEW s \in Serial, SerialDestroy(s) PROVE PortsInv'
  BY <1>1, SerialDestroyKeeps
<1>2. ASSUME NEW s \in Serial, NEW port \in SerialPorts, SerialNew(s, port)
      PROVE  PortsInv'
  BY <1>2, SerialNewKeeps
<1>3. CASE AtapiInit BY <1>3, AtapiInitKeeps
<1>4. ASSUME NEW port \in GuestPorts, NEW op \in Op \cup {"ind", "outd"}, Exit(port, op)
      PROVE  PortsInv'
  BY <1>4, ExitKeeps
<1>5. CASE UNCHANGED vars
  BY <1>5 DEF vars, PortsInv, TypeOK, NoneServesNothing, NoFreedDevice,
              DevicesServed, NobodysPort, Live
<1> QED BY <1>1, <1>2, <1>3, <1>4, <1>5 DEF Next

(***************************************************************************)
(* The inductive invariant holds of every run.                             *)
(***************************************************************************)
THEOREM PortsInvariant == Spec => []PortsInv
BY InitHolds, NextKeeps, PTL DEF Spec

(***************************************************************************)
(* Whatever devices come and go, the table and the devices keep their      *)
(* types, and every exit is served by a device that is in the table.       *)
(***************************************************************************)
THEOREM PortsTypeCorrect == Spec => []TypeOK
<1>1. PortsInv => TypeOK BY DEF PortsInv
<1> QED BY <1>1, PortsInvariant, PTL

(***************************************************************************)
(* serial_destroy leaves no handler of the serial port it frees, however   *)
(* many serial ports there are, at whatever ports, in conflict or not.     *)
(***************************************************************************)
THEOREM FreedDevicesAreGone == Spec => []NoFreedDevice
<1>1. PortsInv => NoFreedDevice BY DEF PortsInv
<1> QED BY <1>1, PortsInvariant, PTL

(***************************************************************************)
(* DOCS.md: devices that do not conflict each serve all of their ports,    *)
(* until they are destroyed.                                               *)
(***************************************************************************)
THEOREM DevicesKeepTheirPorts == Spec => []DevicesServed
<1>1. PortsInv => DevicesServed BY DEF PortsInv
<1> QED BY <1>1, PortsInvariant, PTL
=============================================================================
