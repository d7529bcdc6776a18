----------------------------- MODULE HidProofs -----------------------------
(***************************************************************************)
(* Proofs about Hid for any devices on the ports, any layouts and any      *)
(* number of plugs: the driver and the layout of a port are those of its   *)
(* device, a device gets the commands of its driver in order, the          *)
(* application gets whole reports only and no driver waits in vain.  They  *)
(* follow from one invariant, HidInv, which says for each port what its    *)
(* device has been told when the driver is in a given state and the host   *)
(* is, or is not, busy with the driver's request.                          *)
(***************************************************************************)
EXTENDS Hid, Integers, SequenceTheorems, TLAPS

-----------------------------------------------------------------------------
(* The invariant                                                            *)

LayoutSet == Layouts \union {PlainLayout, FakeLayout}
FoundSet == {parse_start} \union {Parsed[l] : l \in LayoutSet}
Attached == Kind \union {"none"}
InfoStates ==
  {"DISCONNECTED", "CONNECTED", "NOT_READY", "READY", "SET_IDLE", "GET_REPORT"}
Sources ==
  {"zero", "before", "parsed", "keyboard", "gun", "switch", "ps3", "xbox360",
   "xboxone"}
Lefts == {"zero", "now", "before"}
PortStates ==
  {"empty", "address", "device", "configuration", "report", "delay", "ready",
   "busy"}
SwitchCommands ==
  {"REQUEST_MAC", "HANDSHAKE", "BAUDRATE", "HANDSHAKE2", "NO_TIMEOUT",
   "NO_TIMEOUT2", "PLAYER_LED", "HOME_LED", "REPORT_MODE"}
OtherCommands ==
  {"SET_IDLE", "GET_REPORT", "REPORT_01", "REPORT_F2", "REPORT_F5", "LED",
   "INITIALIZE", "START", "PORT_RESET", "C_PORT_RESET", "KEY"}
Names == SwitchCommands \union OtherCommands \union {"none", "in", "GET_STATUS"}
Whats == {"none", "gone", "report", "other", "answer"}

RequestSet == [name : Names, ep : Nat]
Calls == Names \X Nat
Info == [state : InfoStates, type : Types, desc : BOOLEAN,
         source : [Fields -> Sources], found : FoundSet]
UsbInfo == [state : Int, kind : Attached, ep_in : Nat, ep_out : Nat,
            wait : BOOLEAN]
SwitchInfo == [joycon : {0, 1}, left : Lefts]
Given == [what : Whats, ep : Nat, left : Lefts]

InfoTypes ==
  /\ hid_info \in [Hubs -> Info] /\ usb_info \in [Hubs -> UsbInfo]
  /\ switch_info \in [Hubs -> SwitchInfo]
  /\ due \in [Hubs -> BOOLEAN] /\ given \in [Hubs -> Given]
HostTypes ==
  /\ next_hub \in Hubs /\ port \in [Hubs -> PortStates]
  /\ owner \in Hubs \union {NoHub} /\ transfer \in RequestSet
DeviceTypes ==
  /\ device \in [Hubs -> Attached] /\ layout \in [Hubs -> LayoutSet]
  /\ got \in [Hubs -> Seq(Calls)] /\ answer \in [Hubs -> RequestSet]
  /\ plugs \in Nat
  /\ \A h \in Hubs : device[h] \notin {"none", "pad"} =>
       layout[h] \in {PlainLayout, FakeLayout}
TypeInv == InfoTypes /\ HostTypes /\ DeviceTypes

\* A port has the lock while its device is asked something.
Locked == {"device", "configuration", "report", "busy"}
OwnerInv ==
  \A h \in Hubs : owner = h <=> port[h] \in Locked

Used == {"READY", "SET_IDLE", "GET_REPORT"}
Silent(h) == got[h] = <<>> /\ answer[h].name = "none"

\* What the host is busy with: a command to the device, a read, or a hub.
Commanding(h) == port[h] = "busy" /\ transfer.name \notin {"in", "GET_STATUS"}
Reading(h) == port[h] = "busy" /\ transfer.name = "in"
Asking(h) == port[h] = "busy" /\ transfer.name = "GET_STATUS"

\* How many commands of its protocol the driver has issued in its state.
SwitchPosition(kind, s, joycon) ==
  IF s = INITIALIZED THEN Len(Protocol(kind))
  ELSE IF s = CONNECTED THEN 0
  ELSE 9 * joycon + (s + 1) \div 3
HubPosition(s) ==
  IF s < HUB_PORT_RESET_WAIT THEN 0 ELSE IF s = HUB_PORT_SET_ADDRESS THEN 2 ELSE 1
HoriPosition(state) ==
  IF state = "READY" THEN 2 ELSE IF state = "GET_REPORT" THEN 1 ELSE 0
Position(h) ==
  LET s == usb_info[h].state
  IN CASE device[h] \in SwitchPads ->
            SwitchPosition(device[h], s, switch_info[h].joycon)
       [] device[h] = "ps3" -> IF s = PS3_READY THEN PS3_READY - 1 ELSE s
       [] device[h] \in Xbox -> s
       [] device[h] = "hub" -> HubPosition(s)
       [] device[h] = "gun" -> s - GUN_CONNECTED
       [] device[h] = "hori" -> HoriPosition(hid_info[h].state)
       [] OTHER -> 0

\* The device has been told all of them but the one the host is busy with.
Told(h, n) ==
  n \in 0..Len(Protocol(device[h])) /\ got[h] = SubSeq(Protocol(device[h]), 1, n)
CalledInv(h) ==
  IF Commanding(h)
  THEN /\ Told(h, Position(h) - 1) /\ Position(h) <= Len(Protocol(device[h]))
       /\ <<transfer.name, transfer.ep>> = Protocol(device[h])[Position(h)]
  ELSE Told(h, Position(h))

\* A Switch controller owes the answer to its last command, and no other,
\* while the driver reads for it.
Awaited(h) ==
  LET s == usb_info[h].state
  IN (Reads(s) \/ Receives(s)) /\ ~Commanding(h) /\ CommandOf(s) # "NO_TIMEOUT"
OwedInv(h) ==
  answer[h].name = IF Awaited(h) THEN AnswerName(CommandOf(usb_info[h].state))
                   ELSE "none"
SwitchInv(h) ==
  LET s == usb_info[h].state
  IN /\ s \in 0..INITIALIZED /\ (Commanding(h) => Reads(s))
     /\ Reading(h) => Receives(s) \/ s = INITIALIZED
     /\ port[h] # "busy" => ~Receives(s)
     /\ s # CONNECTED => switch_info[h].left \in {"zero", "now"}
     /\ device[h] = "pro" /\ s # CONNECTED =>
          switch_info[h].joycon = 0 /\ switch_info[h].left = "zero"
     /\ Reading(h) /\ s = INITIALIZED =>
          transfer.ep = IF device[h] = "grip" /\ switch_info[h].joycon = 0
                        THEN 2 ELSE 1
     /\ OwedInv(h)

Ps3Inv(h) ==
  LET s == usb_info[h].state
  IN /\ s \in 0..PS3_READY /\ (Reading(h) => s = PS3_READY)
     /\ Commanding(h) => s < PS3_READY
XboxInv(h) ==
  LET s == usb_info[h].state
      ready == IF device[h] = "xboxone" THEN STARTED ELSE 1
  IN s \in 0..ready /\ (Reading(h) => s = ready) /\ usb_info[h].ep_out = 2
HubInv(h) ==
  LET s == usb_info[h].state
  IN /\ s \in HUB_CONNECTED..HUB_PORT_SET_ADDRESS /\ ~Reading(h)
     /\ Asking(h) => s \in {HUB_GET_PORT_STATUS, HUB_PORT_RESET_WAIT}
     /\ Commanding(h) => s \in {HUB_PORT_RESET_WAIT, HUB_PORT_SET_ADDRESS}
     /\ port[h] # "busy" => s # HUB_GET_PORT_STATUS
GunInv(h) ==
  LET s == usb_info[h].state
  IN s \in {GUN_CONNECTED, GUN_READY} /\ (Reading(h) => s = GUN_READY)

DriverInv(h) ==
  /\ Asking(h) => device[h] = "hub"
  /\ device[h] \notin SwitchPads => answer[h].name = "none"
  /\ device[h] \in SwitchPads => SwitchInv(h)
  /\ device[h] = "ps3" => Ps3Inv(h)
  /\ device[h] \in Xbox => XboxInv(h)
  /\ device[h] = "hub" => HubInv(h)
  /\ device[h] = "gun" => GunInv(h)
  /\ Reading(h) => hid_info[h].state = "READY"
  /\ hid_info[h].state # "READY" => device[h] = "hori"

\* The type and the layout are the device's.
LayoutInv(h) ==
  /\ RightType(h)
  /\ \A f \in Fields : Writers(h, f) # {} => hid_info[h].source[f] \in Writers(h, f)
  /\ usb_info[h].ep_in = ReportEndpoint(device[h]) \/ device[h] = "hub"

\* Where the enumeration is with a port.
NewInv(h) == port[h] \in {"empty", "address", "device"} => Silent(h)
FirstInv(h) ==
  port[h] \in {"configuration", "report"} =>
    /\ Silent(h) /\ usb_info[h].kind = device[h]
    /\ usb_info[h].state = FirstState(device[h])
ConfigurationInv(h) ==
  port[h] = "configuration" =>
    /\ hid_info[h].state = "CONNECTED"
    /\ hid_info[h].type = TypeByIds(device[h])
ReportInv(h) ==
  port[h] = "report" =>
    /\ HasReportDesc(device[h])
    /\ hid_info[h].state \in {"CONNECTED", "NOT_READY"}
    /\ hid_info[h].type = WalkedType(device[h])
    /\ usb_info[h].ep_in = ReportEndpoint(device[h])
Enumerated(h) == port[h] \in {"delay", "ready", "busy"}
UsedInv(h) ==
  /\ usb_info[h].kind = device[h]
  /\ LayoutInv(h) /\ CalledInv(h) /\ DriverInv(h)
PortInv(h) ==
  /\ NewInv(h) /\ FirstInv(h) /\ ConfigurationInv(h) /\ ReportInv(h)
  /\ Enumerated(h) /\ hid_info[h].state \in Used => UsedInv(h)
  /\ Enumerated(h) /\ hid_info[h].state \notin Used => Silent(h) /\ port[h] # "busy"

PortsInv == \A h \in Hubs : Plugged(h) => PortInv(h)
HidInv == TypeInv /\ OwnerInv /\ PortsInv

-----------------------------------------------------------------------------
(* The commands                                                             *)

\* The numbers of the states.
LEMMA StateNumbers ==
  /\ Len(Commands) = 9 /\ INITIALIZED = 28 /\ CONNECTED = 0 /\ REQUEST_MAC = 1
  /\ HUB_CONNECTED = 1 /\ HUB_GET_PORT_STATUS = 2 /\ HUB_PORT_RESET = 3
  /\ HUB_PORT_RESET_WAIT = 4 /\ HUB_PORT_RESET_DONE = 5 /\ HUB_PORT_SET_ADDRESS = 6
  /\ HUB_PORT_SET_ADDRESS_DONE = 7 /\ GUN_CONNECTED = 8 /\ GUN_READY = 9
  /\ PS3_READY = 5 /\ STARTED = 2
BY DEF Commands, INITIALIZED, CONNECTED, REQUEST_MAC, HUB_CONNECTED,
       HUB_GET_PORT_STATUS, HUB_PORT_RESET, HUB_PORT_RESET_WAIT,
       HUB_PORT_RESET_DONE, HUB_PORT_SET_ADDRESS, HUB_PORT_SET_ADDRESS_DONE,
       GUN_CONNECTED, GUN_READY, PS3_READY, STARTED

\* The commands to a Switch controller are none of the other requests.
LEMMA CommandFacts ==
  /\ DOMAIN Commands = 1..9
  /\ \A i \in 1..9 : Commands[i] \in SwitchCommands
  /\ Commands[8] = "HOME_LED" /\ Commands[9] = "REPORT_MODE"
  /\ \A name \in SwitchCommands :
       /\ name \notin {"none", "in", "GET_STATUS"} \union ControlReads
       /\ AnswerName(name) \in SwitchCommands
BY DEF Commands, SwitchCommands, ControlReads, AnswerName

\* All the commands, to the same endpoint.
LEMMA ToEndpoint ==
  ASSUME NEW ep \in Nat, NEW calls, calls = [i \in 1..9 |-> <<Commands[i], ep>>]
  PROVE  /\ calls \in Seq(Calls) /\ Len(calls) = 9
         /\ \A i \in 1..9 : calls[i] = <<Commands[i], ep>>
<1>1. calls \in [1..9 -> Calls]
  BY CommandFacts DEF Calls, Names
<1>2. calls \in Seq(Calls)
  BY <1>1, IsASeq
<1>3. Len(calls) = 9
  BY <1>1, <1>2, LenProperties
<1> QED BY <1>2, <1>3

\* The protocols, command by command.
LEMMA SwitchProtocol ==
  /\ Protocol("pro") \in Seq(Calls) /\ Len(Protocol("pro")) = 9
  /\ \A i \in 1..9 : Protocol("pro")[i] = <<Commands[i], 1>>
  /\ Protocol("grip") \in Seq(Calls) /\ Len(Protocol("grip")) = 18
  /\ \A i \in 1..9 : /\ Protocol("grip")[i] = <<Commands[i], 1>>
                     /\ Protocol("grip")[9 + i] = <<Commands[i], 2>>
<1> DEFINE left == [i \in 1..9 |-> <<Commands[i], 1>>]
           right == [i \in 1..9 |-> <<Commands[i], 2>>]
<1>1. Protocol("pro") = left /\ Protocol("grip") = left \o right
  BY CommandFacts DEF Protocol
<1>2. /\ left \in Seq(Calls) /\ Len(left) = 9
      /\ \A i \in 1..9 : left[i] = <<Commands[i], 1>>
  BY ToEndpoint
<1>3. /\ right \in Seq(Calls) /\ Len(right) = 9
      /\ \A i \in 1..9 : right[i] = <<Commands[i], 2>>
  BY ToEndpoint
<1> HIDE DEF left, right
<1>4. /\ left \o right \in Seq(Calls) /\ Len(left \o right) = 18
      /\ \A i \in 1..18 : (left \o right)[i] =
           IF i <= 9 THEN left[i] ELSE right[i - 9]
  <2>1. /\ left \o right \in Seq(Calls)
        /\ Len(left \o right) = Len(left) + Len(right)
        /\ \A i \in 1..(Len(left) + Len(right)) : (left \o right)[i] =
             IF i <= Len(left) THEN left[i] ELSE right[i - Len(left)]
    BY <1>2, <1>3, ConcatProperties
  <2> QED BY <2>1, <1>2, <1>3
<1>5. ASSUME NEW i \in 1..9
      PROVE  /\ (left \o right)[i] = left[i]
             /\ (left \o right)[9 + i] = right[i]
  <2>1. i \in 1..18 /\ i <= 9
    OBVIOUS
  <2>2. 9 + i \in 1..18 /\ ~(9 + i <= 9) /\ (9 + i) - 9 = i
    OBVIOUS
  <2>3. (left \o right)[9 + i] = right[(9 + i) - 9]
    BY <2>2, <1>4
  <2> QED BY <2>1, <2>2, <2>3, <1>4
<1> QED BY <1>1, <1>2, <1>3, <1>4, <1>5

\* And the short ones.
LEMMA OtherProtocols ==
  /\ Len(Protocol("xbox360")) = 1 /\ Protocol("xbox360")[1] = <<"LED", 2>>
  /\ Len(Protocol("xboxone")) = 2 /\ Protocol("xboxone")[1] = <<"INITIALIZE", 2>>
  /\ Protocol("xboxone")[2] = <<"START", 2>>
  /\ Len(Protocol("ps3")) = 4 /\ Protocol("ps3")[1] = <<"SET_IDLE", 0>>
  /\ Protocol("ps3")[2] = <<"REPORT_01", 0>> /\ Protocol("ps3")[3] = <<"REPORT_F2", 0>>
  /\ Protocol("ps3")[4] = <<"REPORT_F5", 0>>
  /\ Len(Protocol("hori")) = 2 /\ Protocol("hori")[1] = <<"SET_IDLE", 0>>
  /\ Protocol("hori")[2] = <<"GET_REPORT", 0>>
  /\ Len(Protocol("hub")) = 2 /\ Protocol("hub")[1] = <<"PORT_RESET", 0>>
  /\ Protocol("hub")[2] = <<"C_PORT_RESET", 0>>
  /\ Len(Protocol("gun")) = 1 /\ Protocol("gun")[1] = <<"KEY", 2>>
BY DEF Protocol

\* What a device has been told after n commands, and after one more.
LEMMA Follows ==
  ASSUME NEW P \in Seq(Calls), NEW n \in 0..Len(P)
  PROVE  /\ SubSeq(P, 1, 0) = <<>> /\ SubSeq(P, 1, Len(P)) = P
         /\ IsPrefix(SubSeq(P, 1, n), P)
         /\ n + 1 <= Len(P) =>
              Append(SubSeq(P, 1, n), P[n + 1]) = SubSeq(P, 1, n + 1)
<1>1. SubSeq(P, 1, 0) = <<>>
  BY SubSeqEmpty
<1>2. SubSeq(P, 1, Len(P)) = P
  BY SubSeqFull
<1>3. \A i \in 1..Len(P) : P[i] \in Calls
  BY ElementOfSeq
<1>4. Len(P) \in Nat
  BY LenProperties
<1>5. SubSeq(P, 1, n) \in Seq(Calls) /\ Len(SubSeq(P, 1, n)) = n
  BY <1>3, <1>4, SubSeqProperties
<1>6. SubSeq(SubSeq(P, 1, n), 1, n) = SubSeq(P, 1, n)
  BY <1>5, SubSeqFull
<1>7. IsPrefix(SubSeq(P, 1, n), P)
  BY <1>4, <1>5, <1>6 DEF IsPrefix
<1>8. ASSUME n + 1 <= Len(P)
      PROVE  Append(SubSeq(P, 1, n), P[n + 1]) = SubSeq(P, 1, n + 1)
  <2>1. 1 \in 1..Len(P) /\ n + 1 \in 1..Len(P) /\ (n + 1) - 1 = n
    BY <1>4, <1>8
  <2>2. SubSeq(P, 1, n + 1) = SubSeq(P, 1, n) \o <<P[n + 1]>>
    BY <2>1, SubSeqRecursiveSecond
  <2>3. P[n + 1] \in Calls
    BY <2>1, <1>3
  <2> QED BY <2>2, <2>3, <1>5, AppendIsConcat
<1> QED BY <1>1, <1>2, <1>7, <1>8

\* Every protocol is a sequence of calls.
LEMMA ProtocolType ==
  \A kind \in Kind : Protocol(kind) \in Seq(Calls) /\ Len(Protocol(kind)) \in Nat
<1>1. SUFFICES ASSUME NEW kind \in Kind PROVE Protocol(kind) \in Seq(Calls)
  BY LenProperties
<1>2. CASE kind \in SwitchPads
  BY <1>2, SwitchProtocol DEF SwitchPads
<1> DEFINE Values == {<<name, ep>> : name \in OtherCommands, ep \in {0, 2}}
<1>0. Values \subseteq Calls
  BY DEF Calls, Names
<1>3. CASE kind = "ps3"
  <2>1. Protocol(kind) = [i \in 1..4 |-> Protocol(kind)[i]]
    BY <1>3 DEF Protocol
  <2>2. ASSUME NEW i \in 1..4 PROVE Protocol(kind)[i] \in Values
    BY <1>3, OtherProtocols DEF OtherCommands
  <2> QED BY <1>0, <2>1, <2>2, IsASeq
<1>4. CASE kind \in {"xboxone", "hori", "hub"}
  <2>1. Protocol(kind) = [i \in 1..2 |-> Protocol(kind)[i]]
    <3>1. CASE kind = "xboxone"
      BY <3>1 DEF Protocol
    <3>2. CASE kind = "hori"
      BY <3>2 DEF Protocol
    <3>3. CASE kind = "hub"
      BY <3>3 DEF Protocol
    <3> QED BY <1>4, <3>1, <3>2, <3>3
  <2>2. ASSUME NEW i \in 1..2 PROVE Protocol(kind)[i] \in Values
    <3>1. CASE kind = "xboxone"
      BY <3>1, OtherProtocols DEF OtherCommands
    <3>2. CASE kind \in {"hori", "hub"}
      BY <3>2, OtherProtocols DEF OtherCommands
    <3> QED BY <1>4, <3>1, <3>2
  <2> QED BY <1>0, <2>1, <2>2, IsASeq
<1>5. CASE kind \in {"xbox360", "gun"}
  <2>1. Protocol(kind) = [i \in 1..1 |-> Protocol(kind)[i]]
    BY <1>5 DEF Protocol
  <2>2. ASSUME NEW i \in 1..1 PROVE Protocol(kind)[i] \in Values
    BY <1>5, OtherProtocols DEF OtherCommands
  <2> QED BY <1>0, <2>1, <2>2, IsASeq
<1>6. CASE kind \notin SwitchPads \union
              {"ps3", "xboxone", "hori", "hub", "xbox360", "gun"}
  <2>1. Protocol(kind) = <<>>
    BY <1>6 DEF Protocol, SwitchPads
  <2> QED BY <2>1
<1> QED BY <1>2, <1>3, <1>4, <1>5, <1>6

\* Three states for each command: to send it, to read and to wait for its answer.
LEMMA SwitchStates ==
  /\ \A s \in 0..28 : s \in {0, 28} \/ \E i \in 1..9 : s \in {3 * i - 2, 3 * i - 1, 3 * i}
  /\ \A s \in {0, 28} : ~Sends(s) /\ ~Reads(s) /\ ~Receives(s)
  /\ \A i \in 1..9 :
       /\ Sends(3 * i - 2) /\ ~Reads(3 * i - 2) /\ ~Receives(3 * i - 2)
       /\ Reads(3 * i - 1) /\ ~Sends(3 * i - 1) /\ ~Receives(3 * i - 1)
       /\ Receives(3 * i) /\ ~Sends(3 * i) /\ ~Reads(3 * i)
       /\ CommandOf(3 * i - 2) = Commands[i] /\ CommandOf(3 * i - 1) = Commands[i]
       /\ CommandOf(3 * i) = Commands[i]
       /\ ((3 * i - 2) + 1) \div 3 = i - 1 /\ ((3 * i - 1) + 1) \div 3 = i
       /\ (3 * i + 1) \div 3 = i
<1>1. ASSUME NEW s \in 0..28
      PROVE  s \in {0, 28} \/ \E i \in 1..9 : s \in {3 * i - 2, 3 * i - 1, 3 * i}
  <2>1. s \notin {0, 28} => (s + 2) \div 3 \in 1..9
    OBVIOUS
  <2>2. s \in {3 * ((s + 2) \div 3) - 2, 3 * ((s + 2) \div 3) - 1, 3 * ((s + 2) \div 3)}
    OBVIOUS
  <2> QED BY <2>1, <2>2
<1>2. \A s \in {0, 28} : ~Sends(s) /\ ~Reads(s) /\ ~Receives(s)
  BY StateNumbers DEF Sends, Reads, Receives
<1>3. ASSUME NEW i \in 1..9
      PROVE  /\ Sends(3 * i - 2) /\ ~Reads(3 * i - 2) /\ ~Receives(3 * i - 2)
             /\ Reads(3 * i - 1) /\ ~Sends(3 * i - 1) /\ ~Receives(3 * i - 1)
             /\ Receives(3 * i) /\ ~Sends(3 * i) /\ ~Reads(3 * i)
  BY StateNumbers DEF Sends, Reads, Receives
<1>4. ASSUME NEW i \in 1..9
      PROVE  /\ ((3 * i - 2) + 2) \div 3 = i /\ ((3 * i - 1) + 2) \div 3 = i
             /\ (3 * i + 2) \div 3 = i
             /\ ((3 * i - 2) + 1) \div 3 = i - 1 /\ ((3 * i - 1) + 1) \div 3 = i
             /\ (3 * i + 1) \div 3 = i
  OBVIOUS
<1> QED BY <1>1, <1>2, <1>3, <1>4 DEF CommandOf

\* What a driver asks for is a request.
LEMMA RequestTypes ==
  /\ \A name \in Names, ep \in Nat : Request(name, ep) \in RequestSet
  /\ \A ep \in Nat : InRequest(ep) \in RequestSet
  /\ \A s \in Int, ep \in Nat : Sends(s) => Head(Sent(s, ep)) \in RequestSet
<1>1. \A name \in Names, ep \in Nat : Request(name, ep) \in RequestSet
  BY DEF Request, RequestSet
<1>2. \A ep \in Nat : InRequest(ep) \in RequestSet
  BY <1>1 DEF InRequest, Names
<1>3. ASSUME NEW s \in Int, NEW ep \in Nat, Sends(s)
      PROVE  /\ CommandOf(s) \in SwitchCommands
             /\ Sent(s, ep) # <<>> /\ Head(Sent(s, ep)) = Request(CommandOf(s), ep)
  <2>1. (s + 2) \div 3 \in 1..9
    BY <1>3, StateNumbers DEF Sends
  <2>2. CommandOf(s) \in SwitchCommands
    BY <2>1, CommandFacts DEF CommandOf
  <2> QED BY <2>2 DEF Sent
<1>4. ASSUME NEW s \in Int, NEW ep \in Nat, Sends(s)
      PROVE  Head(Sent(s, ep)) \in RequestSet
  BY <1>3, <1>4, <1>1 DEF Names
<1> QED BY <1>1, <1>2, <1>4

-----------------------------------------------------------------------------
(* Types                                                                    *)

Asks(requests) == requests # <<>> => Head(requests) \in RequestSet

\* A driver's calls take the lock with a request.
LEMMA SubmitTypes ==
  ASSUME HostTypes, NEW h \in Hubs, NEW requests, submit(h, requests), Asks(requests)
  PROVE  /\ port' \in [Hubs -> PortStates] /\ owner' \in Hubs \union {NoHub}
         /\ transfer' \in RequestSet
<1>1. CASE requests = <<>>
  BY <1>1 DEF submit, HostTypes, hostVars
<1>2. CASE requests # <<>>
  BY <1>2 DEF submit, HostTypes, Asks, PortStates
<1> QED BY <1>1, <1>2

\* A driver changes its state and makes its calls, and no more.
LEMMA DriveTypes ==
  ASSUME TypeInv, NEW h \in Hubs, NEW s \in Int, NEW requests,
         drive(h, s, requests), Asks(requests), next_hub' \in Hubs,
         switch_info' \in [Hubs -> SwitchInfo]
  PROVE  TypeInv'
<1>1. usb_info' \in [Hubs -> UsbInfo]
  BY DEF drive, TypeInv, InfoTypes, UsbInfo
<1>2. InfoTypes'
  BY <1>1 DEF drive, TypeInv, InfoTypes
<1>3. HostTypes'
  BY SubmitTypes DEF drive, TypeInv, HostTypes
<1>4. DeviceTypes'
  BY DEF drive, TypeInv, DeviceTypes, deviceVars
<1> QED BY <1>2, <1>3, <1>4 DEF TypeInv

\* The calls of the drivers are requests, or none.
LEMMA SingleRequest ==
  /\ Asks(<<>>) /\ \A r \in RequestSet : Asks(<<r>>)
  /\ \A ep \in Nat : Asks(<<InRequest(ep)>>)
  /\ \A s \in Int, ep \in Nat : Sends(s) => Asks(Sent(s, ep))
BY RequestTypes DEF Asks

\* A poll keeps the types.
LEMMA PollTypes ==
  ASSUME TypeInv, NEW h \in Hubs, hid_poll(h) PROVE TypeInv'
<1> DEFINE info == usb_info[h]
           s == info.state
<1>1. next_hub' \in Hubs
  BY DEF hid_poll, Hubs
<1>2. s \in Int /\ info.ep_in \in Nat /\ info.ep_out \in Nat
  BY DEF TypeInv, InfoTypes, UsbInfo
<1>3. switch_info \in [Hubs -> SwitchInfo]
  BY DEF TypeInv, InfoTypes
<1>4. CASE UNCHANGED <<infoVars, hostVars, deviceVars>>
  BY <1>1, <1>4 DEF TypeInv, InfoTypes, HostTypes, DeviceTypes, infoVars, hostVars,
       deviceVars
<1>5. ASSUME NEW from \in Int, NEW to \in Int, NEW requests, Asks(requests),
             Step(h, from, to, requests)
      PROVE  TypeInv'
  BY <1>1, <1>3, <1>5, DriveTypes DEF Step
<1>6. CASE hid_switch_poll(h)
  <2> DEFINE ep == switch_endpoint(h)
  <2>1. ep \in Nat
    BY DEF switch_endpoint
  <2>2. CASE s = CONNECTED /\ drive(h, s + 1, <<>>)
             /\ switch_info' = [switch_info EXCEPT ![h] = [joycon |-> 0, left |-> "zero"]]
    <3>1. switch_info' \in [Hubs -> SwitchInfo]
      BY <1>3, <2>2 DEF SwitchInfo, Lefts
    <3>2. s + 1 \in Int /\ Asks(<<>>)
      BY <1>2, SingleRequest
    <3> HIDE DEF s
    <3> QED BY <1>1, <2>2, <3>1, <3>2, DriveTypes
  <2>3. CASE Sends(s) /\ drive(h, s + 1, Sent(s, ep)) /\ UNCHANGED switch_info
    BY <1>1, <1>2, <1>3, <2>1, <2>3, SingleRequest, DriveTypes
  <2>4. CASE drive(h, s + 1, <<InRequest(ep)>>) /\ UNCHANGED switch_info
    BY <1>1, <1>2, <1>3, <2>1, <2>4, SingleRequest, DriveTypes
  <2>5. CASE drive(h, s, <<InRequest(ep)>>)
             /\ switch_info' = IF usb_info[h].kind = "grip"
                          THEN [switch_info EXCEPT ![h].joycon = 1 - @] ELSE switch_info
    <3>1. switch_info' \in [Hubs -> SwitchInfo]
      BY <1>3, <2>5 DEF SwitchInfo
    <3> QED BY <1>1, <1>2, <2>1, <2>5, <3>1, SingleRequest, DriveTypes
  <2> QED BY <1>6, <2>2, <2>3, <2>4, <2>5 DEF hid_switch_poll
<1>7. ASSUME NEW name \in OtherCommands \union {"GET_STATUS"}, NEW ep \in Nat
      PROVE  Asks(<<Request(name, ep)>>)
  BY RequestTypes, SingleRequest DEF Names
<1>8. /\ Asks(<<>>) /\ Asks(<<InRequest(2)>>) /\ Asks(<<InRequest(info.ep_in)>>)
  BY <1>2, SingleRequest
<1>9. CASE hid_dualshock3_poll(h)
  <2>1. /\ Asks(<<Request("SET_IDLE", 0)>>) /\ Asks(<<Request("REPORT_01", 0)>>)
        /\ Asks(<<Request("REPORT_F2", 0)>>) /\ Asks(<<Request("REPORT_F5", 0)>>)
    BY <1>7 DEF OtherCommands
  <2> QED BY <1>5, <1>8, <1>9, <2>1, StateNumbers DEF hid_dualshock3_poll
<1>10. CASE hid_xbox_360_poll(h) \/ hid_xbox_one_poll(h)
  <2>1. /\ Asks(<<Request("LED", info.ep_out)>>)
        /\ Asks(<<Request("INITIALIZE", info.ep_out)>>)
        /\ Asks(<<Request("START", info.ep_out)>>)
    BY <1>2, <1>7 DEF OtherCommands
  <2> QED BY <1>5, <1>8, <1>10, <2>1, StateNumbers
          DEF hid_xbox_360_poll, hid_xbox_one_poll
<1>11. CASE hub_switch(h)
  <2>0. HUB_PORT_SET_ADDRESS_DONE \in Int
    BY StateNumbers
  <2>1. usb_info' \in [Hubs -> UsbInfo]
    BY <1>11, <2>0 DEF hub_switch, TypeInv, InfoTypes, UsbInfo
  <2>2. InfoTypes'
    BY <1>11, <2>1 DEF hub_switch, TypeInv, InfoTypes
  <2>3. HostTypes'
    BY <1>1, <1>11 DEF hub_switch, TypeInv, HostTypes, PortStates
  <2>4. device' \in [Hubs -> Attached] /\ got' \in [Hubs -> Seq(Calls)]
    BY <1>11 DEF hub_switch, TypeInv, DeviceTypes, Attached, Kind
  <2>5. ASSUME NEW g \in Hubs, device'[g] \notin {"none", "pad"}
        PROVE  layout[g] \in {PlainLayout, FakeLayout}
    <3>1. device[g] \notin {"none", "pad"}
      BY <1>11, <2>5 DEF hub_switch, TypeInv, DeviceTypes
    <3> QED BY <3>1 DEF TypeInv, DeviceTypes
  <2>6. DeviceTypes'
    BY <1>11, <2>4, <2>5 DEF hub_switch, TypeInv, DeviceTypes
  <2> QED BY <2>2, <2>3, <2>6 DEF TypeInv
<1>12. CASE hid_guncon3_poll(h)
  <2>1. /\ Asks(<<Request("GET_STATUS", 0)>>) /\ Asks(<<Request("PORT_RESET", 0)>>)
        /\ Asks(<<Request("C_PORT_RESET", 0)>>) /\ Asks(<<Request("KEY", 2)>>)
    BY <1>7 DEF OtherCommands
  <2> QED BY <1>5, <1>8, <1>11, <1>12, <2>1, StateNumbers DEF hid_guncon3_poll
<1>13. CASE default_poll(h)
  BY <1>2, <1>5, <1>8, <1>13 DEF default_poll
<1>14. CASE poll_query(h)
  <2>1. PICK step \in {<<"SET_IDLE", "GET_REPORT">>, <<"GET_REPORT", "READY">>} :
          /\ hid_info' = [hid_info EXCEPT ![h].state = step[2]]
          /\ submit(h, <<Request(step[1], 0)>>)
          /\ UNCHANGED <<usb_info, switch_info, due, given, deviceVars>>
    BY <1>14 DEF poll_query
  <2>2. Asks(<<Request(step[1], 0)>>)
    BY <1>7 DEF OtherCommands
  <2>3. hid_info' \in [Hubs -> Info]
    <3>1. step[2] \in InfoStates
      BY DEF InfoStates
    <3> QED BY <2>1, <3>1 DEF TypeInv, InfoTypes, Info
  <2>4. InfoTypes'
    BY <2>1, <2>3 DEF TypeInv, InfoTypes
  <2>5. HostTypes'
    BY <1>1, <2>1, <2>2, SubmitTypes DEF TypeInv, HostTypes
  <2>6. DeviceTypes'
    BY <2>1 DEF TypeInv, DeviceTypes, deviceVars
  <2> QED BY <2>4, <2>5, <2>6 DEF TypeInv
<1> QED
  BY <1>4, <1>6, <1>9, <1>10, <1>12, <1>13, <1>14 DEF hid_poll, poll_ready

\* What a driver is told of the end of a request.
Packets ==
  {Nothing} \union
  [what : {"report", "other", "answer"}, name : Names \union {"RESET_DONE"}, ep : Nat]

\* What may come from a device.
LEMMA PacketTypes ==
  /\ Nothing \in Packets
  /\ \A ep \in Nat : Report(ep) \in Packets /\ Other(ep) \in Packets
  /\ \A name \in Names \union {"RESET_DONE"}, ep \in Nat : Answer(name, ep) \in Packets
BY DEF Packets, Report, Other, Answer, Names

\* The state a packet leaves the driver in is a number.
LEMMA ReportState ==
  ASSUME InfoTypes, NEW h \in Hubs, NEW packet \in Packets, hid_report(h, packet)
  PROVE  /\ \E s \in Int : usb_info' = [usb_info EXCEPT ![h].state = s]
         /\ switch_info' \in [Hubs -> SwitchInfo]
         /\ \A g \in Hubs \ {h} : switch_info'[g] = switch_info[g]
<1>1. CASE hid_info[h].type = "SWITCH"
  <2>1. hid_switch_report(h, packet)
    BY <1>1 DEF hid_report
  <2>2. switch_next(h, packet) \in Int /\ REQUEST_MAC \in Int
    BY StateNumbers DEF InfoTypes, UsbInfo, switch_next
  <2> DEFINE next == switch_next(h, packet)
             second == /\ next = INITIALIZED /\ usb_info[h].state # INITIALIZED
                       /\ usb_info[h].kind = "grip" /\ switch_info[h].joycon = 0
             left == /\ usb_info[h].state = INITIALIZED /\ packet.what = "report"
                     /\ switch_info[h].joycon # 0
             to == IF second THEN REQUEST_MAC ELSE next
  <2>3. \E s \in Int : usb_info' = [usb_info EXCEPT ![h].state = s]
    <3>1. usb_info' = [usb_info EXCEPT ![h].state = to]
      BY <2>1 DEF hid_switch_report
    <3>2. to \in Int
      BY <2>2
    <3> HIDE DEF to
    <3> QED BY <3>1, <3>2
  <2>4. switch_info' = [switch_info EXCEPT ![h].joycon = IF second THEN @ + 1 ELSE @,
                                           ![h].left = IF left THEN "now" ELSE @]
    BY <2>1 DEF hid_switch_report
  <2>5. switch_info' \in [Hubs -> SwitchInfo]
    <3> DEFINE joycon == IF second THEN switch_info[h].joycon + 1 ELSE switch_info[h].joycon
               half == IF left THEN "now" ELSE switch_info[h].left
    <3>1. joycon \in {0, 1} /\ half \in Lefts
      BY DEF InfoTypes, SwitchInfo, Lefts
    <3>2. switch_info' = [switch_info EXCEPT ![h].joycon = joycon, ![h].left = half]
      BY <2>4
    <3> HIDE DEF joycon, half
    <3> QED BY <3>1, <3>2 DEF InfoTypes, SwitchInfo
  <2>6. \A g \in Hubs \ {h} : switch_info'[g] = switch_info[g]
    <3> HIDE DEF second, left
    <3> QED BY <2>4 DEF InfoTypes
  <2> QED BY <2>3, <2>5, <2>6
<1>2. CASE hid_info[h].type = "ZAPPER"
  <2>1. hid_guncon3_report(h, packet) /\ UNCHANGED switch_info
    BY <1>2 DEF hid_report
  <2>2. \E s \in Int : usb_info' = [usb_info EXCEPT ![h].state = s]
    <3> DEFINE s == usb_info[h].state
               to == CASE s = HUB_GET_PORT_STATUS -> HUB_PORT_RESET
                       [] s = HUB_PORT_RESET_WAIT /\ packet.name = "RESET_DONE" ->
                            HUB_PORT_RESET_DONE
                       [] OTHER -> s
    <3>1. to \in Int
      BY StateNumbers DEF InfoTypes, UsbInfo
    <3>2. usb_info' = [usb_info EXCEPT ![h].state = to]
      BY <2>1 DEF hid_guncon3_report
    <3> HIDE DEF to
    <3> QED BY <3>1, <3>2
  <2> QED BY <2>1, <2>2 DEF InfoTypes
<1>3. CASE hid_info[h].type \notin {"SWITCH", "ZAPPER"}
  <2>1. UNCHANGED <<usb_info, switch_info>>
    BY <1>3 DEF hid_report
  <2>2. usb_info = [usb_info EXCEPT ![h].state = usb_info[h].state]
    BY DEF InfoTypes, UsbInfo
  <2>3. usb_info[h].state \in Int
    BY DEF InfoTypes, UsbInfo
  <2> QED BY <2>1, <2>2, <2>3 DEF InfoTypes
<1> QED BY <1>1, <1>2, <1>3

\* What a report of the device changes, whatever is in it.
LEMMA ReportTypes ==
  ASSUME InfoTypes, NEW h \in Hubs, NEW packet \in Packets, hid_report(h, packet)
  PROVE  InfoTypes'
<1>1. usb_info' \in [Hubs -> UsbInfo] /\ switch_info' \in [Hubs -> SwitchInfo]
  <2>1. PICK s \in Int : usb_info' = [usb_info EXCEPT ![h].state = s]
    BY ReportState
  <2> QED BY <2>1, ReportState DEF InfoTypes, UsbInfo
<1>2. due' \in [Hubs -> BOOLEAN]
  BY DEF hid_report, InfoTypes
<1>3. given' \in [Hubs -> Given]
  <2>1. CASE packet = Nothing \/ uses(h, packet)
    BY <2>1 DEF hid_report, InfoTypes
  <2>2. CASE ~(packet = Nothing \/ uses(h, packet))
    <3>1. packet.what \in Whats /\ packet.ep \in Nat
      BY <2>2 DEF Packets, Whats
    <3>2. switch_info[h].left \in Lefts
      BY DEF InfoTypes, SwitchInfo
    <3>3. given' = [given EXCEPT ![h] =
                     [what |-> packet.what, ep |-> packet.ep, left |-> switch_info[h].left]]
      BY <2>2 DEF hid_report
    <3> QED BY <3>1, <3>2, <3>3 DEF InfoTypes, Given
  <2> QED BY <2>1, <2>2
<1>4. hid_info' \in [Hubs -> Info]
  BY DEF hid_report, InfoTypes
<1> QED BY <1>1, <1>2, <1>3, <1>4 DEF InfoTypes

\* The host goes on with a port.
LEMMA GotoTypes ==
  ASSUME HostTypes, NEW h \in Hubs, NEW state \in PortStates, NEW free \in BOOLEAN,
         Goto(h, state, free)
  PROVE  HostTypes'
BY DEF HostTypes, Goto

\* A request has been carried out.
LEMMA AcceptTypes ==
  ASSUME HostTypes, DeviceTypes, NEW h \in Hubs, Accepts(h)
  PROVE  DeviceTypes'
<1>1. transfer.name \in Names /\ transfer.ep \in Nat
  BY DEF HostTypes, RequestSet
<1>2. got' \in [Hubs -> Seq(Calls)]
  <2>1. <<transfer.name, transfer.ep>> \in Calls
    BY <1>1 DEF Calls
  <2>2. Append(got[h], <<transfer.name, transfer.ep>>) \in Seq(Calls)
    BY <2>1, AppendProperties DEF DeviceTypes
  <2> QED BY <2>2 DEF Accepts, DeviceTypes
<1>3. AnswerName(transfer.name) \in Names
  BY <1>1 DEF AnswerName, Names, SwitchCommands
<1>4. answer' \in [Hubs -> RequestSet]
  BY <1>1, <1>3 DEF Accepts, DeviceTypes, RequestSet
<1> QED BY <1>2, <1>4 DEF Accepts, DeviceTypes

\* The end of a request keeps the types.
LEMMA EndTypes ==
  ASSUME TypeInv, NEW h \in Hubs,
         OutEnds(h) \/ ControlReadEnds(h) \/ InNaks(h) \/ InReports(h) \/ InOther(h)
           \/ InAnswers(h)
  PROVE  TypeInv'
<1>1. transfer.name \in Names /\ transfer.ep \in Nat /\ answer[h].name \in Names
  BY DEF TypeInv, HostTypes, DeviceTypes, RequestSet
<1>2. HostTypes'
  <2>1. Goto(h, "delay", TRUE)
    BY DEF OutEnds, ControlReadEnds, InNaks, InReports, InOther, InAnswers, InEnds, Ends
  <2> QED BY <2>1, GotoTypes DEF TypeInv, PortStates
<1>3. CASE OutEnds(h)
  <2>1. InfoTypes'
    BY <1>3 DEF OutEnds, TypeInv, InfoTypes, infoVars
  <2> QED BY <1>2, <1>3, <2>1, AcceptTypes DEF OutEnds, TypeInv
<1>4. ASSUME NEW packet \in Packets, hid_report(h, packet) PROVE InfoTypes'
  BY <1>4, ReportTypes DEF TypeInv
<1>5. CASE ControlReadEnds(h)
  <2>1. Answer(transfer.name, 0) \in Packets /\ Answer("RESET_DONE", 0) \in Packets
    BY <1>1, PacketTypes
  <2>2. InfoTypes'
    BY <1>4, <1>5, <2>1 DEF ControlReadEnds
  <2> QED BY <1>2, <1>5, <2>2, AcceptTypes DEF ControlReadEnds, TypeInv
<1>7. CASE InNaks(h) \/ InReports(h) \/ InOther(h)
  <2>1. InfoTypes'
    BY <1>1, <1>4, <1>7, PacketTypes DEF InNaks, InReports, InOther
  <2>2. DeviceTypes'
    BY <1>7 DEF InNaks, InReports, InOther, TypeInv, DeviceTypes, deviceVars
  <2> QED BY <1>2, <2>1, <2>2 DEF TypeInv
<1>8. CASE InAnswers(h)
  <2>1. Answer(answer[h].name, transfer.ep) \in Packets
    BY <1>1, PacketTypes
  <2>2. InfoTypes'
    BY <1>4, <1>8, <2>1 DEF InAnswers
  <2>3. answer' \in [Hubs -> RequestSet]
    BY <1>8 DEF InAnswers, TypeInv, DeviceTypes, RequestSet, Names
  <2>4. DeviceTypes'
    BY <1>8, <2>3 DEF InAnswers, TypeInv, DeviceTypes
  <2> QED BY <1>2, <2>2, <2>4 DEF TypeInv
<1> QED BY <1>3, <1>5, <1>7, <1>8

-----------------------------------------------------------------------------
(* What the enumeration writes                                              *)

\* The layout of a port, some of whose fields have been written.
LEMMA WriteTypes ==
  ASSUME NEW source \in [Fields -> Sources], NEW fs, NEW by \in Sources
  PROVE  Write(source, fs, by) \in [Fields -> Sources]
BY DEF Write

\* The types that the walk through a configuration ends with.
LEMMA WalkedTypes ==
  \A kind \in Kind :
    /\ TypeByIds(kind) \in Types /\ WalkedType(kind) \in Types
    /\ FirstState(kind) \in {0, 1, 8}
BY StateNumbers DEF TypeByIds, WalkedType, Types, FirstState

\* The record of one port is changed.
LEMMA UpdatedAt ==
  ASSUME NEW S, NEW f \in [Hubs -> S], NEW h \in Hubs, NEW v \in S
  PROVE  /\ [f EXCEPT ![h] = v] \in [Hubs -> S] /\ [f EXCEPT ![h] = v][h] = v
         /\ \A g \in Hubs \ {h} : [f EXCEPT ![h] = v][g] = f[g]
OBVIOUS

\* What check_device_desc leaves at the port.
LEMMA DeviceDescEffect ==
  ASSUME InfoTypes, NEW h \in Hubs, device[h] \in Kind, check_device_desc(h)
  PROVE  /\ hid_info' \in [Hubs -> Info] /\ usb_info' \in [Hubs -> UsbInfo]
         /\ \A g \in Hubs \ {h} : hid_info'[g] = hid_info[g] /\ usb_info'[g] = usb_info[g]
         /\ hid_info'[h].state = "CONNECTED" /\ hid_info'[h].type = TypeByIds(device[h])
         /\ usb_info'[h].state = FirstState(device[h]) /\ usb_info'[h].kind = device[h]
         /\ due' \in [Hubs -> BOOLEAN] /\ UNCHANGED <<switch_info, given>>
<1> DEFINE type == TypeByIds(device[h])
           desc == device[h] = "xbox360"
           slow == device[h] = "slow"
           number == FirstState(device[h])
<1>1. type \in Types /\ number \in Int /\ device[h] \in Attached
  BY WalkedTypes, StateNumbers DEF Attached
<1>2. /\ hid_info' = [hid_info EXCEPT ![h].state = "CONNECTED", ![h].type = type,
                                      ![h].desc = desc]
      /\ usb_info' = [usb_info EXCEPT ![h] =
           [state |-> number, kind |-> device[h], ep_in |-> 0, ep_out |-> 0,
            wait |-> slow]]
  BY DEF check_device_desc
<1>3. desc \in BOOLEAN /\ slow \in BOOLEAN
  OBVIOUS
<1>4. due' \in [Hubs -> BOOLEAN] /\ UNCHANGED <<switch_info, given>>
  BY DEF check_device_desc, InfoTypes
<1> HIDE DEF type, number, desc, slow
<1>5. /\ hid_info' \in [Hubs -> Info]
      /\ \A g \in Hubs \ {h} : hid_info'[g] = hid_info[g]
      /\ hid_info'[h].state = "CONNECTED" /\ hid_info'[h].type = type
  <2> DEFINE info == [hid_info[h] EXCEPT !.state = "CONNECTED", !.type = type, !.desc = desc]
  <2>1. hid_info[h] \in Info
    BY DEF InfoTypes
  <2>2. info \in Info /\ info.state = "CONNECTED" /\ info.type = type
    BY <1>1, <1>3, <2>1 DEF Info, InfoStates
  <2>3. hid_info' = [hid_info EXCEPT ![h] = info] /\ hid_info \in [Hubs -> Info]
    BY <1>2 DEF InfoTypes
  <2> HIDE DEF info
  <2> QED BY <2>2, <2>3, UpdatedAt
<1>6. /\ usb_info' \in [Hubs -> UsbInfo]
      /\ \A g \in Hubs \ {h} : usb_info'[g] = usb_info[g]
      /\ usb_info'[h].state = number /\ usb_info'[h].kind = device[h]
  BY <1>1, <1>2, <1>3 DEF InfoTypes, UsbInfo
<1> QED BY <1>4, <1>5, <1>6 DEF type, number

\* The drivers that initialize the layout when the configuration is known.
LEMMA InitializesFacts ==
  /\ DOMAIN Initializes = {"KEYBOARD", "ZAPPER", "XBOX_360", "XBOX_ONE"}
  /\ Initializes["KEYBOARD"] = "keyboard" /\ Initializes["ZAPPER"] = "gun"
  /\ Initializes["XBOX_360"] = "xbox360" /\ Initializes["XBOX_ONE"] = "xboxone"
BY DEF Initializes

\* What check_configuration_desc leaves at the port.
LEMMA ConfigurationEffect ==
  ASSUME InfoTypes, NEW h \in Hubs, NEW kind \in Kind, device[h] = kind,
         hid_info[h].type = TypeByIds(kind), check_configuration_desc(h)
  PROVE  /\ hid_info' \in [Hubs -> Info] /\ usb_info' \in [Hubs -> UsbInfo]
         /\ \A g \in Hubs \ {h} : hid_info'[g] = hid_info[g] /\ usb_info'[g] = usb_info[g]
         /\ hid_info'[h].type = WalkedType(kind)
         /\ IF WalkedType(kind) \in DOMAIN Initializes
            THEN /\ hid_info'[h].state = "READY"
                 /\ hid_info'[h].source = Write(hid_info[h].source,
                      FieldsOf[Initializes[WalkedType(kind)]],
                      Initializes[WalkedType(kind)])
            ELSE hid_info'[h].state \in {"NOT_READY", hid_info[h].state}
         /\ usb_info'[h].state = IF WalkedType(kind) \in {"XBOX_360", "XBOX_ONE"}
                                 THEN CONNECTED ELSE usb_info[h].state
         /\ usb_info'[h].kind = usb_info[h].kind
         /\ kind \notin {"hub", "dongle"} => usb_info'[h].ep_in = ReportEndpoint(kind)
         /\ kind \in Xbox => usb_info'[h].ep_out = 2
         /\ UNCHANGED <<switch_info, due, given>>
<1> DEFINE info == hid_info[h]
           usb == usb_info[h]
           type == WalkedType(kind)
<1>1. info \in Info /\ usb \in UsbInfo
  BY DEF InfoTypes
<1> DEFINE w == walk(h)
<1>3. /\ w.type = type /\ w.desc \in BOOLEAN /\ w.ep_in \in 0..3 /\ w.ep_out \in 0..3
      /\ kind \notin {"hub", "dongle"} => w.ep_in = ReportEndpoint(kind)
      /\ kind \in Xbox => w.ep_out = 2
  <2>1. info.desc \in BOOLEAN
    BY <1>1 DEF Info
  <2>2. w = WalkFrom(TypeByIds(kind), info.desc, kind)
    BY DEF walk
  <2> QED BY <2>1, <2>2, WalksFind
<1> DEFINE by == IF type \in DOMAIN Initializes THEN {Initializes[type]} ELSE {}
           state == IF by # {} THEN "READY"
                    ELSE IF w.desc /\ w.ep_in # 0 THEN "NOT_READY" ELSE info.state
           source == IF by = {} THEN info.source
                     ELSE LET d == CHOOSE d \in by : TRUE
                          IN Write(info.source, FieldsOf[d], d)
<1>4. /\ hid_info' = [hid_info EXCEPT ![h].type = type, ![h].desc = w.desc,
                       ![h].state = state, ![h].source = source]
      /\ usb_info' = [usb_info EXCEPT ![h].ep_in = w.ep_in, ![h].ep_out = w.ep_out,
           ![h].state = IF type \in {"XBOX_360", "XBOX_ONE"} THEN CONNECTED ELSE @]
      /\ UNCHANGED <<switch_info, due, given>>
  BY <1>3 DEF check_configuration_desc
<1>5. IF type \in DOMAIN Initializes
      THEN /\ state = "READY"
           /\ source = Write(info.source, FieldsOf[Initializes[type]], Initializes[type])
      ELSE state \in {"NOT_READY", info.state} /\ source = info.source
  <2>1. CASE type \in DOMAIN Initializes
    <3>1. by = {Initializes[type]}
      BY <2>1
    <3>2. (CHOOSE d \in by : TRUE) = Initializes[type]
      BY <3>1
    <3> QED BY <2>1, <3>1, <3>2
  <2>2. CASE type \notin DOMAIN Initializes
    BY <2>2
  <2> QED BY <2>1, <2>2
<1>6. state \in InfoStates
  BY <1>1, <1>5 DEF InfoStates, Info
<1>7. source \in [Fields -> Sources]
  <2>1. type \in DOMAIN Initializes => Initializes[type] \in Sources
    BY InitializesFacts DEF Sources
  <2>2. info.source \in [Fields -> Sources]
    BY <1>1 DEF Info
  <2> QED BY <1>5, <2>1, <2>2, WriteTypes
<1> DEFINE number == IF type \in {"XBOX_360", "XBOX_ONE"} THEN CONNECTED ELSE usb.state
<1>8. type \in Types /\ number \in Int
  BY <1>1, WalkedTypes, StateNumbers DEF UsbInfo
<1>9. usb_info' = [usb_info EXCEPT ![h].ep_in = w.ep_in, ![h].ep_out = w.ep_out,
                                   ![h].state = number]
  BY <1>4
<1> HIDE DEF state, source, type, by, w, number
<1>10. /\ hid_info' \in [Hubs -> Info]
       /\ \A g \in Hubs \ {h} : hid_info'[g] = hid_info[g]
  <2> DEFINE after == [hid_info[h] EXCEPT !.type = type, !.desc = w.desc,
                                          !.state = state, !.source = source]
  <2>1. after \in Info
    BY <1>1, <1>3, <1>6, <1>7, <1>8 DEF Info
  <2>2. hid_info' = [hid_info EXCEPT ![h] = after] /\ hid_info \in [Hubs -> Info]
    BY <1>4 DEF InfoTypes
  <2> HIDE DEF after
  <2> QED BY <2>1, <2>2, UpdatedAt
<1>11. /\ hid_info'[h].type = type /\ hid_info'[h].state = state
       /\ hid_info'[h].source = source
  BY <1>1, <1>4 DEF InfoTypes, Info
<1>12. /\ usb_info' \in [Hubs -> UsbInfo]
       /\ \A g \in Hubs \ {h} : usb_info'[g] = usb_info[g]
  <2> DEFINE after == [usb_info[h] EXCEPT !.ep_in = w.ep_in, !.ep_out = w.ep_out,
                                          !.state = number]
  <2>0. w.ep_in \in Nat /\ w.ep_out \in Nat
    BY <1>3
  <2>1. after \in UsbInfo
    BY <1>1, <1>8, <2>0 DEF UsbInfo
  <2>2. usb_info' = [usb_info EXCEPT ![h] = after] /\ usb_info \in [Hubs -> UsbInfo]
    BY <1>9 DEF InfoTypes
  <2> HIDE DEF after
  <2> QED BY <2>1, <2>2, UpdatedAt
<1>13. /\ usb_info'[h].state = number /\ usb_info'[h].kind = usb_info[h].kind
       /\ usb_info'[h].ep_in = w.ep_in /\ usb_info'[h].ep_out = w.ep_out
  BY <1>1, <1>9 DEF InfoTypes, UsbInfo
<1> QED BY <1>3, <1>4, <1>5, <1>10, <1>11, <1>12, <1>13 DEF type, number

\* The types of devices with report descriptors, and who writes their layouts.
KnownTypes(kind) ==
  CASE kind \in SwitchPads -> {"SWITCH"} [] kind = "ps3" -> {"PS3"}
    [] kind = "mouse" -> {"MOUSE"} [] OTHER -> {"UNKNOWN", "GENERIC", "PS4"}
WrittenBy(kind, f) ==
  CASE kind \in SwitchPads -> IF f \in FieldsOf.switch THEN "switch" ELSE "parsed"
    [] kind = "ps3" -> IF f \in FieldsOf.ps3 THEN "ps3" ELSE "parsed"
    [] OTHER -> "parsed"

\* What check_hid_report_desc leaves at the port: the type the ids gave a pad,
\* unless they gave none, and its layout, which the drivers that know better
\* write over.
LEMMA HidReportEffect ==
  ASSUME InfoTypes, DeviceTypes, NEW h \in Hubs, NEW kind \in Kind, device[h] = kind,
         HasReportDesc(kind), hid_info[h].type = WalkedType(kind),
         usb_info[h].kind = kind, check_hid_report_desc(h)
  PROVE  /\ hid_info' \in [Hubs -> Info]
         /\ \A g \in Hubs \ {h} : hid_info'[g] = hid_info[g]
         /\ IF hid_info[h].state # "NOT_READY" THEN hid_info'[h] = hid_info[h]
            ELSE /\ hid_info'[h].state = IF kind = "hori" THEN "SET_IDLE" ELSE "READY"
                 /\ hid_info'[h].type \in KnownTypes(kind)
                 /\ \A f \in Fields : hid_info'[h].source[f] = WrittenBy(kind, f)
         /\ UNCHANGED <<usb_info, switch_info, due, given>>
<1> DEFINE found == Parsed[layout[h]]
           parsed == Write(hid_info[h].source, Fields, "parsed")
           type == IF found.ps4 THEN "PS4"
                   ELSE IF hid_info[h].type = "UNKNOWN" /\ is_generic(found) THEN "GENERIC"
                   ELSE hid_info[h].type
           state == IF kind = "hori" THEN "SET_IDLE" ELSE "READY"
           source == CASE type = "SWITCH" -> Write(parsed, FieldsOf.switch, "switch")
                       [] type = "PS3" -> Write(parsed, FieldsOf.ps3, "ps3")
                       [] OTHER -> parsed
           after == [hid_info[h] EXCEPT !.found = found, !.type = type,
                                        !.state = state, !.source = source]
<1>1. hid_info[h] \in Info /\ hid_info \in [Hubs -> Info]
  BY DEF InfoTypes
<1>2. UNCHANGED <<usb_info, switch_info, due, given>>
  BY DEF check_hid_report_desc
<1>3. CASE hid_info[h].state # "NOT_READY"
  <2>1. hid_info' = hid_info
    BY <1>3 DEF check_hid_report_desc
  <2> QED BY <1>1, <1>2, <1>3, <2>1
<1>4. CASE hid_info[h].state = "NOT_READY"
  <2>1. hid_info' = [hid_info EXCEPT ![h] = after]
    BY <1>4 DEF check_hid_report_desc
  <2>2. layout[h] \in LayoutSet /\ found \in FoundSet
    BY DEF DeviceTypes, FoundSet
  <2>3. kind # "pad" => ~found.ps4
    <3>1. kind # "pad" => layout[h] \in {PlainLayout, FakeLayout}
      BY DEF DeviceTypes, Kind, HidPads, Xbox
    <3>2. \A l \in {PlainLayout, FakeLayout} : Parsed[l] = parse(Items(l))
      BY DEF Parsed
    <3> QED BY <3>1, <3>2, ParserFinds
  <2>4. hid_info[h].type = IF kind \in SwitchPads THEN "SWITCH"
                           ELSE IF kind = "ps3" THEN "PS3"
                           ELSE IF kind = "mouse" THEN "MOUSE" ELSE "UNKNOWN"
    BY DEF WalkedType, TypeByIds, HasReportDesc, HidPads, SwitchPads
  <2>5. type \in KnownTypes(kind)
    BY <2>3, <2>4 DEF KnownTypes, SwitchPads
  <2>6. type \in Types /\ (type = "SWITCH" <=> kind \in SwitchPads)
        /\ (type = "PS3" <=> kind = "ps3")
    BY <2>5 DEF KnownTypes, SwitchPads, Types
  <2>7. parsed \in [Fields -> Sources] /\ \A f \in Fields : parsed[f] = "parsed"
    BY <1>1 DEF Write, Info, Sources
  <2>8. source = IF kind \in SwitchPads THEN Write(parsed, FieldsOf.switch, "switch")
                 ELSE IF kind = "ps3" THEN Write(parsed, FieldsOf.ps3, "ps3")
                 ELSE parsed
    BY <2>6 DEF SwitchPads
  <2> HIDE DEF found, parsed, type, source
  <2>9. /\ source \in [Fields -> Sources]
        /\ \A f \in Fields : source[f] = WrittenBy(kind, f)
    BY <2>7, <2>8 DEF WrittenBy, Write, Sources, SwitchPads
  <2>10. state \in InfoStates
    BY DEF InfoStates
  <2> HIDE DEF state
  <2>11. /\ after \in Info /\ after.state = state /\ after.type = type
         /\ after.source = source
    BY <1>1, <2>2, <2>6, <2>9, <2>10 DEF Info
  <2> HIDE DEF after
  <2>12. /\ hid_info' \in [Hubs -> Info] /\ hid_info'[h] = after
         /\ \A g \in Hubs \ {h} : hid_info'[g] = hid_info[g]
    BY <1>1, <2>1, <2>11, UpdatedAt
  <2> QED BY <1>2, <1>4, <2>5, <2>9, <2>11, <2>12 DEF state
<1> QED BY <1>3, <1>4

\* What is known of a port whose device is being enumerated.
LEMMA Enumerating ==
  ASSUME TypeInv, PortsInv, NEW h \in Hubs, Plugged(h)
  PROVE  /\ device[h] \in Kind /\ PortInv(h)
         /\ port[h] = "configuration" => hid_info[h].type = TypeByIds(device[h])
         /\ port[h] = "report" =>
              /\ HasReportDesc(device[h]) /\ hid_info[h].type = WalkedType(device[h])
              /\ usb_info[h].kind = device[h]
BY DEF TypeInv, DeviceTypes, Attached, Plugged, PortsInv, PortInv, ConfigurationInv,
       ReportInv, FirstInv

\* A step of the enumeration keeps the types.
LEMMA EnumerateTypes ==
  ASSUME TypeInv, PortsInv, NEW h \in Hubs, Enumerates(h)
  PROVE  TypeInv'
<1>1. Plugged(h) /\ UNCHANGED deviceVars
  BY DEF Enumerates
<1>2. DeviceTypes'
  BY <1>1 DEF TypeInv, DeviceTypes, deviceVars
<1>3. HostTypes'
  BY GotoTypes DEF Enumerates, TypeInv, PortStates
<1>4. CASE port[h] = "device" /\ check_device_desc(h)
  BY <1>1, <1>2, <1>3, <1>4, DeviceDescEffect, Enumerating DEF TypeInv, InfoTypes
<1>5. CASE port[h] = "configuration" /\ check_configuration_desc(h)
  BY <1>1, <1>2, <1>3, <1>5, ConfigurationEffect, Enumerating DEF TypeInv, InfoTypes
<1>6. CASE port[h] = "report" /\ check_hid_report_desc(h)
  BY <1>1, <1>2, <1>3, <1>6, HidReportEffect, Enumerating DEF TypeInv, InfoTypes
<1> QED BY <1>4, <1>5, <1>6 DEF Enumerates

\* A device that is plugged in has a kind and a layout.
LEMMA PlugTypes ==
  ASSUME TypeInv, NEW h \in Hubs, Plug(h)
  PROVE  TypeInv'
<1>1. InfoTypes' /\ HostTypes'
  BY DEF Plug, TypeInv, InfoTypes, HostTypes, infoVars, hostVars
<1>2. PICK kind \in KindsAt[h] :
        /\ device' = [device EXCEPT ![h] = kind]
        /\ \E l \in CASE kind = "pad" -> Layouts [] kind \in SwitchPads -> {FakeLayout}
                      [] OTHER -> {PlainLayout} :
             layout' = [layout EXCEPT ![h] = l]
  BY DEF Plug
<1>3. kind \in Kind
  BY HidAssumption
<1>4. PICK l : /\ l \in CASE kind = "pad" -> Layouts [] kind \in SwitchPads -> {FakeLayout}
                          [] OTHER -> {PlainLayout}
               /\ layout' = [layout EXCEPT ![h] = l]
  BY <1>2
<1>5. l \in LayoutSet /\ (kind # "pad" => l \in {PlainLayout, FakeLayout})
  BY <1>4 DEF LayoutSet, SwitchPads
<1>6. device' \in [Hubs -> Attached] /\ layout' \in [Hubs -> LayoutSet]
  BY <1>2, <1>3, <1>4, <1>5 DEF TypeInv, DeviceTypes, Attached
<1>7. got' \in [Hubs -> Seq(Calls)] /\ answer' \in [Hubs -> RequestSet]
  <2>1. [name |-> "none", ep |-> 0] \in RequestSet
    BY DEF RequestSet, Names
  <2> QED BY <2>1 DEF Plug, TypeInv, DeviceTypes
<1>8. plugs' \in Nat
  BY DEF Plug, TypeInv, DeviceTypes
<1>9. ASSUME NEW g \in Hubs, device'[g] \notin {"none", "pad"}
      PROVE  layout'[g] \in {PlainLayout, FakeLayout}
  BY <1>2, <1>4, <1>5, <1>9 DEF TypeInv, DeviceTypes
<1> QED BY <1>1, <1>6, <1>7, <1>8, <1>9 DEF TypeInv, DeviceTypes

\* What a device leaves behind when it is unplugged.
LEMMA UnplugTypes ==
  ASSUME TypeInv, NEW h \in Hubs, Unplug(h) \/ Disconnect(h)
  PROVE  TypeInv'
<1>1. hid_info[h] \in Info /\ hid_info \in [Hubs -> Info]
  BY DEF TypeInv, InfoTypes
<1>2. CASE Unplug(h)
  <2> DEFINE source == [f \in Fields |-> IF hid_info[h].source[f] = "zero"
                                         THEN "zero" ELSE "before"]
  <2>1. source \in [Fields -> Sources]
    BY DEF Sources
  <2>2. hid_info' = [hid_info EXCEPT ![h].source = source]
    BY <1>2 DEF Unplug
  <2> HIDE DEF source
  <2>3. hid_info' \in [Hubs -> Info]
    BY <1>1, <2>1, <2>2 DEF Info
  <2>4. switch_info' \in [Hubs -> SwitchInfo]
    BY <1>2 DEF Unplug, TypeInv, InfoTypes, SwitchInfo, Lefts
  <2>5. device' \in [Hubs -> Attached]
    BY <1>2 DEF Unplug, TypeInv, DeviceTypes, Attached
  <2>6. ASSUME NEW g \in Hubs, device'[g] \notin {"none", "pad"}
        PROVE  layout[g] \in {PlainLayout, FakeLayout}
    BY <1>2, <2>6 DEF Unplug, TypeInv, DeviceTypes
  <2>7. InfoTypes'
    BY <1>2, <2>3, <2>4 DEF Unplug, TypeInv, InfoTypes
  <2>8. HostTypes'
    BY <1>2 DEF Unplug, TypeInv, HostTypes, hostVars
  <2>9. DeviceTypes'
    BY <1>2, <2>5, <2>6 DEF Unplug, TypeInv, DeviceTypes
  <2> QED BY <2>7, <2>8, <2>9 DEF TypeInv
<1>3. CASE Disconnect(h)
  <2>1. hid_info' \in [Hubs -> Info]
    <3> DEFINE source == [hid_info[h].source EXCEPT !["size"] = "zero"]
    <3>1. source \in [Fields -> Sources]
      BY <1>1 DEF Info, Sources
    <3>2. hid_info' = [hid_info EXCEPT ![h].state = "DISCONNECTED", ![h].source = source]
      BY <1>1, <1>3 DEF Disconnect, disconnected
    <3> HIDE DEF source
    <3> QED BY <1>1, <3>1, <3>2 DEF Info, InfoStates
  <2>2. given' \in [Hubs -> Given]
    BY <1>3 DEF Disconnect, disconnected, TypeInv, InfoTypes, Given, Whats, Lefts
  <2>3. InfoTypes'
    BY <1>3, <2>1, <2>2 DEF Disconnect, disconnected, TypeInv, InfoTypes
  <2>4. HostTypes'
    BY <1>3 DEF Disconnect, TypeInv, HostTypes, PortStates
  <2>5. DeviceTypes'
    BY <1>3 DEF Disconnect, TypeInv, DeviceTypes, deviceVars
  <2> QED BY <2>3, <2>4, <2>5 DEF TypeInv
<1> QED BY <1>2, <1>3

\* Every step keeps the types; the walk needs the type the ids have given.
LEMMA TypeStep ==
  ASSUME TypeInv, PortsInv, [Next]_vars
  PROVE  TypeInv'
<1>1. CASE UNCHANGED vars
  BY <1>1 DEF vars, infoVars, hostVars, deviceVars, TypeInv, InfoTypes, HostTypes,
              DeviceTypes
<1>2. ASSUME NEW h \in Hubs, state_set_address(h) PROVE TypeInv'
  BY <1>2 DEF state_set_address, infoVars, deviceVars, TypeInv, InfoTypes, HostTypes,
              DeviceTypes, PortStates
<1>3. ASSUME NEW h \in Hubs, state_delay(h) PROVE TypeInv'
  <2>1. HostTypes'
    BY <1>3, GotoTypes DEF state_delay, TypeInv, PortStates
  <2> QED BY <1>3, <2>1 DEF state_delay, infoVars, deviceVars, TypeInv, InfoTypes,
                            DeviceTypes
<1>4. ASSUME NEW h \in Hubs, WaitEnds(h) PROVE TypeInv'
  BY <1>4 DEF WaitEnds, hostVars, deviceVars, TypeInv, InfoTypes, HostTypes,
              DeviceTypes
<1>5. ASSUME NEW h \in Hubs, HostStep(h) PROVE TypeInv'
  BY <1>3, <1>4, <1>5, EnumerateTypes, EndTypes, UnplugTypes DEF HostStep
<1>6. ASSUME NEW h \in Hubs, Plug(h) \/ Unplug(h) PROVE TypeInv'
  BY <1>6, PlugTypes, UnplugTypes
<1>7. CASE Next
  BY <1>2, <1>5, <1>6, <1>7, PollTypes DEF Next
<1> QED BY <1>1, <1>7

-----------------------------------------------------------------------------
(* The lock, and the other port                                             *)

\* A step that leaves what the invariant says of a port alone.
SameAt(g) ==
  /\ hid_info'[g] = hid_info[g] /\ usb_info'[g] = usb_info[g]
  /\ switch_info'[g] = switch_info[g] /\ port'[g] = port[g]
  /\ device'[g] = device[g] /\ got'[g] = got[g] /\ answer'[g] = answer[g]
  /\ port[g] = "busy" => transfer' = transfer

\* A call is made when nobody has the lock, and takes it.
LEMMA SubmitOwner ==
  ASSUME TypeInv, OwnerInv, NEW h \in Hubs, NEW requests, owner = NoHub,
         submit(h, requests)
  PROVE  OwnerInv' /\ \A g \in Hubs \ {h} : port'[g] = port[g]
<1>1. NoHub \notin Hubs
  BY DEF NoHub, Hubs
<1>2. port \in [Hubs -> PortStates]
  BY DEF TypeInv, HostTypes
<1>3. CASE requests = <<>>
  BY <1>3 DEF submit, hostVars, OwnerInv
<1>4. CASE requests # <<>>
  BY <1>1, <1>2, <1>4 DEF submit, OwnerInv, Locked
<1> QED BY <1>3, <1>4

\* A poll takes the lock for its own port, and leaves the other one alone.
LEMMA PollElsewhere ==
  ASSUME TypeInv, OwnerInv, NEW h \in Hubs, hid_poll(h)
  PROVE  OwnerInv' /\ \A g \in Hubs \ {h} : SameAt(g)
<1>1. owner = NoHub /\ \A g \in Hubs : port[g] # "busy"
  BY DEF hid_poll, OwnerInv, Locked, NoHub, Hubs
<1>2. /\ hid_info \in [Hubs -> Info] /\ usb_info \in [Hubs -> UsbInfo]
      /\ switch_info \in [Hubs -> SwitchInfo] /\ port \in [Hubs -> PortStates]
      /\ device \in [Hubs -> Attached] /\ got \in [Hubs -> Seq(Calls)]
  BY DEF TypeInv, InfoTypes, HostTypes, DeviceTypes
<1>3. CASE UNCHANGED <<infoVars, hostVars, deviceVars>>
  BY <1>3 DEF infoVars, hostVars, deviceVars, OwnerInv, SameAt
<1>4. ASSUME NEW s, NEW requests, drive(h, s, requests),
             \A g \in Hubs \ {h} : switch_info'[g] = switch_info[g]
      PROVE  OwnerInv' /\ \A g \in Hubs \ {h} : SameAt(g)
  <2>1. OwnerInv' /\ \A g \in Hubs \ {h} : port'[g] = port[g]
    BY <1>1, <1>4, SubmitOwner DEF drive
  <2>2. \A g \in Hubs \ {h} : usb_info'[g] = usb_info[g]
    BY <1>2, <1>4 DEF drive
  <2> QED BY <1>1, <1>4, <2>1, <2>2 DEF drive, deviceVars, SameAt
<1>5. ASSUME NEW from, NEW to, NEW requests, Step(h, from, to, requests)
      PROVE  OwnerInv' /\ \A g \in Hubs \ {h} : SameAt(g)
  <2>1. UNCHANGED switch_info /\ drive(h, to, requests)
    BY <1>5 DEF Step
  <2> QED BY <1>4, <2>1
<1>6. CASE hid_switch_poll(h)
  <2>1. \A g \in Hubs \ {h} : switch_info'[g] = switch_info[g]
    BY <1>2, <1>6 DEF hid_switch_poll
  <2>2. \E s, requests : drive(h, s, requests)
    BY <1>6 DEF hid_switch_poll
  <2> QED BY <1>4, <2>1, <2>2
<1>7. CASE hub_switch(h)
  <2>1. \A g \in Hubs \ {h} : SameAt(g)
    BY <1>1, <1>2, <1>7 DEF hub_switch, SameAt
  <2>2. OwnerInv'
    BY <1>1, <1>2, <1>7 DEF hub_switch, OwnerInv, Locked, NoHub, Hubs
  <2> QED BY <2>1, <2>2
<1>8. CASE poll_query(h)
  <2>1. PICK step \in {<<"SET_IDLE", "GET_REPORT">>, <<"GET_REPORT", "READY">>} :
          /\ hid_info' = [hid_info EXCEPT ![h].state = step[2]]
          /\ submit(h, <<Request(step[1], 0)>>)
          /\ UNCHANGED <<usb_info, switch_info, due, given, deviceVars>>
    BY <1>8 DEF poll_query
  <2>2. OwnerInv' /\ \A g \in Hubs \ {h} : port'[g] = port[g]
    BY <1>1, <2>1, SubmitOwner
  <2> QED BY <1>1, <1>2, <2>1, <2>2 DEF SameAt, deviceVars
<1>9. hid_dualshock3_poll(h) \/ hid_xbox_360_poll(h) \/ hid_xbox_one_poll(h)
        \/ default_poll(h) \/ (hid_guncon3_poll(h) /\ ~hub_switch(h))
      => \E from, to, requests : Step(h, from, to, requests)
  BY DEF hid_dualshock3_poll, hid_xbox_360_poll, hid_xbox_one_poll, default_poll,
         hid_guncon3_poll
<1> QED
  BY <1>3, <1>5, <1>6, <1>7, <1>8, <1>9 DEF hid_poll, poll_ready

\* The other steps.
LEMMA HostElsewhere ==
  ASSUME TypeInv, OwnerInv, PortsInv, NEW h \in Hubs,
         state_set_address(h) \/ HostStep(h) \/ Plug(h) \/ Unplug(h)
  PROVE  OwnerInv' /\ \A g \in Hubs \ {h} : SameAt(g)
<1>1. NoHub \notin Hubs
  BY DEF NoHub, Hubs
<1>2. /\ hid_info \in [Hubs -> Info] /\ usb_info \in [Hubs -> UsbInfo]
      /\ switch_info \in [Hubs -> SwitchInfo] /\ port \in [Hubs -> PortStates]
      /\ device \in [Hubs -> Attached] /\ got \in [Hubs -> Seq(Calls)]
      /\ answer \in [Hubs -> RequestSet]
  BY DEF TypeInv, InfoTypes, HostTypes, DeviceTypes
<1>3. ASSUME owner = h, NEW state \in Locked, Goto(h, state, FALSE)
      PROVE  /\ OwnerInv' /\ UNCHANGED transfer
             /\ \A g \in Hubs \ {h} : port'[g] = port[g]
  BY <1>1, <1>2, <1>3 DEF Goto, OwnerInv
<1>3a. ASSUME owner = h, Goto(h, "delay", TRUE)
       PROVE  /\ OwnerInv' /\ UNCHANGED transfer
              /\ \A g \in Hubs \ {h} : port'[g] = port[g]
  BY <1>1, <1>2, <1>3a DEF Goto, OwnerInv, Locked
<1>4. CASE state_set_address(h)
  BY <1>1, <1>2, <1>4 DEF state_set_address, infoVars, deviceVars, OwnerInv, Locked,
       SameAt
<1>5. CASE Enumerates(h)
  <2>1. OwnerInv' /\ UNCHANGED transfer /\ \A g \in Hubs \ {h} : port'[g] = port[g]
    <3>1. owner = h
      BY <1>5 DEF Enumerates, OwnerInv, Locked
    <3>2. "configuration" \in Locked /\ "report" \in Locked
      BY DEF Locked
    <3>3. Goto(h, "configuration", FALSE) \/ Goto(h, "report", FALSE)
            \/ Goto(h, "delay", TRUE)
      BY <1>5 DEF Enumerates
    <3> QED BY <1>3, <1>3a, <3>1, <3>2, <3>3
  <2>2. /\ \A g \in Hubs \ {h} : hid_info'[g] = hid_info[g] /\ usb_info'[g] = usb_info[g]
        /\ UNCHANGED switch_info
    BY <1>5, Enumerating, DeviceDescEffect, ConfigurationEffect, HidReportEffect
       DEF Enumerates, TypeInv
  <2> QED BY <1>5, <2>1, <2>2 DEF Enumerates, deviceVars, SameAt
<1>6. CASE state_delay(h)
  <2>1. owner # h
    BY <1>6 DEF state_delay, OwnerInv, Locked
  <2>2. OwnerInv' /\ UNCHANGED transfer /\ \A g \in Hubs \ {h} : port'[g] = port[g]
    BY <1>1, <1>2, <1>6, <2>1 DEF state_delay, Goto, OwnerInv, Locked
  <2> QED BY <1>6, <2>2 DEF state_delay, infoVars, deviceVars, SameAt
<1>7. ASSUME Ends(h)
      PROVE  OwnerInv' /\ UNCHANGED transfer /\ \A g \in Hubs \ {h} : port'[g] = port[g]
  BY <1>7, <1>3a DEF Ends
<1>8. ASSUME Accepts(h)
      PROVE  \A g \in Hubs \ {h} : /\ got'[g] = got[g] /\ answer'[g] = answer[g]
                                   /\ device'[g] = device[g]
  BY <1>2, <1>8 DEF Accepts
<1>9. ASSUME NEW packet \in Packets, hid_report(h, packet)
      PROVE  \A g \in Hubs \ {h} : /\ usb_info'[g] = usb_info[g]
                                   /\ switch_info'[g] = switch_info[g]
                                   /\ hid_info'[g] = hid_info[g]
  <2>1. PICK s \in Int : usb_info' = [usb_info EXCEPT ![h].state = s]
    BY <1>9, ReportState DEF TypeInv
  <2>2. \A g \in Hubs \ {h} : switch_info'[g] = switch_info[g]
    BY <1>9, ReportState DEF TypeInv
  <2> QED BY <1>2, <1>9, <2>1, <2>2 DEF hid_report
<1>10. /\ transfer.name \in Names /\ transfer.ep \in Nat /\ answer[h].name \in Names
  BY DEF TypeInv, HostTypes, DeviceTypes, RequestSet
<1>11. CASE OutEnds(h)
  BY <1>7, <1>8, <1>11 DEF OutEnds, infoVars, SameAt
<1>12. CASE ControlReadEnds(h)
  <2>1. Answer(transfer.name, 0) \in Packets /\ Answer("RESET_DONE", 0) \in Packets
    BY <1>10, PacketTypes
  <2> QED BY <1>7, <1>8, <1>9, <1>12, <2>1 DEF ControlReadEnds, SameAt
<1>13. CASE InNaks(h) \/ InReports(h) \/ InOther(h)
  BY <1>7, <1>9, <1>10, <1>13, PacketTypes
     DEF InNaks, InReports, InOther, InEnds, SameAt, deviceVars
<1>14. CASE InAnswers(h)
  <2>1. Answer(answer[h].name, transfer.ep) \in Packets
    BY <1>10, PacketTypes
  <2>2. \A g \in Hubs \ {h} : answer'[g] = answer[g]
    BY <1>2, <1>14 DEF InAnswers
  <2> QED BY <1>7, <1>9, <1>14, <2>1, <2>2 DEF InAnswers, InEnds, SameAt
<1>15. CASE WaitEnds(h)
  BY <1>15 DEF WaitEnds, hostVars, deviceVars, SameAt, OwnerInv
<1>16. CASE Disconnect(h)
  <2>1. OwnerInv'
    BY <1>1, <1>2, <1>16 DEF Disconnect, OwnerInv, Locked
  <2>2. \A g \in Hubs \ {h} : hid_info'[g] = hid_info[g] /\ port'[g] = port[g]
    BY <1>2, <1>16 DEF Disconnect, disconnected
  <2> QED BY <1>16, <2>1, <2>2 DEF Disconnect, disconnected, deviceVars, SameAt
<1>17. CASE Plug(h)
  <2>1. \A g \in Hubs \ {h} : /\ device'[g] = device[g] /\ got'[g] = got[g]
                              /\ answer'[g] = answer[g]
    BY <1>2, <1>17 DEF Plug
  <2> QED BY <1>17, <2>1 DEF Plug, infoVars, hostVars, SameAt, OwnerInv
<1>18. CASE Unplug(h)
  <2>1. \A g \in Hubs \ {h} : /\ device'[g] = device[g] /\ hid_info'[g] = hid_info[g]
                              /\ switch_info'[g] = switch_info[g]
    BY <1>2, <1>18 DEF Unplug
  <2> QED BY <1>18, <2>1 DEF Unplug, hostVars, SameAt, OwnerInv
<1> QED
  BY <1>4, <1>5, <1>6, <1>11, <1>12, <1>13, <1>14, <1>15, <1>16, <1>17, <1>18
     DEF HostStep

\* What the invariant says of a port is about this port only.
LEMMA SamePort ==
  ASSUME NEW g \in Hubs, SameAt(g), PortInv(g)
  PROVE  PortInv(g)'
<1>1. /\ hid_info'[g] = hid_info[g] /\ usb_info'[g] = usb_info[g]
      /\ switch_info'[g] = switch_info[g] /\ port'[g] = port[g]
      /\ device'[g] = device[g] /\ got'[g] = got[g] /\ answer'[g] = answer[g]
  BY DEF SameAt
<1>2. /\ Commanding(g)' <=> Commanding(g)
      /\ Reading(g)' <=> Reading(g)
      /\ Asking(g)' <=> Asking(g)
      /\ port[g] = "busy" => transfer' = transfer
  BY DEF SameAt, Commanding, Reading, Asking
<1>3. Position(g)' = Position(g)
  BY <1>1 DEF Position
<1>4. CalledInv(g)' <=> CalledInv(g)
  <2>1. CASE Commanding(g)
    <3>1. transfer' = transfer
      BY <1>2, <2>1 DEF Commanding
    <3>2. Told(g, Position(g) - 1)' <=> Told(g, Position(g) - 1)
      BY <1>1, <1>3 DEF Told
    <3>3. /\ transfer'.name = transfer.name /\ transfer'.ep = transfer.ep
          /\ Protocol(device'[g]) = Protocol(device[g])
      BY <1>1, <3>1
    <3> QED BY <1>2, <1>3, <2>1, <3>2, <3>3 DEF CalledInv
  <2>2. CASE ~Commanding(g)
    <3>1. Told(g, Position(g))' <=> Told(g, Position(g))
      BY <1>1, <1>3 DEF Told
    <3> QED BY <1>2, <2>2, <3>1 DEF CalledInv
  <2> QED BY <2>1, <2>2
<1>5. LayoutInv(g)' <=> LayoutInv(g)
  BY <1>1 DEF LayoutInv, RightType, Writers
<1>6. port[g] = "busy" => transfer'.name = transfer.name /\ transfer'.ep = transfer.ep
  BY <1>2
<1>7. DriverInv(g)' <=> DriverInv(g)
  <2>1. SwitchInv(g)' <=> SwitchInv(g)
    BY <1>1, <1>6 DEF SwitchInv, OwedInv, Awaited, Commanding, Reading
  <2>2. Ps3Inv(g)' <=> Ps3Inv(g)
    BY <1>1, <1>6 DEF Ps3Inv, Commanding, Reading
  <2>3. XboxInv(g)' <=> XboxInv(g)
    BY <1>1, <1>6 DEF XboxInv, Reading
  <2>4. HubInv(g)' <=> HubInv(g)
    BY <1>1, <1>6 DEF HubInv, Commanding, Reading, Asking
  <2>5. GunInv(g)' <=> GunInv(g)
    BY <1>1, <1>6 DEF GunInv, Reading
  <2> QED BY <1>1, <1>2, <2>1, <2>2, <2>3, <2>4, <2>5 DEF DriverInv
<1>8. UsedInv(g)' <=> UsedInv(g)
  BY <1>1, <1>4, <1>5, <1>7 DEF UsedInv
<1>9. /\ NewInv(g)' <=> NewInv(g)
      /\ FirstInv(g)' <=> FirstInv(g)
      /\ ConfigurationInv(g)' <=> ConfigurationInv(g)
      /\ ReportInv(g)' <=> ReportInv(g)
      /\ Enumerated(g)' <=> Enumerated(g)
      /\ Silent(g)' <=> Silent(g)
  BY <1>1 DEF NewInv, FirstInv, ConfigurationInv, ReportInv, Enumerated, Silent
<1> QED BY <1>1, <1>8, <1>9 DEF PortInv

-----------------------------------------------------------------------------
(* The calls of the drivers                                                 *)

\* The places of the driver's states in the protocol.
LEMMA SwitchPlaces ==
  ASSUME NEW kind \in SwitchPads, NEW j \in {0, 1}, kind = "pro" => j = 0
  PROVE  /\ SwitchPosition(kind, 0, j) = 0
         /\ SwitchPosition(kind, 28, j) = Len(Protocol(kind))
         /\ \A i \in 1..9 :
              /\ SwitchPosition(kind, 3 * i - 2, j) = 9 * j + i - 1
              /\ SwitchPosition(kind, 3 * i - 1, j) = 9 * j + i
              /\ SwitchPosition(kind, 3 * i, j) = 9 * j + i
              /\ 9 * j + i \in 1..Len(Protocol(kind))
              /\ Protocol(kind)[9 * j + i] =
                   <<Commands[i], IF j = 0 THEN 1 ELSE 2>>
<1>1. /\ SwitchPosition(kind, 0, j) = 0
      /\ SwitchPosition(kind, 28, j) = Len(Protocol(kind))
  BY StateNumbers DEF SwitchPosition
<1>2. ASSUME NEW i \in 1..9
      PROVE  /\ SwitchPosition(kind, 3 * i - 2, j) = 9 * j + i - 1
             /\ SwitchPosition(kind, 3 * i - 1, j) = 9 * j + i
             /\ SwitchPosition(kind, 3 * i, j) = 9 * j + i
  <2>1. /\ ((3 * i - 2) + 1) \div 3 = i - 1 /\ ((3 * i - 1) + 1) \div 3 = i
        /\ (3 * i + 1) \div 3 = i
    BY SwitchStates
  <2>2. /\ 3 * i - 2 # 28 /\ 3 * i - 2 # 0 /\ 3 * i - 1 # 28 /\ 3 * i - 1 # 0
        /\ 3 * i # 28 /\ 3 * i # 0
    OBVIOUS
  <2>3. /\ SwitchPosition(kind, 3 * i - 2, j) = 9 * j + ((3 * i - 2) + 1) \div 3
        /\ SwitchPosition(kind, 3 * i - 1, j) = 9 * j + ((3 * i - 1) + 1) \div 3
        /\ SwitchPosition(kind, 3 * i, j) = 9 * j + (3 * i + 1) \div 3
    BY <2>2, StateNumbers DEF SwitchPosition
  <2> QED BY <2>1, <2>3
<1>3. ASSUME NEW i \in 1..9
      PROVE  /\ 9 * j + i \in 1..Len(Protocol(kind))
             /\ Protocol(kind)[9 * j + i] = <<Commands[i], IF j = 0 THEN 1 ELSE 2>>
  <2>1. CASE kind = "pro"
    <3>1. j = 0 /\ 9 * j + i = i
      BY <2>1
    <3> QED BY <2>1, <3>1, SwitchProtocol
  <2>2. CASE kind = "grip" /\ j = 0
    <3>1. 9 * j + i = i /\ i \in 1..18
      BY <2>2
    <3> QED BY <2>2, <3>1, SwitchProtocol
  <2>3. CASE kind = "grip" /\ j = 1
    <3>1. 9 * j + i = 9 + i /\ 9 + i \in 1..18
      BY <2>3
    <3> QED BY <2>3, <3>1, SwitchProtocol
  <2> QED BY <2>1, <2>2, <2>3 DEF SwitchPads
<1> QED BY <1>1, <1>2, <1>3

\* The drivers of the devices.
LEMMA DriverOf ==
  ASSUME TypeInv, NEW h \in Hubs, Plugged(h), RightType(h)
  PROVE  /\ hid_info[h].type = "SWITCH" <=> device[h] \in SwitchPads
         /\ hid_info[h].type = "PS3" <=> device[h] = "ps3"
         /\ hid_info[h].type = "XBOX_360" <=> device[h] = "xbox360"
         /\ hid_info[h].type = "XBOX_ONE" <=> device[h] = "xboxone"
         /\ hid_info[h].type = "ZAPPER" <=> device[h] \in {"hub", "gun"}
BY DEF RightType, SwitchPads

\* What a driver does to its port.
LEMMA DriveEffect ==
  ASSUME TypeInv, NEW h \in Hubs, NEW s \in Int, NEW requests, drive(h, s, requests)
  PROVE  /\ usb_info'[h].state = s /\ usb_info'[h].kind = usb_info[h].kind
         /\ usb_info'[h].ep_in = usb_info[h].ep_in
         /\ usb_info'[h].ep_out = usb_info[h].ep_out
         /\ hid_info' = hid_info /\ device' = device /\ got' = got /\ answer' = answer
         /\ IF requests = <<>> THEN port' = port /\ transfer' = transfer
            ELSE port'[h] = "busy" /\ transfer' = Head(requests)
<1>1. usb_info \in [Hubs -> UsbInfo] /\ port \in [Hubs -> PortStates]
  BY DEF TypeInv, InfoTypes, HostTypes
<1>2. usb_info[h] \in UsbInfo /\ usb_info' = [usb_info EXCEPT ![h].state = s]
  BY <1>1 DEF drive
<1>3. /\ usb_info'[h].state = s /\ usb_info'[h].kind = usb_info[h].kind
      /\ usb_info'[h].ep_in = usb_info[h].ep_in
      /\ usb_info'[h].ep_out = usb_info[h].ep_out
  BY <1>1, <1>2 DEF UsbInfo
<1>4. hid_info' = hid_info /\ device' = device /\ got' = got /\ answer' = answer
  BY DEF drive, deviceVars
<1>5. CASE requests = <<>>
  BY <1>3, <1>4, <1>5 DEF drive, submit, hostVars
<1>6. CASE requests # <<>>
  BY <1>1, <1>3, <1>4, <1>6 DEF drive, submit
<1> QED BY <1>5, <1>6

\* A port whose device is in use, and stays in use.
LEMMA StillUsed ==
  ASSUME NEW h \in Hubs, LayoutInv(h), usb_info[h].kind = device[h],
         hid_info'[h].type = hid_info[h].type,
         hid_info'[h].source = hid_info[h].source,
         usb_info'[h].kind = usb_info[h].kind, usb_info'[h].ep_in = usb_info[h].ep_in,
         device'[h] = device[h], hid_info'[h].state \in Used,
         port'[h] \in {"delay", "ready", "busy"}, CalledInv(h)', DriverInv(h)'
  PROVE  PortInv(h)'
<1>1. LayoutInv(h)'
  BY DEF LayoutInv, RightType, Writers
<1>2. UsedInv(h)'
  BY <1>1 DEF UsedInv
<1>3. NewInv(h)' /\ FirstInv(h)' /\ ConfigurationInv(h)' /\ ReportInv(h)'
  BY DEF NewInv, FirstInv, ConfigurationInv, ReportInv
<1> QED BY <1>2, <1>3 DEF PortInv

\* The driver has nothing new to tell, or the next command of the protocol.
LEMMA NothingIssued ==
  ASSUME NEW h \in Hubs, NEW n, Told(h, n), device'[h] = device[h], got'[h] = got[h],
         ~Commanding(h)', Position(h)' = n
  PROVE  CalledInv(h)'
BY DEF CalledInv, Told

\* The next command is the next one of the protocol.
LEMMA CommandIssued ==
  ASSUME NEW h \in Hubs, NEW n, Told(h, n), device'[h] = device[h], got'[h] = got[h],
         device[h] \in Kind, Position(h)' = n + 1, n + 1 <= Len(Protocol(device[h])),
         <<transfer'.name, transfer'.ep>> = Protocol(device[h])[n + 1], Commanding(h)'
  PROVE  CalledInv(h)'
<1>1. n \in Nat
  BY ProtocolType DEF Told
<1>2. Position(h)' - 1 = n
  BY <1>1
<1>3. Told(h, n)'
  BY DEF Told
<1>4. (Told(h, Position(h) - 1))'
  BY <1>2, <1>3 DEF Told
<1> QED BY <1>4 DEF CalledInv

\* A port that is ready is not busy with anything, and its device has been told
\* all that its driver has issued.
LEMMA ReadyPort ==
  ASSUME NEW h \in Hubs, UsedInv(h), port[h] = "ready"
  PROVE  /\ ~Commanding(h) /\ ~Reading(h) /\ ~Asking(h) /\ Told(h, Position(h))
         /\ LayoutInv(h) /\ DriverInv(h) /\ usb_info[h].kind = device[h]
BY DEF UsedInv, CalledInv, Commanding, Reading, Asking

\* The driver of the Switch controllers.
LEMMA SwitchDriver ==
  ASSUME NEW h \in Hubs, device'[h] \in SwitchPads, SwitchInv(h)', ~Asking(h)',
         hid_info'[h].state = "READY"
  PROVE  DriverInv(h)'
BY DEF DriverInv, SwitchPads, Xbox

\* A poll of the driver of the Switch controllers.
LEMMA SwitchPoll ==
  ASSUME TypeInv, NEW h \in Hubs, device[h] \in SwitchPads, UsedInv(h),
         hid_info[h].state = "READY", port[h] = "ready", hid_switch_poll(h)
  PROVE  PortInv(h)'
<1> DEFINE s == usb_info[h].state
           j == switch_info[h].joycon
           ep == switch_endpoint(h)
           kind == device[h]
<1>1. /\ ~Commanding(h) /\ ~Reading(h) /\ ~Asking(h) /\ Told(h, Position(h))
      /\ LayoutInv(h) /\ SwitchInv(h) /\ usb_info[h].kind = kind
  BY ReadyPort DEF DriverInv
<1>2. /\ s \in 0..28 /\ s \in Int /\ j \in {0, 1} /\ kind \in Kind /\ ~Receives(s)
      /\ switch_info \in [Hubs -> SwitchInfo] /\ switch_info[h] \in SwitchInfo
  BY <1>1, StateNumbers
     DEF SwitchInv, TypeInv, InfoTypes, SwitchInfo, SwitchPads, Kind, HidPads
<1>3. Position(h) = SwitchPosition(kind, s, j)
  BY DEF Position, SwitchPads, Xbox
<1>4. ep = IF j = 0 THEN 1 ELSE 2
  BY DEF switch_endpoint
<1>5. s # 0 => (kind = "pro" => j = 0)
  BY <1>1, StateNumbers DEF SwitchInv
<1>6. ASSUME NEW to \in Int, NEW requests, drive(h, to, requests),
             CalledInv(h)', SwitchInv(h)', ~Asking(h)'
      PROVE  PortInv(h)'
  <2>1. /\ usb_info'[h].kind = usb_info[h].kind /\ usb_info'[h].ep_in = usb_info[h].ep_in
        /\ hid_info' = hid_info /\ device' = device /\ got' = got /\ answer' = answer
        /\ port'[h] \in {"ready", "busy"}
    BY <1>6, DriveEffect
  <2>2. DriverInv(h)'
    BY <1>6, <2>1, SwitchDriver
  <2> QED BY <1>1, <1>6, <2>1, <2>2, StillUsed DEF Used
<1>7. CASE s = CONNECTED /\ drive(h, s + 1, <<>>)
           /\ switch_info' = [switch_info EXCEPT ![h] = [joycon |-> 0, left |-> "zero"]]
  <2>1. /\ usb_info'[h].state = 1 /\ port' = port /\ device' = device /\ got' = got
        /\ answer' = answer /\ s = 0 /\ s + 1 = 1
    BY <1>2, <1>7, DriveEffect, StateNumbers
  <2>2. switch_info'[h].joycon = 0 /\ switch_info'[h].left = "zero"
    BY <1>2, <1>7
  <2>3. ~Commanding(h)' /\ ~Reading(h)' /\ ~Asking(h)'
    BY <2>1 DEF Commanding, Reading, Asking
  <2>4. Position(h) = 0 /\ Position(h)' = 0
    <3>1. SwitchPosition(kind, 1, 0) = 0 /\ SwitchPosition(kind, 0, j) = 0
      BY StateNumbers DEF SwitchPosition
    <3>2. Position(h)' = SwitchPosition(device'[h], 1, 0)
      BY <2>1, <2>2 DEF Position, SwitchPads, Xbox
    <3> QED BY <1>3, <2>1, <3>1, <3>2
  <2>5. CalledInv(h)'
    BY <1>1, <2>1, <2>3, <2>4, NothingIssued
  <2>6. ~Reads(s) /\ ~Receives(s) /\ ~Reads(1) /\ ~Receives(1)
    BY <2>1, StateNumbers DEF Reads, Receives
  <2>7. answer[h].name = "none"
    BY <1>1, <2>6 DEF SwitchInv, OwedInv, Awaited
  <2>8. SwitchInv(h)'
    BY <2>1, <2>2, <2>3, <2>6, <2>7, StateNumbers DEF SwitchInv, OwedInv, Awaited
  <2> QED BY <1>2, <1>6, <1>7, <2>3, <2>5, <2>8
<1>8. CASE Sends(s) /\ drive(h, s + 1, Sent(s, ep)) /\ UNCHANGED switch_info
  <2>1. PICK i \in 1..9 : s = 3 * i - 2
    BY <1>2, <1>8, SwitchStates
  <2>2. /\ kind = "pro" => j = 0
        /\ Position(h) = 9 * j + i - 1 /\ 9 * j + i \in 1..Len(Protocol(kind))
        /\ SwitchPosition(kind, 3 * i - 1, j) = 9 * j + i
        /\ Protocol(kind)[9 * j + i] = <<Commands[i], ep>>
    <3>1. kind \in SwitchPads /\ (kind = "pro" => j = 0)
      BY <1>5, <2>1
    <3>2. /\ SwitchPosition(kind, 3 * i - 2, j) = 9 * j + i - 1
          /\ SwitchPosition(kind, 3 * i - 1, j) = 9 * j + i
          /\ 9 * j + i \in 1..Len(Protocol(kind))
          /\ Protocol(kind)[9 * j + i] = <<Commands[i], IF j = 0 THEN 1 ELSE 2>>
      <4> HIDE DEF kind, j
      <4> QED BY <1>2, <3>1, SwitchPlaces
    <3> QED BY <1>3, <1>4, <2>1, <3>1, <3>2
  <2>3. /\ Sent(s, ep) # <<>> /\ Head(Sent(s, ep)) = Request(Commands[i], ep)
        /\ Commands[i] \in SwitchCommands
    <3>1. CommandOf(s) = Commands[i]
      BY <2>1, SwitchStates
    <3> QED BY <3>1, CommandFacts DEF Sent
  <2>4. /\ usb_info'[h].state = 3 * i - 1 /\ port'[h] = "busy" /\ device' = device
        /\ got' = got /\ answer' = answer
        /\ transfer' = Request(Commands[i], ep) /\ switch_info' = switch_info
    <3>1. s + 1 = 3 * i - 1 /\ s + 1 \in Int
      BY <2>1
    <3> QED BY <1>8, <2>3, <3>1, DriveEffect
  <2>5. /\ transfer'.name = Commands[i] /\ transfer'.ep = ep
        /\ Commands[i] \notin {"in", "GET_STATUS"}
    BY <2>3, <2>4, CommandFacts DEF Request
  <2>6. Commanding(h)' /\ ~Reading(h)' /\ ~Asking(h)'
    BY <2>4, <2>5 DEF Commanding, Reading, Asking
  <2>7. Position(h)' = 9 * j + i
    <3>1. Position(h)' = SwitchPosition(kind, 3 * i - 1, j)
      BY <2>4 DEF Position, SwitchPads, Xbox
    <3> QED BY <2>2, <3>1
  <2>8. CalledInv(h)'
    <3>1. /\ Told(h, 9 * j + i - 1) /\ (9 * j + i - 1) + 1 = 9 * j + i
          /\ 9 * j + i <= Len(Protocol(kind))
      BY <1>1, <1>2, <2>2
    <3> QED BY <1>2, <2>2, <2>4, <2>5, <2>6, <2>7, <3>1, CommandIssued
  <2>9. /\ ~Reads(s) /\ ~Receives(s) /\ Reads(3 * i - 1) /\ s # 0 /\ 3 * i - 1 \in 0..28
        /\ 3 * i - 1 # 28
    BY <2>1, SwitchStates
  <2>10. answer[h].name = "none"
    BY <1>1, <2>9 DEF SwitchInv, OwedInv, Awaited
  <2>11. SwitchInv(h)'
    BY <1>1, <2>4, <2>6, <2>9, <2>10, StateNumbers DEF SwitchInv, OwedInv, Awaited
  <2> QED BY <1>2, <1>6, <1>8, <2>6, <2>8, <2>11
<1>9. CASE Reads(s) /\ drive(h, s + 1, <<InRequest(ep)>>) /\ UNCHANGED switch_info
  <2>1. PICK i \in 1..9 : s = 3 * i - 1
    BY <1>2, <1>9, SwitchStates
  <2>2. /\ Position(h) = 9 * j + i /\ SwitchPosition(kind, 3 * i, j) = 9 * j + i
    <3>1. kind = "pro" => j = 0
      BY <1>5, <2>1
    <3> QED BY <1>2, <1>3, <2>1, <3>1, SwitchPlaces
  <2>3. /\ usb_info'[h].state = 3 * i /\ port'[h] = "busy" /\ device' = device
        /\ got' = got /\ answer' = answer
        /\ transfer' = InRequest(ep) /\ switch_info' = switch_info
    <3>1. s + 1 = 3 * i /\ s + 1 \in Int
      BY <2>1
    <3> QED BY <1>9, <3>1, DriveEffect
  <2>4. transfer'.name = "in"
    BY <2>3 DEF InRequest, Request
  <2>5. ~Commanding(h)' /\ Reading(h)' /\ ~Asking(h)'
    BY <2>3, <2>4 DEF Commanding, Reading, Asking
  <2>6. Position(h)' = Position(h)
    <3>1. Position(h)' = SwitchPosition(kind, 3 * i, j)
      BY <2>3 DEF Position, SwitchPads, Xbox
    <3> QED BY <2>2, <3>1
  <2>7. CalledInv(h)'
    BY <1>1, <2>3, <2>5, <2>6, NothingIssued
  <2>8. /\ Receives(3 * i) /\ s # 0 /\ 3 * i \in 0..28 /\ 3 * i # 28
        /\ CommandOf(3 * i) = CommandOf(s)
    BY <2>1, SwitchStates
  <2>9. answer[h].name = IF CommandOf(s) # "NO_TIMEOUT" THEN AnswerName(CommandOf(s))
                         ELSE "none"
    BY <1>1, <1>9 DEF SwitchInv, OwedInv, Awaited
  <2>10. OwedInv(h)'
    BY <2>3, <2>5, <2>8, <2>9 DEF OwedInv, Awaited
  <2>11. SwitchInv(h)'
    <3>1. /\ usb_info'[h].state \in 0..INITIALIZED
          /\ Receives(usb_info'[h].state) /\ usb_info'[h].state # INITIALIZED
      BY <2>3, <2>8, StateNumbers
    <3>2. /\ switch_info'[h].left \in {"zero", "now"}
          /\ device'[h] = "pro" =>
               switch_info'[h].joycon = 0 /\ switch_info'[h].left = "zero"
      BY <1>1, <2>3, <2>8, StateNumbers DEF SwitchInv
    <3> QED BY <2>3, <2>5, <2>10, <3>1, <3>2 DEF SwitchInv
  <2> DEFINE to == s + 1
             requests == <<InRequest(ep)>>
  <2>12. to \in Int /\ drive(h, to, requests)
    BY <1>2, <1>9
  <2> HIDE DEF to, requests
  <2> QED BY <1>6, <2>5, <2>7, <2>11, <2>12
<1>10. CASE /\ s = INITIALIZED /\ drive(h, s, <<InRequest(ep)>>)
            /\ switch_info' = IF usb_info[h].kind = "grip"
                              THEN [switch_info EXCEPT ![h].joycon = 1 - @] ELSE switch_info
  <2>1. /\ usb_info'[h].state = 28 /\ s = 28 /\ port'[h] = "busy" /\ device' = device
        /\ got' = got /\ answer' = answer /\ transfer' = InRequest(ep)
    <3> DEFINE requests == <<InRequest(ep)>>
    <3>1. s = 28 /\ s \in Int /\ drive(h, s, requests)
      BY <1>2, <1>10, StateNumbers
    <3>2. requests # <<>> /\ Head(requests) = InRequest(ep)
      OBVIOUS
    <3> HIDE DEF s, ep, requests
    <3>3. /\ usb_info'[h].state = s /\ device' = device /\ got' = got /\ answer' = answer
          /\ requests # <<>> => port'[h] = "busy" /\ transfer' = Head(requests)
      BY <3>1, DriveEffect
    <3> QED BY <3>1, <3>2, <3>3
  <2>2. /\ switch_info'[h].left = switch_info[h].left
        /\ switch_info'[h].joycon = IF kind = "grip" THEN 1 - j ELSE j
    BY <1>1, <1>2, <1>10 DEF SwitchInfo
  <2>3. transfer'.name = "in" /\ transfer'.ep = ep
    BY <2>1 DEF InRequest, Request
  <2>4. ~Commanding(h)' /\ Reading(h)' /\ ~Asking(h)'
    BY <2>1, <2>3 DEF Commanding, Reading, Asking
  <2>5. Position(h)' = Position(h)
    BY <1>3, <2>1, StateNumbers DEF Position, SwitchPosition, SwitchPads, Xbox
  <2>6. CalledInv(h)'
    BY <1>1, <2>1, <2>4, <2>5, NothingIssued
  <2>7. ~Reads(28) /\ ~Receives(28)
    BY SwitchStates
  <2>8. answer[h].name = "none"
    BY <1>1, <2>1, <2>7 DEF SwitchInv, OwedInv, Awaited
  <2>9. SwitchInv(h)'
    <3>1. transfer'.ep = IF kind = "grip" /\ switch_info'[h].joycon = 0 THEN 2 ELSE 1
      BY <1>2, <1>4, <1>5, <2>1, <2>2, <2>3 DEF SwitchPads
    <3> QED BY <1>1, <2>1, <2>2, <2>4, <2>7, <2>8, <3>1, StateNumbers
            DEF SwitchInv, OwedInv, Awaited
  <2> QED BY <1>2, <1>6, <1>10, <2>4, <2>6, <2>9
<1> QED BY <1>7, <1>8, <1>9, <1>10 DEF hid_switch_poll

\* A driver that goes through a chain of calls: what a step of it leaves.
LEMMA StepEffect ==
  ASSUME TypeInv, NEW h \in Hubs, NEW from, NEW to \in Int, NEW requests,
         Step(h, from, to, requests), UsedInv(h), port[h] = "ready"
  PROVE  /\ usb_info[h].state = from /\ usb_info'[h].state = to
         /\ usb_info'[h].kind = usb_info[h].kind
         /\ usb_info'[h].ep_in = usb_info[h].ep_in
         /\ usb_info'[h].ep_out = usb_info[h].ep_out
         /\ hid_info' = hid_info /\ device' = device /\ got' = got /\ answer' = answer
         /\ switch_info' = switch_info /\ port'[h] \in {"ready", "busy"}
<1>1. drive(h, to, requests) /\ switch_info' = switch_info /\ usb_info[h].state = from
  BY DEF Step
<1> QED BY <1>1, DriveEffect

\* It tells the device the next command,
LEMMA CommandStep ==
  ASSUME TypeInv, NEW h \in Hubs, NEW from, NEW to \in Int, NEW name, NEW ep,
         Step(h, from, to, <<Request(name, ep)>>), UsedInv(h), port[h] = "ready",
         device[h] \in Kind, name \in OtherCommands, Position(h)' = Position(h) + 1,
         Position(h) + 1 <= Len(Protocol(device[h])),
         Protocol(device[h])[Position(h) + 1] = <<name, ep>>
  PROVE  CalledInv(h)' /\ Commanding(h)' /\ ~Reading(h)' /\ ~Asking(h)'
<1>1. Told(h, Position(h))
  BY ReadyPort
<1>2. drive(h, to, <<Request(name, ep)>>)
  BY DEF Step
<1>3. /\ port'[h] = "busy" /\ transfer' = Request(name, ep)
      /\ device' = device /\ got' = got
  <2> DEFINE requests == <<Request(name, ep)>>
  <2>1. requests # <<>> /\ Head(requests) = Request(name, ep)
    OBVIOUS
  <2>2. drive(h, to, requests)
    BY <1>2
  <2> HIDE DEF requests
  <2> QED BY <2>1, <2>2, DriveEffect
<1>4. transfer'.name = name /\ transfer'.ep = ep /\ name \notin {"in", "GET_STATUS"}
  BY <1>3 DEF Request, OtherCommands
<1>5. Commanding(h)' /\ ~Reading(h)' /\ ~Asking(h)'
  BY <1>3, <1>4 DEF Commanding, Reading, Asking
<1> QED BY <1>1, <1>3, <1>4, <1>5, CommandIssued

\* asks it for a report,
LEMMA ReadStep ==
  ASSUME TypeInv, NEW h \in Hubs, NEW from, NEW to \in Int, NEW ep,
         Step(h, from, to, <<InRequest(ep)>>), UsedInv(h), port[h] = "ready",
         Position(h)' = Position(h)
  PROVE  CalledInv(h)' /\ ~Commanding(h)' /\ Reading(h)' /\ ~Asking(h)'
<1>1. Told(h, Position(h))
  BY ReadyPort
<1>2. drive(h, to, <<InRequest(ep)>>)
  BY DEF Step
<1>3. /\ port'[h] = "busy" /\ transfer' = InRequest(ep)
      /\ device' = device /\ got' = got
  BY <1>2, DriveEffect
<1>4. transfer'.name = "in"
  BY <1>3 DEF InRequest, Request
<1>5. ~Commanding(h)' /\ Reading(h)' /\ ~Asking(h)'
  BY <1>3, <1>4 DEF Commanding, Reading, Asking
<1> QED BY <1>1, <1>3, <1>5, NothingIssued

\* or makes no call.
LEMMA QuietStep ==
  ASSUME TypeInv, NEW h \in Hubs, NEW from, NEW to \in Int,
         Step(h, from, to, <<>>), UsedInv(h), port[h] = "ready",
         Position(h)' = Position(h)
  PROVE  CalledInv(h)' /\ ~Commanding(h)' /\ ~Reading(h)' /\ ~Asking(h)'
<1>1. Told(h, Position(h))
  BY ReadyPort
<1>2. drive(h, to, <<>>)
  BY DEF Step
<1>3. port' = port /\ device' = device /\ got' = got
  BY <1>2, DriveEffect
<1>4. ~Commanding(h)' /\ ~Reading(h)' /\ ~Asking(h)'
  BY <1>3 DEF Commanding, Reading, Asking
<1> QED BY <1>1, <1>3, <1>4, NothingIssued

\* The port of such a driver.
LEMMA StepPort ==
  ASSUME TypeInv, NEW h \in Hubs, NEW from, NEW to \in Int, NEW requests,
         Step(h, from, to, requests), UsedInv(h), port[h] = "ready",
         hid_info[h].state = "READY", device[h] \notin SwitchPads, CalledInv(h)',
         Asking(h)' => device[h] = "hub",
         device[h] = "ps3" => Ps3Inv(h)', device[h] \in Xbox => XboxInv(h)',
         device[h] = "hub" => HubInv(h)', device[h] = "gun" => GunInv(h)'
  PROVE  PortInv(h)'
<1>1. LayoutInv(h) /\ DriverInv(h) /\ usb_info[h].kind = device[h]
  BY ReadyPort
<1>2. /\ usb_info'[h].kind = usb_info[h].kind /\ usb_info'[h].ep_in = usb_info[h].ep_in
      /\ hid_info' = hid_info /\ device' = device /\ answer' = answer
      /\ port'[h] \in {"ready", "busy"}
  BY StepEffect
<1>3. DriverInv(h)'
  BY <1>1, <1>2 DEF DriverInv
<1> QED BY <1>1, <1>2, <1>3, StillUsed DEF Used

\* A poll of the driver of the DualShock 3.
LEMMA Ps3Poll ==
  ASSUME TypeInv, NEW h \in Hubs, device[h] = "ps3", UsedInv(h),
         hid_info[h].state = "READY", port[h] = "ready", hid_dualshock3_poll(h)
  PROVE  PortInv(h)'
<1>1. device[h] \notin SwitchPads \union Xbox /\ device[h] \in Kind
  BY DEF SwitchPads, Xbox, Kind, HidPads
<1>2. Position(h) = IF usb_info[h].state = 5 THEN 4 ELSE usb_info[h].state
  BY <1>1, StateNumbers DEF Position
<1>3. ASSUME NEW n \in 0..3, NEW name \in OtherCommands,
             Step(h, n, n + 1, <<Request(name, 0)>>),
             Protocol("ps3")[n + 1] = <<name, 0>>
      PROVE  PortInv(h)'
  <2> DEFINE to == n + 1
             requests == <<Request(name, 0)>>
  <2>1. to \in 1..4 /\ to \in Int /\ Step(h, n, to, requests)
    BY <1>3
  <2>2. usb_info[h].state = n /\ usb_info'[h].state = to /\ device' = device
    <3> HIDE DEF to, requests
    <3> QED BY <2>1, StepEffect
  <2>3. Position(h) = n /\ Position(h)' = n + 1
    BY <1>1, <1>2, <2>1, <2>2, StateNumbers DEF Position
  <2>4. /\ Protocol(device[h])[Position(h) + 1] = <<name, 0>>
        /\ Position(h) + 1 <= Len(Protocol(device[h]))
    BY <1>3, <2>1, <2>3, OtherProtocols
  <2>5. CalledInv(h)' /\ Commanding(h)' /\ ~Reading(h)' /\ ~Asking(h)'
    BY <1>1, <1>3, <2>1, <2>3, <2>4, CommandStep
  <2>6. Ps3Inv(h)'
    BY <2>1, <2>2, <2>5, StateNumbers DEF Ps3Inv
  <2> HIDE DEF to, requests
  <2> QED BY <1>1, <2>1, <2>5, <2>6, StepPort DEF Xbox
<1>4. CASE Step(h, 4, 5, <<>>)
  <2>1. usb_info[h].state = 4 /\ usb_info'[h].state = 5 /\ device' = device
    BY <1>4, StepEffect
  <2>2. Position(h)' = Position(h)
    BY <1>1, <1>2, <2>1, StateNumbers DEF Position
  <2>3. CalledInv(h)' /\ ~Commanding(h)' /\ ~Reading(h)' /\ ~Asking(h)'
    BY <1>4, <2>2, QuietStep
  <2>4. Ps3Inv(h)'
    BY <2>1, <2>3, StateNumbers DEF Ps3Inv
  <2> QED BY <1>1, <1>4, <2>3, <2>4, StepPort DEF Xbox
<1>5. ASSUME NEW ep, Step(h, 5, 5, <<InRequest(ep)>>)
      PROVE  PortInv(h)'
  <2> DEFINE requests == <<InRequest(ep)>>
  <2>1. usb_info[h].state = 5 /\ usb_info'[h].state = 5 /\ device' = device
    BY <1>5, StepEffect
  <2>2. Position(h)' = Position(h)
    BY <1>1, <1>2, <2>1, StateNumbers DEF Position
  <2>3. CalledInv(h)' /\ ~Commanding(h)' /\ Reading(h)' /\ ~Asking(h)'
    BY <1>5, <2>2, ReadStep
  <2>4. Ps3Inv(h)'
    BY <2>1, <2>3, StateNumbers DEF Ps3Inv
  <2>5. Step(h, 5, 5, requests)
    BY <1>5
  <2> HIDE DEF requests
  <2> QED BY <1>1, <2>3, <2>4, <2>5, StepPort DEF Xbox
<1>6. /\ {"SET_IDLE", "REPORT_01", "REPORT_F2", "REPORT_F5"} \subseteq OtherCommands
      /\ Protocol("ps3")[0 + 1] = <<"SET_IDLE", 0>>
      /\ Protocol("ps3")[1 + 1] = <<"REPORT_01", 0>>
      /\ Protocol("ps3")[2 + 1] = <<"REPORT_F2", 0>>
      /\ Protocol("ps3")[3 + 1] = <<"REPORT_F5", 0>>
  BY OtherProtocols DEF OtherCommands
<1>7. CASE Step(h, CONNECTED, 1, <<Request("SET_IDLE", 0)>>)
  <2>1. Step(h, 0, 0 + 1, <<Request("SET_IDLE", 0)>>)
    BY <1>7, StateNumbers
  <2> QED BY <1>3, <1>6, <2>1
<1>8. CASE Step(h, 1, 2, <<Request("REPORT_01", 0)>>)
  BY <1>3, <1>6, <1>8
<1>9. CASE Step(h, 2, 3, <<Request("REPORT_F2", 0)>>)
  BY <1>3, <1>6, <1>9
<1>10. CASE Step(h, 3, 4, <<Request("REPORT_F5", 0)>>)
  BY <1>3, <1>6, <1>10
<1> QED BY <1>4, <1>5, <1>7, <1>8, <1>9, <1>10, StateNumbers DEF hid_dualshock3_poll

\* A poll of the drivers of the Xbox pads.
LEMMA XboxPoll ==
  ASSUME TypeInv, NEW h \in Hubs, device[h] \in Xbox, UsedInv(h),
         hid_info[h].state = "READY", port[h] = "ready",
         IF device[h] = "xbox360" THEN hid_xbox_360_poll(h) ELSE hid_xbox_one_poll(h)
  PROVE  PortInv(h)'
<1> DEFINE ready == IF device[h] = "xboxone" THEN STARTED ELSE 1
<1>1. /\ device[h] \notin SwitchPads \union {"ps3", "hub", "gun"} /\ device[h] \in Kind
      /\ device[h] \in {"xbox360", "xboxone"} /\ ready \in {1, 2} /\ ready \in Int
  BY StateNumbers DEF SwitchPads, Xbox, Kind
<1>2. Position(h) = usb_info[h].state
  BY <1>1 DEF Position
<1>3. usb_info[h].ep_out = 2
  BY ReadyPort, <1>1 DEF DriverInv, XboxInv
<1>4. ASSUME NEW n \in 0..1, n < ready, NEW name \in OtherCommands, NEW ep,
             Step(h, n, n + 1, <<Request(name, ep)>>),
             Protocol(device[h])[n + 1] = <<name, ep>>,
             n + 1 <= Len(Protocol(device[h]))
      PROVE  PortInv(h)'
  <2> DEFINE to == n + 1
             requests == <<Request(name, ep)>>
  <2>1. to \in 0..ready /\ to \in Int /\ Step(h, n, to, requests)
    BY <1>1, <1>4
  <2>2. /\ usb_info[h].state = n /\ usb_info'[h].state = to /\ device' = device
        /\ usb_info'[h].ep_out = usb_info[h].ep_out
    <3> HIDE DEF to, requests
    <3> QED BY <2>1, StepEffect
  <2>3. Position(h) = n /\ Position(h)' = n + 1
    BY <1>1, <1>2, <2>1, <2>2 DEF Position
  <2>4. /\ Protocol(device[h])[Position(h) + 1] = <<name, ep>>
        /\ Position(h) + 1 <= Len(Protocol(device[h]))
    BY <1>4, <2>3
  <2>5. CalledInv(h)' /\ Commanding(h)' /\ ~Reading(h)' /\ ~Asking(h)'
    BY <1>1, <1>4, <2>1, <2>3, <2>4, CommandStep
  <2>6. XboxInv(h)'
    <3> HIDE DEF to
    <3> QED BY <1>3, <2>1, <2>2, <2>5 DEF XboxInv
  <2> HIDE DEF to, requests
  <2> QED BY <1>1, <2>1, <2>5, <2>6, StepPort
<1>5. ASSUME NEW ep, Step(h, ready, ready, <<InRequest(ep)>>)
      PROVE  PortInv(h)'
  <2> DEFINE requests == <<InRequest(ep)>>
  <2>1. Step(h, ready, ready, requests)
    BY <1>5
  <2>2. /\ usb_info[h].state = ready /\ usb_info'[h].state = ready /\ device' = device
        /\ usb_info'[h].ep_out = usb_info[h].ep_out
    <3> HIDE DEF ready, requests
    <3> QED BY <1>1, <2>1, StepEffect
  <2>3. Position(h)' = Position(h)
    BY <1>1, <1>2, <2>2 DEF Position
  <2>4. CalledInv(h)' /\ ~Commanding(h)' /\ Reading(h)' /\ ~Asking(h)'
    <3> HIDE DEF ready
    <3> QED BY <1>1, <1>5, <2>3, ReadStep
  <2>5. XboxInv(h)'
    BY <1>1, <1>3, <2>2, <2>4 DEF XboxInv
  <2> HIDE DEF ready, requests
  <2> QED BY <1>1, <2>1, <2>4, <2>5, StepPort
<1>6. CASE device[h] = "xbox360"
  <2>1. "LED" \in OtherCommands /\ ready = 1
    BY <1>6 DEF OtherCommands
  <2>2. CASE Step(h, CONNECTED, 1, <<Request("LED", usb_info[h].ep_out)>>)
    <3>1. Step(h, 0, 0 + 1, <<Request("LED", 2)>>)
      BY <1>3, <2>2, StateNumbers
    <3>2. /\ Protocol(device[h])[0 + 1] = <<"LED", 2>>
          /\ 0 + 1 <= Len(Protocol(device[h]))
      BY <1>6, OtherProtocols
    <3> QED BY <1>4, <2>1, <3>1, <3>2
  <2>3. CASE Step(h, 1, 1, <<InRequest(usb_info[h].ep_in)>>)
    BY <1>5, <2>1, <2>3
  <2> QED BY <1>6, <2>2, <2>3 DEF hid_xbox_360_poll
<1>7. CASE device[h] = "xboxone"
  <2>1. {"INITIALIZE", "START"} \subseteq OtherCommands /\ ready = 2
    BY <1>7, StateNumbers DEF OtherCommands
  <2>2. CASE Step(h, CONNECTED, 1, <<Request("INITIALIZE", usb_info[h].ep_out)>>)
    <3>1. Step(h, 0, 0 + 1, <<Request("INITIALIZE", 2)>>)
      BY <1>3, <2>2, StateNumbers
    <3>2. /\ Protocol(device[h])[0 + 1] = <<"INITIALIZE", 2>>
          /\ 0 + 1 <= Len(Protocol(device[h]))
      BY <1>7, OtherProtocols
    <3> QED BY <1>4, <2>1, <3>1, <3>2
  <2>3. CASE Step(h, 1, STARTED, <<Request("START", usb_info[h].ep_out)>>)
    <3>1. Step(h, 1, 1 + 1, <<Request("START", 2)>>)
      BY <1>3, <2>3, StateNumbers
    <3>2. /\ Protocol(device[h])[1 + 1] = <<"START", 2>>
          /\ 1 + 1 <= Len(Protocol(device[h]))
      BY <1>7, OtherProtocols
    <3> QED BY <1>4, <2>1, <3>1, <3>2
  <2>4. CASE Step(h, STARTED, STARTED, <<InRequest(usb_info[h].ep_in)>>)
    <3>1. ready = STARTED
      BY <1>7
    <3> QED BY <1>5, <2>4, <3>1
  <2> QED BY <1>7, <2>2, <2>3, <2>4 DEF hid_xbox_one_poll
<1> QED BY <1>1, <1>6, <1>7

\* A hub is asked for the state of its port.
LEMMA AskStep ==
  ASSUME TypeInv, NEW h \in Hubs, NEW from, NEW to \in Int,
         Step(h, from, to, <<Request("GET_STATUS", 0)>>), UsedInv(h), port[h] = "ready",
         Position(h)' = Position(h)
  PROVE  CalledInv(h)' /\ ~Commanding(h)' /\ ~Reading(h)' /\ Asking(h)'
<1>1. Told(h, Position(h))
  BY ReadyPort
<1>2. /\ port'[h] = "busy" /\ transfer' = Request("GET_STATUS", 0)
      /\ device' = device /\ got' = got
  <2> DEFINE requests == <<Request("GET_STATUS", 0)>>
  <2>1. requests # <<>> /\ Head(requests) = Request("GET_STATUS", 0)
    OBVIOUS
  <2>2. drive(h, to, requests)
    BY DEF Step
  <2> HIDE DEF requests
  <2> QED BY <2>1, <2>2, DriveEffect
<1>3. transfer'.name = "GET_STATUS"
  BY <1>2 DEF Request
<1>4. ~Commanding(h)' /\ ~Reading(h)' /\ Asking(h)'
  BY <1>2, <1>3 DEF Commanding, Reading, Asking
<1> QED BY <1>1, <1>2, <1>4, NothingIssued

\* A hub gives way to the gun behind it.
LEMMA HubSwitch ==
  ASSUME TypeInv, NEW h \in Hubs, device[h] = "hub", UsedInv(h), port[h] = "ready",
         hub_switch(h)
  PROVE  PortInv(h)'
<1>1. answer[h].name = "none"
  BY ReadyPort DEF DriverInv, SwitchPads
<1>2. port'[h] = "address" /\ got'[h] = <<>> /\ answer' = answer
  BY DEF hub_switch, TypeInv, HostTypes, DeviceTypes
<1>3. Silent(h)'
  BY <1>1, <1>2 DEF Silent
<1> QED BY <1>2, <1>3
        DEF PortInv, NewInv, FirstInv, ConfigurationInv, ReportInv, Enumerated


\* The hub before a gun: its port is reset, and then the gun has its address.
LEMMA HubPoll ==
  ASSUME TypeInv, NEW h \in Hubs, device[h] = "hub", UsedInv(h),
         hid_info[h].state = "READY", port[h] = "ready", hid_guncon3_poll(h)
  PROVE  PortInv(h)'
<1>1. /\ device[h] \notin SwitchPads \union Xbox \union {"ps3", "gun"}
      /\ device[h] \in Kind
  BY DEF SwitchPads, Xbox, Kind
<1>2. Position(h) = HubPosition(usb_info[h].state)
  BY <1>1 DEF Position
<1>3. HubInv(h) /\ usb_info[h].state \in 1..6
  BY ReadyPort, <1>1, StateNumbers DEF DriverInv, HubInv
<1>4. /\ HubPosition(1) = 0 /\ HubPosition(2) = 0 /\ HubPosition(3) = 0
      /\ HubPosition(4) = 1 /\ HubPosition(5) = 1 /\ HubPosition(6) = 2
  BY StateNumbers DEF HubPosition
<1>5. ASSUME NEW from \in {1, 4}, NEW to \in {2, 4}, from = 1 <=> to = 2,
             Step(h, from, to, <<Request("GET_STATUS", 0)>>)
      PROVE  PortInv(h)'
  <2> DEFINE requests == <<Request("GET_STATUS", 0)>>
  <2>1. Step(h, from, to, requests) /\ to \in Int
    BY <1>5
  <2>2. usb_info[h].state = from /\ usb_info'[h].state = to /\ device' = device
    <3> HIDE DEF requests
    <3> QED BY <2>1, StepEffect
  <2>3. Position(h)' = Position(h)
    BY <1>1, <1>2, <1>4, <1>5, <2>2 DEF Position
  <2>4. CalledInv(h)' /\ ~Commanding(h)' /\ ~Reading(h)' /\ Asking(h)'
    BY <1>5, <2>1, <2>3, AskStep
  <2>5. port'[h] = "busy"
    BY <2>4 DEF Asking
  <2>6. HubInv(h)'
    BY <1>5, <2>2, <2>4, <2>5, StateNumbers DEF HubInv
  <2> HIDE DEF requests
  <2> QED BY <1>1, <2>1, <2>4, <2>6, StepPort
<1>6. ASSUME NEW from \in {3, 5}, NEW to \in {4, 6}, from = 3 <=> to = 4,
             NEW name \in OtherCommands, Step(h, from, to, <<Request(name, 0)>>),
             Protocol("hub")[IF from = 3 THEN 1 ELSE 2] = <<name, 0>>
      PROVE  PortInv(h)'
  <2> DEFINE requests == <<Request(name, 0)>>
  <2>1. Step(h, from, to, requests) /\ to \in Int
    BY <1>6
  <2>2. usb_info[h].state = from /\ usb_info'[h].state = to /\ device' = device
    <3> HIDE DEF requests
    <3> QED BY <2>1, StepEffect
  <2>3. /\ Position(h) = IF from = 3 THEN 0 ELSE 1
        /\ Position(h)' = Position(h) + 1
    BY <1>1, <1>2, <1>4, <1>6, <2>2 DEF Position
  <2>4. /\ Protocol(device[h])[Position(h) + 1] = <<name, 0>>
        /\ Position(h) + 1 <= Len(Protocol(device[h]))
    BY <1>6, <2>3, OtherProtocols
  <2>5. CalledInv(h)' /\ Commanding(h)' /\ ~Reading(h)' /\ ~Asking(h)'
    BY <1>1, <1>6, <2>1, <2>3, <2>4, CommandStep
  <2>6. HubInv(h)'
    BY <1>6, <2>2, <2>5, StateNumbers DEF HubInv, Commanding
  <2> HIDE DEF requests
  <2> QED BY <1>1, <2>1, <2>5, <2>6, StepPort
<1>7. CASE Step(h, HUB_CONNECTED, HUB_GET_PORT_STATUS, <<Request("GET_STATUS", 0)>>)
  <2>1. Step(h, 1, 2, <<Request("GET_STATUS", 0)>>)
    BY <1>7, StateNumbers
  <2> QED BY <1>5, <2>1
<1>8. CASE Step(h, HUB_PORT_RESET_WAIT, HUB_PORT_RESET_WAIT, <<Request("GET_STATUS", 0)>>)
  <2>1. Step(h, 4, 4, <<Request("GET_STATUS", 0)>>)
    BY <1>8, StateNumbers
  <2> QED BY <1>5, <2>1
<1>9. "PORT_RESET" \in OtherCommands /\ "C_PORT_RESET" \in OtherCommands
  BY DEF OtherCommands
<1>10. CASE Step(h, HUB_PORT_RESET, HUB_PORT_RESET_WAIT, <<Request("PORT_RESET", 0)>>)
  <2>1. Step(h, 3, 4, <<Request("PORT_RESET", 0)>>)
    BY <1>10, StateNumbers
  <2> QED BY <1>6, <1>9, <2>1, OtherProtocols
<1>11. CASE Step(h, HUB_PORT_RESET_DONE, HUB_PORT_SET_ADDRESS, <<Request("C_PORT_RESET", 0)>>)
  <2>1. Step(h, 5, 6, <<Request("C_PORT_RESET", 0)>>)
    BY <1>11, StateNumbers
  <2> QED BY <1>6, <1>9, <2>1, OtherProtocols
<1>12. ~(\E to, requests : Step(h, GUN_CONNECTED, to, requests)
                             \/ Step(h, GUN_READY, to, requests))
  BY <1>3, StateNumbers DEF Step
<1> QED BY <1>7, <1>8, <1>10, <1>11, <1>12, HubSwitch DEF hid_guncon3_poll

\* The gun itself.
LEMMA GunPoll ==
  ASSUME TypeInv, NEW h \in Hubs, device[h] = "gun", UsedInv(h),
         hid_info[h].state = "READY", port[h] = "ready", hid_guncon3_poll(h)
  PROVE  PortInv(h)'
<1>1. /\ device[h] \notin SwitchPads \union Xbox \union {"ps3", "hub"}
      /\ device[h] \in Kind
  BY DEF SwitchPads, Xbox, Kind
<1>2. GunInv(h) /\ usb_info[h].state \in {8, 9}
  BY ReadyPort, <1>1, StateNumbers DEF DriverInv, GunInv
<1>3. Position(h) = usb_info[h].state - 8
  BY <1>1, StateNumbers DEF Position
<1>4. CASE Step(h, GUN_CONNECTED, GUN_READY, <<Request("KEY", 2)>>)
  <2> DEFINE requests == <<Request("KEY", 2)>>
  <2>1. Step(h, 8, 9, requests)
    BY <1>4, StateNumbers
  <2>2. usb_info[h].state = 8 /\ usb_info'[h].state = 9 /\ device' = device
    <3> HIDE DEF requests
    <3> QED BY <2>1, StepEffect
  <2>3. Position(h) = 0 /\ Position(h)' = Position(h) + 1
    BY <1>1, <1>3, <2>2, StateNumbers DEF Position
  <2>4. /\ Protocol(device[h])[Position(h) + 1] = <<"KEY", 2>>
        /\ Position(h) + 1 <= Len(Protocol(device[h]))
    BY <2>3, OtherProtocols
  <2>5. "KEY" \in OtherCommands
    BY DEF OtherCommands
  <2>6. CalledInv(h)' /\ Commanding(h)' /\ ~Reading(h)' /\ ~Asking(h)'
    BY <1>1, <2>1, <2>3, <2>4, <2>5, CommandStep
  <2>7. GunInv(h)'
    BY <2>2, <2>6, StateNumbers DEF GunInv
  <2> HIDE DEF requests
  <2> QED BY <1>1, <2>1, <2>6, <2>7, StepPort
<1>5. CASE Step(h, GUN_READY, GUN_READY, <<InRequest(2)>>)
  <2> DEFINE requests == <<InRequest(2)>>
  <2>1. Step(h, 9, 9, requests)
    BY <1>5, StateNumbers
  <2>2. usb_info[h].state = 9 /\ usb_info'[h].state = 9 /\ device' = device
    <3> HIDE DEF requests
    <3> QED BY <2>1, StepEffect
  <2>3. Position(h)' = Position(h)
    BY <1>1, <1>3, <2>2, StateNumbers DEF Position
  <2>4. CalledInv(h)' /\ ~Commanding(h)' /\ Reading(h)' /\ ~Asking(h)'
    BY <2>1, <2>3, ReadStep
  <2>5. GunInv(h)'
    BY <2>2, <2>4, StateNumbers DEF GunInv
  <2> HIDE DEF requests
  <2> QED BY <1>1, <2>1, <2>4, <2>5, StepPort
<1>6. /\ \A from \in 1..6 : ~\E to, requests : Step(h, from, to, requests)
      /\ ~hub_switch(h)
  BY <1>2, StateNumbers DEF Step, hub_switch
<1>7. /\ HUB_CONNECTED \in 1..6 /\ HUB_PORT_RESET \in 1..6
      /\ HUB_PORT_RESET_WAIT \in 1..6 /\ HUB_PORT_RESET_DONE \in 1..6
  BY StateNumbers
<1> QED BY <1>4, <1>5, <1>6, <1>7 DEF hid_guncon3_poll

\* A device without commands is read from over and over.
LEMMA DefaultPoll ==
  ASSUME TypeInv, NEW h \in Hubs,
         device[h] \in Kind \ (SwitchPads \union Xbox \union {"ps3", "hub", "gun"}),
         UsedInv(h), hid_info[h].state = "READY", port[h] = "ready", default_poll(h)
  PROVE  PortInv(h)'
<1> DEFINE s == usb_info[h].state
           requests == <<InRequest(usb_info[h].ep_in)>>
<1>1. s \in Int /\ Step(h, s, s, requests)
  BY DEF default_poll, TypeInv, InfoTypes, UsbInfo
<1>2. hid_info' = hid_info /\ device' = device
  <2> HIDE DEF s, requests
  <2> QED BY <1>1, StepEffect
<1>3. Position(h)' = Position(h)
  BY <1>2 DEF Position
<1>4. CalledInv(h)' /\ ~Asking(h)'
  BY <1>1, <1>3, ReadStep
<1> HIDE DEF s, requests
<1> QED BY <1>1, <1>4, StepPort


\* A pad that has to be asked twice before it reports.
LEMMA QueryPoll ==
  ASSUME TypeInv, NEW h \in Hubs, Plugged(h), UsedInv(h), port[h] = "ready",
         poll_query(h)
  PROVE  PortInv(h)'
<1>1. PICK step \in {<<"SET_IDLE", "GET_REPORT">>, <<"GET_REPORT", "READY">>} :
        /\ hid_info[h].state = step[1]
        /\ hid_info' = [hid_info EXCEPT ![h].state = step[2]]
        /\ submit(h, <<Request(step[1], 0)>>)
        /\ UNCHANGED <<usb_info, switch_info, due, given, deviceVars>>
  BY DEF poll_query
<1>2. /\ step[1] \in OtherCommands /\ step[1] \notin {"in", "GET_STATUS"}
      /\ step[2] \in {"GET_REPORT", "READY"} /\ step[1] # "READY"
  BY DEF OtherCommands
<1>3. device[h] = "hori" /\ Told(h, Position(h)) /\ LayoutInv(h) /\ DriverInv(h)
      /\ usb_info[h].kind = device[h]
  BY <1>1, <1>2, ReadyPort DEF DriverInv
<1>4. device[h] \notin SwitchPads \union Xbox \union {"ps3", "hub", "gun"}
      /\ device[h] \in Kind
  BY <1>3 DEF SwitchPads, Xbox, Kind, HidPads
<1>5. /\ hid_info'[h].state = step[2] /\ hid_info'[h].type = hid_info[h].type
      /\ hid_info'[h].source = hid_info[h].source
  <2>1. hid_info \in [Hubs -> Info] /\ hid_info[h] \in Info
    BY DEF TypeInv, InfoTypes
  <2> QED BY <1>1, <2>1 DEF Info
<1>6. /\ port'[h] = "busy" /\ transfer' = Request(step[1], 0)
      /\ device' = device /\ got' = got /\ answer' = answer /\ usb_info' = usb_info
  <2>1. port \in [Hubs -> PortStates]
    BY DEF TypeInv, HostTypes
  <2> QED BY <1>1, <2>1 DEF submit, deviceVars
<1>7. transfer'.name = step[1] /\ transfer'.ep = 0
  BY <1>6 DEF Request
<1>8. Commanding(h)' /\ ~Reading(h)' /\ ~Asking(h)'
  BY <1>2, <1>6, <1>7 DEF Commanding, Reading, Asking
<1>9. /\ Position(h) = HoriPosition(step[1]) /\ Position(h)' = HoriPosition(step[2])
      /\ HoriPosition(step[1]) \in 0..1
      /\ HoriPosition(step[2]) = HoriPosition(step[1]) + 1
  BY <1>1, <1>3, <1>4, <1>5, <1>6 DEF Position, HoriPosition
<1>10. /\ Protocol(device[h])[Position(h) + 1] = <<step[1], 0>>
       /\ Position(h) + 1 <= Len(Protocol(device[h]))
  BY <1>3, <1>9, OtherProtocols DEF HoriPosition
<1>11. CalledInv(h)'
  BY <1>3, <1>4, <1>6, <1>7, <1>8, <1>9, <1>10, CommandIssued
<1>12. DriverInv(h)'
  BY <1>3, <1>4, <1>6, <1>8 DEF DriverInv
<1> QED BY <1>2, <1>3, <1>5, <1>6, <1>11, <1>12, StillUsed DEF Used

\* A poll keeps the invariant of its port.
LEMMA PollPort ==
  ASSUME TypeInv, NEW h \in Hubs, Plugged(h), PortInv(h), hid_poll(h)
  PROVE  PortInv(h)'
<1>1. CASE UNCHANGED <<infoVars, hostVars, deviceVars>>
  <2>1. SameAt(h)
    BY <1>1 DEF SameAt, infoVars, hostVars, deviceVars
  <2> QED BY <2>1, SamePort
<1>2. ASSUME port[h] = "ready", hid_info[h].state \in Used, poll_ready(h)
      PROVE  PortInv(h)'
  <2>1. UsedInv(h) /\ RightType(h) /\ device[h] \in Kind /\ hid_info[h].state = "READY"
    BY <1>2 DEF PortInv, UsedInv, LayoutInv, Enumerated, Plugged, TypeInv, DeviceTypes,
                Attached, poll_ready
  <2>2. CASE device[h] \in SwitchPads
    BY <1>2, <2>1, <2>2, DriverOf, SwitchPoll DEF poll_ready, Driven
  <2>3. CASE device[h] = "ps3"
    BY <1>2, <2>1, <2>3, DriverOf, Ps3Poll DEF poll_ready, Driven
  <2>4. CASE device[h] \in Xbox
    <3>1. IF device[h] = "xbox360" THEN hid_xbox_360_poll(h) ELSE hid_xbox_one_poll(h)
      BY <1>2, <2>1, <2>4, DriverOf DEF poll_ready, Driven, Xbox
    <3> QED BY <1>2, <2>1, <2>4, <3>1, XboxPoll
  <2>5. CASE device[h] \in {"hub", "gun"}
    <3>1. hid_guncon3_poll(h)
      BY <1>2, <2>1, <2>5, DriverOf DEF poll_ready, Driven
    <3> QED BY <1>2, <2>1, <2>5, <3>1, HubPoll, GunPoll
  <2>6. CASE device[h] \notin SwitchPads \union Xbox \union {"ps3", "hub", "gun"}
    <3>1. default_poll(h)
      BY <1>2, <2>1, <2>6, DriverOf DEF poll_ready, Driven, Xbox
    <3> QED BY <1>2, <2>1, <2>6, <3>1, DefaultPoll
  <2> QED BY <2>2, <2>3, <2>4, <2>5, <2>6
<1>3. ASSUME port[h] = "ready", poll_query(h)
      PROVE  PortInv(h)'
  <2>1. hid_info[h].state \in Used
    BY <1>3 DEF poll_query, Used
  <2>2. UsedInv(h)
    BY <1>3, <2>1 DEF PortInv, Enumerated
  <2> QED BY <1>3, <2>2, QueryPoll
<1>4. poll_ready(h) => hid_info[h].state \in Used
  BY DEF poll_ready, Used
<1> QED BY <1>1, <1>2, <1>3, <1>4 DEF hid_poll, usb_host_ready


-----------------------------------------------------------------------------
(* The enumeration                                                          *)

\* A port that has just become usable: nothing has been said to its device, and
\* its driver is in its first state.
LEMMA FreshPort ==
  ASSUME NEW h \in Hubs, NEW kind \in Kind, device'[h] = kind, Silent(h)',
         port'[h] = "delay", usb_info'[h].kind = kind,
         usb_info'[h].state = FirstState(kind), LayoutInv(h)',
         hid_info'[h].state = (IF kind = "hori" THEN "SET_IDLE" ELSE "READY"),
         kind \in Xbox => usb_info'[h].ep_out = 2
  PROVE  PortInv(h)'
<1>1. ~Commanding(h)' /\ ~Reading(h)' /\ ~Asking(h)'
  BY DEF Commanding, Reading, Asking
<1>2. Position(h)' = 0
  <2>1. CASE kind \in SwitchPads
    <3>1. Position(h)' = SwitchPosition(kind, 0, switch_info'[h].joycon)
      BY <2>1, StateNumbers DEF Position, SwitchPads, FirstState, Xbox
    <3> QED BY <3>1, StateNumbers DEF SwitchPosition
  <2>2. CASE kind \in {"hub", "gun"}
    BY <2>2, StateNumbers DEF Position, FirstState, HubPosition, SwitchPads, Xbox
  <2>3. CASE kind \in {"ps3", "hori"}
    BY <2>3, StateNumbers DEF Position, FirstState, HoriPosition, SwitchPads, Xbox
  <2>4. CASE kind \in Xbox
    BY <2>4, StateNumbers DEF Position, FirstState, SwitchPads, Xbox
  <2>5. CASE kind \notin SwitchPads \union Xbox \union {"hub", "gun", "ps3", "hori"}
    BY <2>5 DEF Position
  <2> QED BY <2>1, <2>2, <2>3, <2>4, <2>5
<1>3. CalledInv(h)'
  <2>1. /\ Protocol(kind) \in Seq(Calls) /\ Len(Protocol(kind)) \in Nat
        /\ 0 \in 0..Len(Protocol(kind))
    BY ProtocolType
  <2>2. SubSeq(Protocol(kind), 1, 0) = <<>>
    BY <2>1, Follows
  <2>3. Told(h, 0)'
    BY <2>1, <2>2 DEF Told, Silent
  <2>4. (Told(h, Position(h)))'
    BY <1>2, <2>3 DEF Told
  <2> QED BY <1>1, <2>4 DEF CalledInv
<1>4. DriverInv(h)'
  <2>1. kind \in SwitchPads => SwitchInv(h)'
    <3>1. ~Reads(0) /\ ~Receives(0)
      BY SwitchStates
    <3>2. kind \in SwitchPads => usb_info'[h].state = 0
      BY StateNumbers DEF SwitchPads, FirstState
    <3> QED BY <1>1, <3>1, <3>2, StateNumbers DEF SwitchInv, OwedInv, Awaited, Silent
  <2>2. kind = "ps3" => Ps3Inv(h)'
    BY <1>1, StateNumbers DEF Ps3Inv, FirstState
  <2>3. kind \in Xbox => XboxInv(h)'
    BY <1>1, StateNumbers DEF XboxInv, Xbox, FirstState
  <2>4. kind = "hub" => HubInv(h)'
    BY <1>1, StateNumbers DEF HubInv, FirstState
  <2>5. kind = "gun" => GunInv(h)'
    BY <1>1, StateNumbers DEF GunInv, FirstState
  <2> QED BY <1>1, <2>1, <2>2, <2>3, <2>4, <2>5 DEF DriverInv, Silent
<1>5. UsedInv(h)'
  BY <1>3, <1>4 DEF UsedInv
<1>6. NewInv(h)' /\ FirstInv(h)' /\ ConfigurationInv(h)' /\ ReportInv(h)'
  BY DEF NewInv, FirstInv, ConfigurationInv, ReportInv
<1> QED BY <1>5, <1>6 DEF PortInv, Used

\* A device without a driver, which no poll will ever ask anything.
LEMMA UnusedPort ==
  ASSUME NEW h \in Hubs, Silent(h)', port'[h] \in {"delay", "ready"},
         hid_info'[h].state \notin Used
  PROVE  PortInv(h)'
BY DEF PortInv, NewInv, FirstInv, ConfigurationInv, ReportInv

\* The device descriptor: the driver forgets the device before.
LEMMA DevicePort ==
  ASSUME TypeInv, NEW h \in Hubs, Plugged(h), PortInv(h), port[h] = "device",
         check_device_desc(h), port'[h] = "configuration", UNCHANGED deviceVars
  PROVE  PortInv(h)'
<1>1. device[h] \in Kind
  BY DEF Plugged, TypeInv, DeviceTypes, Attached
<1>2. /\ hid_info'[h].state = "CONNECTED" /\ hid_info'[h].type = TypeByIds(device[h])
      /\ usb_info'[h].state = FirstState(device[h]) /\ usb_info'[h].kind = device[h]
  BY <1>1, DeviceDescEffect DEF TypeInv
<1>3. Silent(h)' /\ device' = device
  BY DEF PortInv, NewInv, Silent, deviceVars
<1> QED BY <1>2, <1>3
        DEF PortInv, NewInv, FirstInv, ConfigurationInv, ReportInv, Enumerated

\* The configuration: the type of the interface, and the layouts that need no
\* report descriptor.
LEMMA ConfigurationPort ==
  ASSUME TypeInv, NEW h \in Hubs, Plugged(h), PortInv(h), port[h] = "configuration",
         check_configuration_desc(h), UNCHANGED deviceVars,
         port'[h] = IF HasReportDesc(device[h]) THEN "report" ELSE "delay"
  PROVE  PortInv(h)'
<1> DEFINE kind == device[h]
<1>1. kind \in Kind
  BY DEF Plugged, TypeInv, DeviceTypes, Attached
<1>2. /\ Silent(h) /\ usb_info[h].kind = kind /\ usb_info[h].state = FirstState(kind)
      /\ hid_info[h].state = "CONNECTED" /\ hid_info[h].type = TypeByIds(kind)
  BY DEF PortInv, FirstInv, ConfigurationInv
<1>3. Silent(h)' /\ device'[h] = kind
  BY <1>2 DEF Silent, deviceVars
<1>4. /\ hid_info' \in [Hubs -> Info]
      /\ hid_info'[h].type = WalkedType(kind)
      /\ IF WalkedType(kind) \in DOMAIN Initializes
         THEN /\ hid_info'[h].state = "READY"
              /\ hid_info'[h].source = Write(hid_info[h].source,
                   FieldsOf[Initializes[WalkedType(kind)]],
                   Initializes[WalkedType(kind)])
         ELSE hid_info'[h].state \in {"NOT_READY", "CONNECTED"}
      /\ usb_info'[h].state = IF WalkedType(kind) \in {"XBOX_360", "XBOX_ONE"}
                              THEN CONNECTED ELSE FirstState(kind)
      /\ usb_info'[h].kind = kind
      /\ kind \notin {"hub", "dongle"} => usb_info'[h].ep_in = ReportEndpoint(kind)
      /\ kind \in Xbox => usb_info'[h].ep_out = 2
  <2>1. InfoTypes
    BY DEF TypeInv
  <2>2. check_configuration_desc(h) /\ device[h] = kind
    OBVIOUS
  <2> HIDE DEF kind
  <2> QED BY <1>1, <1>2, <2>1, <2>2, ConfigurationEffect
<1>5. usb_info'[h].state = FirstState(kind)
  BY <1>1, <1>4, StateNumbers DEF FirstState, WalkedType, TypeByIds
<1>6. CASE HasReportDesc(kind)
  <2>1. WalkedType(kind) \notin DOMAIN Initializes /\ kind \notin {"hub", "dongle"}
    BY <1>6, InitializesFacts
       DEF HasReportDesc, HidPads, WalkedType, TypeByIds, SwitchPads
  <2> QED BY <1>3, <1>4, <1>5, <1>6, <2>1
          DEF PortInv, NewInv, FirstInv, ConfigurationInv, ReportInv, Enumerated
<1>7. CASE kind = "dongle"
  <2>1. WalkedType(kind) \notin DOMAIN Initializes /\ ~HasReportDesc(kind)
    BY <1>7, InitializesFacts
       DEF HasReportDesc, HidPads, WalkedType, TypeByIds, SwitchPads
  <2> QED BY <1>3, <1>4, <2>1, UnusedPort DEF Used
<1>8. CASE kind \in Xbox \union {"keyboard", "hub", "gun"}
  <2>1. ~HasReportDesc(kind) /\ kind # "hori" /\ kind # "dongle"
    BY <1>8 DEF HasReportDesc, HidPads, Xbox
  <2> DEFINE by == IF kind \in {"hub", "gun"} THEN "gun" ELSE kind
  <2>2. WalkedType(kind) \in DOMAIN Initializes /\ Initializes[WalkedType(kind)] = by
    BY <1>8, InitializesFacts DEF WalkedType, TypeByIds, SwitchPads, Xbox
  <2>3. /\ hid_info'[h].state = "READY"
        /\ hid_info'[h].source = Write(hid_info[h].source, FieldsOf[by], by)
    BY <1>4, <2>2
  <2>4. RightType(h)'
    BY <1>3, <1>4, <1>8 DEF RightType, WalkedType, TypeByIds, SwitchPads, Xbox
  <2>5. ASSUME NEW f \in Fields, Writers(h, f)' # {}
        PROVE  hid_info'[h].source[f] \in Writers(h, f)'
    <3>1. f \in FieldsOf[by] /\ Writers(h, f)' = {by}
      <4>1. CASE kind = "keyboard"
        BY <1>3, <2>5, <4>1 DEF Writers, FieldsOf, SwitchPads, Xbox
      <4>2. CASE kind \in Xbox
        <5>1. f # "meta" /\ Writers(h, f)' = {kind}
          BY <1>3, <2>5, <4>2 DEF Writers, Xbox, SwitchPads
        <5>2. FieldsOf[by] = Fields \ {"meta"}
          BY <4>2 DEF FieldsOf, xbox_fields, Xbox
        <5> QED BY <4>2, <5>1, <5>2 DEF Xbox
      <4>3. CASE kind \in {"hub", "gun"}
        BY <1>3, <4>3 DEF Writers, FieldsOf, gun_fields, Xbox, SwitchPads
      <4> QED BY <1>8, <4>1, <4>2, <4>3
    <3> HIDE DEF by
    <3> QED BY <2>3, <3>1 DEF Write
  <2>6. LayoutInv(h)'
    BY <1>3, <1>4, <2>1, <2>4, <2>5 DEF LayoutInv
  <2> QED BY <1>1, <1>3, <1>4, <1>5, <2>1, <2>3, <2>6, FreshPort
<1> QED BY <1>1, <1>6, <1>7, <1>8 DEF Kind, HasReportDesc

\* The report descriptor: the layouts that are parsed from it.
LEMMA ReportPort ==
  ASSUME TypeInv, NEW h \in Hubs, Plugged(h), PortInv(h), port[h] = "report",
         check_hid_report_desc(h), UNCHANGED deviceVars, port'[h] = "delay"
  PROVE  PortInv(h)'
<1> DEFINE kind == device[h]
<1>1. kind \in Kind
  BY DEF Plugged, TypeInv, DeviceTypes, Attached
<1>2. /\ Silent(h) /\ usb_info[h].kind = kind /\ usb_info[h].state = FirstState(kind)
      /\ HasReportDesc(kind) /\ hid_info[h].state \in {"CONNECTED", "NOT_READY"}
      /\ hid_info[h].type = WalkedType(kind)
      /\ usb_info[h].ep_in = ReportEndpoint(kind)
  BY DEF PortInv, FirstInv, ReportInv
<1>3. Silent(h)' /\ device'[h] = kind
  BY <1>2 DEF Silent, deviceVars
<1>4. /\ IF hid_info[h].state # "NOT_READY" THEN hid_info'[h] = hid_info[h]
         ELSE /\ hid_info'[h].state = IF kind = "hori" THEN "SET_IDLE" ELSE "READY"
              /\ hid_info'[h].type \in KnownTypes(kind)
              /\ \A f \in Fields : hid_info'[h].source[f] = WrittenBy(kind, f)
      /\ UNCHANGED usb_info
  <2>1. InfoTypes /\ DeviceTypes
    BY DEF TypeInv
  <2>2. check_hid_report_desc(h) /\ device[h] = kind
    OBVIOUS
  <2> HIDE DEF kind
  <2> QED BY <1>1, <1>2, <2>1, <2>2, HidReportEffect
<1>5. CASE hid_info[h].state # "NOT_READY"
  BY <1>2, <1>3, <1>4, <1>5, UnusedPort DEF Used
<1>6. CASE hid_info[h].state = "NOT_READY"
  <2>1. kind \notin Xbox \union {"keyboard", "hub", "gun"}
    BY <1>2 DEF HasReportDesc, HidPads, Xbox
  <2>2. RightType(h)'
    BY <1>3, <1>4, <1>6, <2>1 DEF RightType, KnownTypes, SwitchPads, Xbox
  <2>3. ASSUME NEW f \in Fields PROVE hid_info'[h].source[f] \in Writers(h, f)'
    <3>1. /\ FieldsOf.switch = Fields \ {"meta"}
          /\ Writers(h, f)' = CASE kind \in SwitchPads -> IF f = "meta" THEN {"parsed"}
                                                          ELSE {"switch"}
                                [] kind = "ps3" -> IF f \in FieldsOf.ps3 THEN {"ps3"}
                                                   ELSE {"parsed"}
                                [] OTHER -> {"parsed"}
      BY <1>3, <2>1 DEF Writers, FieldsOf, switch_fields, SwitchPads, Xbox
    <3> QED BY <1>4, <1>6, <3>1 DEF WrittenBy, SwitchPads
  <2>4. LayoutInv(h)'
    BY <1>2, <1>3, <1>4, <2>2, <2>3 DEF LayoutInv
  <2> QED BY <1>1, <1>2, <1>3, <1>4, <1>6, <2>1, <2>4, FreshPort
<1> QED BY <1>5, <1>6

\* The host goes on with the enumeration of a port.
LEMMA EnumeratePort ==
  ASSUME TypeInv, NEW h \in Hubs, PortInv(h), Enumerates(h)
  PROVE  PortInv(h)'
<1>1. Plugged(h) /\ UNCHANGED deviceVars /\ port \in [Hubs -> PortStates]
  BY DEF Enumerates, TypeInv, HostTypes
<1>2. CASE port[h] = "device" /\ check_device_desc(h) /\ Goto(h, "configuration", FALSE)
  BY <1>1, <1>2, DevicePort DEF Goto
<1>3. CASE port[h] = "configuration" /\ check_configuration_desc(h)
           /\ IF HasReportDesc(device[h]) THEN Goto(h, "report", FALSE)
              ELSE Goto(h, "delay", TRUE)
  BY <1>1, <1>3, ConfigurationPort DEF Goto
<1>4. CASE port[h] = "report" /\ check_hid_report_desc(h) /\ Goto(h, "delay", TRUE)
  BY <1>1, <1>4, ReportPort DEF Goto
<1> QED BY <1>2, <1>3, <1>4 DEF Enumerates


-----------------------------------------------------------------------------
(* The ends of the requests                                                 *)

\* The host is busy with a port whose driver is in use, and has asked.
LEMMA BusyPort ==
  ASSUME TypeInv, NEW h \in Hubs, Plugged(h), PortInv(h), Ends(h)
  PROVE  /\ UsedInv(h) /\ CalledInv(h) /\ DriverInv(h) /\ LayoutInv(h) /\ RightType(h)
         /\ hid_info[h].state \in Used /\ usb_info[h].kind = device[h]
         /\ device[h] \in Kind /\ port[h] = "busy" /\ port'[h] = "delay"
         /\ ~Commanding(h)' /\ ~Reading(h)' /\ ~Asking(h)'
         /\ Protocol(device[h]) \in Seq(Calls) /\ Len(Protocol(device[h])) \in Nat
<1>1. port \in [Hubs -> PortStates] /\ device[h] \in Kind
  BY DEF Plugged, TypeInv, HostTypes, DeviceTypes, Attached
<1>2. port[h] = "busy" /\ port'[h] = "delay"
  BY <1>1 DEF Ends, Goto
<1>3. hid_info[h].state \in Used /\ UsedInv(h)
  BY <1>2 DEF PortInv, Enumerated
<1>4. ~Commanding(h)' /\ ~Reading(h)' /\ ~Asking(h)'
  BY <1>2 DEF Commanding, Reading, Asking
<1> QED BY <1>1, <1>2, <1>3, <1>4, ProtocolType DEF UsedInv, LayoutInv

\* The device has been told all that the driver has issued.
LEMMA AllTold ==
  ASSUME NEW h \in Hubs, ~Commanding(h)', (Told(h, Position(h)))'
  PROVE  CalledInv(h)'
BY DEF CalledInv

\* While a Switch controller takes a command, it is the one of the driver's state.
LEMMA SwitchCommanding ==
  ASSUME TypeInv, NEW h \in Hubs, device[h] \in SwitchPads, CalledInv(h),
         SwitchInv(h), Commanding(h)
  PROVE  /\ Reads(usb_info[h].state) /\ ~Receives(usb_info[h].state)
         /\ transfer.name = CommandOf(usb_info[h].state)
         /\ transfer.name \in SwitchCommands /\ answer[h].name = "none"
<1> DEFINE s == usb_info[h].state
           j == switch_info[h].joycon
           kind == device[h]
<1>1. s \in 0..28 /\ Reads(s) /\ kind \in SwitchPads
  BY StateNumbers DEF SwitchInv
<1>2. PICK i \in 1..9 : s = 3 * i - 1
  <2>1. s \in {0, 28} \/ \E i \in 1..9 : s \in {3 * i - 2, 3 * i - 1, 3 * i}
    BY <1>1, SwitchStates
  <2>2. s \notin {0, 28}
    BY <1>1, SwitchStates
  <2>3. PICK i \in 1..9 : s \in {3 * i - 2, 3 * i - 1, 3 * i}
    BY <2>1, <2>2
  <2>4. s # 3 * i - 2 /\ s # 3 * i
    BY <1>1, SwitchStates
  <2> QED BY <2>3, <2>4
<1>3. ~Receives(s) /\ CommandOf(s) = Commands[i]
  BY <1>2, SwitchStates
<1>4. j \in {0, 1} /\ (kind = "pro" => j = 0)
  <2>1. s # 0
    BY <1>2
  <2> QED BY <2>1, StateNumbers DEF SwitchInv, TypeInv, InfoTypes, SwitchInfo
<1>5. Position(h) = SwitchPosition(kind, s, j)
  BY DEF Position, SwitchPads, Xbox
<1>6. /\ Position(h) = 9 * j + i
      /\ Protocol(kind)[9 * j + i] = <<Commands[i], IF j = 0 THEN 1 ELSE 2>>
  <2>1. /\ SwitchPosition(kind, 3 * i - 1, j) = 9 * j + i
        /\ Protocol(kind)[9 * j + i] = <<Commands[i], IF j = 0 THEN 1 ELSE 2>>
    <3> HIDE DEF kind, j
    <3> QED BY <1>1, <1>4, SwitchPlaces
  <2>2. Position(h) = SwitchPosition(kind, 3 * i - 1, j)
    BY <1>2, <1>5
  <2> QED BY <2>1, <2>2
<1>7. transfer.name = Commands[i]
  BY <1>6 DEF CalledInv
<1>8. answer[h].name = "none"
  BY DEF SwitchInv, OwedInv, Awaited
<1> QED BY <1>1, <1>3, <1>7, <1>8, CommandFacts

\* A command has come to the device, which notes it down; a Switch controller
\* owes an answer from now on.
LEMMA CommandAccepted ==
  ASSUME TypeInv, NEW h \in Hubs, Plugged(h), PortInv(h), Ends(h), Commanding(h),
         Accepts(h), hid_info'[h] = hid_info[h], usb_info'[h] = usb_info[h],
         switch_info'[h] = switch_info[h]
  PROVE  PortInv(h)'
<1> DEFINE P == Protocol(device[h])
           n == Position(h)
<1>1. /\ UsedInv(h) /\ CalledInv(h) /\ DriverInv(h) /\ LayoutInv(h)
      /\ hid_info[h].state \in Used /\ usb_info[h].kind = device[h]
      /\ port'[h] = "delay" /\ ~Commanding(h)' /\ ~Reading(h)' /\ ~Asking(h)'
      /\ P \in Seq(Calls) /\ Len(P) \in Nat /\ device[h] \in Kind
  BY BusyPort
<1>2. /\ n - 1 \in 0..Len(P) /\ got[h] = SubSeq(P, 1, n - 1) /\ n <= Len(P)
      /\ <<transfer.name, transfer.ep>> = P[n] /\ n \in Int
  <2>1. n \in Int
    <3>1. usb_info[h].state \in Int /\ switch_info[h].joycon \in Int
      BY DEF TypeInv, InfoTypes, UsbInfo, SwitchInfo
    <3>2. HubPosition(usb_info[h].state) \in Int /\ HoriPosition(hid_info[h].state) \in Int
      BY DEF HubPosition, HoriPosition
    <3>3. SwitchPosition(device[h], usb_info[h].state, switch_info[h].joycon) \in Int
      BY <1>1, <3>1 DEF SwitchPosition
    <3> QED BY <3>1, <3>2, <3>3, StateNumbers DEF Position
  <2> QED BY <1>1, <2>1 DEF CalledInv, Told
<1>3. device' = device /\ got'[h] = Append(got[h], <<transfer.name, transfer.ep>>)
  <2>1. transfer.name # "GET_STATUS" /\ got \in [Hubs -> Seq(Calls)]
    BY DEF Commanding, TypeInv, DeviceTypes
  <2> QED BY <2>1 DEF Accepts
<1>4. got'[h] = SubSeq(P, 1, n) /\ n \in 0..Len(P)
  <2>1. (n - 1) + 1 = n
    BY <1>2
  <2> HIDE DEF n, P
  <2>2. Append(SubSeq(P, 1, n - 1), P[(n - 1) + 1]) = SubSeq(P, 1, (n - 1) + 1)
    BY <1>1, <1>2, <2>1, Follows
  <2>3. Append(got[h], <<transfer.name, transfer.ep>>) = SubSeq(P, 1, n)
    BY <1>2, <2>1, <2>2
  <2>4. n \in 0..Len(P)
    BY <1>1, <1>2
  <2> QED BY <1>3, <2>3, <2>4
<1>5. Position(h)' = n
  BY <1>3 DEF Position
<1>6. CalledInv(h)'
  <2>1. (Told(h, Position(h)))'
    BY <1>3, <1>4, <1>5 DEF Told
  <2> QED BY <1>1, <2>1, AllTold
<1>7. DriverInv(h)'
  <2>1. CASE device[h] \in SwitchPads
    <3> DEFINE s == usb_info[h].state
    <3>1. SwitchInv(h)
      BY <1>1, <2>1 DEF DriverInv
    <3>2. /\ Reads(s) /\ ~Receives(s) /\ transfer.name = CommandOf(s)
          /\ answer[h].name = "none"
      BY <1>1, <2>1, <3>1, SwitchCommanding
    <3>3. answer'[h].name = IF transfer.name # "NO_TIMEOUT" THEN AnswerName(transfer.name)
                            ELSE "none"
      BY <2>1, <3>2 DEF Accepts, TypeInv, DeviceTypes
    <3>4. OwedInv(h)'
      BY <1>1, <3>2, <3>3 DEF OwedInv, Awaited
    <3>5. SwitchInv(h)'
      BY <1>1, <1>3, <3>1, <3>2, <3>4 DEF SwitchInv
    <3>6. hid_info[h].state = "READY"
      BY <1>1, <2>1 DEF DriverInv, SwitchPads
    <3> QED BY <1>1, <1>3, <2>1, <3>5, <3>6, SwitchDriver
  <2>2. CASE device[h] \notin SwitchPads
    <3>1. answer' = answer
      BY <2>2 DEF Accepts
    <3>2. device[h] = "ps3" => Ps3Inv(h)'
      BY <1>1 DEF DriverInv, Ps3Inv
    <3>3. device[h] \in Xbox => XboxInv(h)'
      BY <1>1, <1>3 DEF DriverInv, XboxInv
    <3>4. device[h] = "hub" => HubInv(h)'
      BY <1>1, StateNumbers DEF DriverInv, HubInv
    <3>5. device[h] = "gun" => GunInv(h)'
      BY <1>1 DEF DriverInv, GunInv
    <3> QED BY <1>1, <1>3, <2>2, <3>1, <3>2, <3>3, <3>4, <3>5 DEF DriverInv
  <2> QED BY <2>1, <2>2
<1> QED BY <1>1, <1>3, <1>6, <1>7, StillUsed


\* A device that has no state to leave on a report: nothing changes but the host.
LEMMA NothingTold ==
  ASSUME TypeInv, NEW h \in Hubs, Plugged(h), PortInv(h), Ends(h), ~Commanding(h),
         device[h] \notin SwitchPads, device[h] # "hub",
         hid_info'[h] = hid_info[h], usb_info'[h] = usb_info[h],
         device'[h] = device[h], got'[h] = got[h], answer'[h] = answer[h]
  PROVE  PortInv(h)'
<1>1. /\ UsedInv(h) /\ CalledInv(h) /\ DriverInv(h) /\ LayoutInv(h)
      /\ hid_info[h].state \in Used /\ usb_info[h].kind = device[h]
      /\ port'[h] = "delay" /\ ~Commanding(h)' /\ ~Reading(h)' /\ ~Asking(h)'
  BY BusyPort
<1>2. Position(h)' = Position(h)
  BY DEF Position
<1>3. Told(h, Position(h))
  BY <1>1 DEF CalledInv
<1>4. CalledInv(h)'
  BY <1>1, <1>2, <1>3, NothingIssued
<1>5. DriverInv(h)'
  <2>1. device[h] = "ps3" => Ps3Inv(h)'
    BY <1>1 DEF DriverInv, Ps3Inv
  <2>2. device[h] \in Xbox => XboxInv(h)'
    BY <1>1 DEF DriverInv, XboxInv
  <2>3. device[h] = "gun" => GunInv(h)'
    BY <1>1 DEF DriverInv, GunInv
  <2> QED BY <1>1, <2>1, <2>2, <2>3 DEF DriverInv
<1> QED BY <1>1, <1>4, <1>5, StillUsed

\* A command that is a control read changes no driver's state: the devices that
\* have such commands have drivers that do not look at the data.
LEMMA ControlCommand ==
  ASSUME TypeInv, NEW h \in Hubs, Plugged(h), PortInv(h), Ends(h),
         transfer.name \in ControlReads \ {"GET_STATUS"}, NEW packet,
         hid_report(h, packet)
  PROVE  /\ Commanding(h) /\ UNCHANGED <<hid_info, usb_info, switch_info>>
         /\ device[h] \notin SwitchPads \union Xbox \union {"hub", "gun"}
<1>1. /\ UsedInv(h) /\ CalledInv(h) /\ DriverInv(h) /\ RightType(h) /\ port[h] = "busy"
  BY BusyPort
<1>2. Commanding(h)
  BY <1>1 DEF Commanding, ControlReads
<1>3. device[h] \notin SwitchPads
  <2>1. device[h] \in SwitchPads => transfer.name \in SwitchCommands
    BY <1>1, <1>2, SwitchCommanding DEF DriverInv
  <2> QED BY <2>1, CommandFacts
<1>4. device[h] \notin Xbox \union {"hub", "gun"}
  <2>1. /\ Position(h) - 1 \in 0..Len(Protocol(device[h]))
        /\ Position(h) <= Len(Protocol(device[h]))
        /\ <<transfer.name, transfer.ep>> = Protocol(device[h])[Position(h)]
    BY <1>1, <1>2 DEF CalledInv, Told
  <2>2. CASE device[h] = "hub"
    <3>1. HubInv(h) /\ usb_info[h].state \in {4, 6}
      BY <1>1, <1>2, <2>2, StateNumbers DEF DriverInv, HubInv
    <3>2. Position(h) \in {1, 2}
      BY <2>2, <3>1, StateNumbers DEF Position, HubPosition, SwitchPads, Xbox
    <3> QED BY <2>1, <2>2, <3>2, OtherProtocols DEF ControlReads
  <2>3. CASE device[h] = "gun"
    <3>1. GunInv(h) /\ usb_info[h].state \in {8, 9}
      BY <1>1, <2>3, StateNumbers DEF DriverInv, GunInv
    <3>2. Position(h) \in {0, 1}
      BY <2>3, <3>1, StateNumbers DEF Position, SwitchPads, Xbox
    <3>3. Position(h) = 1
      BY <2>1, <2>3, <3>2, OtherProtocols
    <3> QED BY <2>1, <2>3, <3>3, OtherProtocols DEF ControlReads
  <2>4. CASE device[h] \in Xbox
    <3>1. /\ Position(h) = usb_info[h].state
          /\ usb_info[h].state \in 0..(IF device[h] = "xboxone" THEN 2 ELSE 1)
      BY <1>1, <2>4, StateNumbers DEF DriverInv, XboxInv, Position, SwitchPads, Xbox
    <3>2. Position(h) \in 1..(IF device[h] = "xboxone" THEN 2 ELSE 1)
      BY <2>1, <3>1
    <3> QED BY <2>1, <2>4, <3>2, OtherProtocols DEF ControlReads, Xbox
  <2> QED BY <2>2, <2>3, <2>4
<1>5. hid_info[h].type \notin {"SWITCH", "ZAPPER"}
  BY <1>1, <1>3, <1>4, DriverOf
<1> QED BY <1>2, <1>3, <1>4, <1>5 DEF hid_report

\* The hub has said how its port is.
LEMMA HubAnswered ==
  ASSUME TypeInv, NEW h \in Hubs, Plugged(h), PortInv(h), Ends(h),
         transfer.name = "GET_STATUS", Accepts(h), NEW packet, hid_report(h, packet)
  PROVE  PortInv(h)'
<1>1. /\ CalledInv(h) /\ DriverInv(h) /\ LayoutInv(h) /\ RightType(h)
      /\ hid_info[h].state \in Used /\ usb_info[h].kind = device[h]
      /\ port[h] = "busy" /\ port'[h] = "delay"
      /\ ~Commanding(h)' /\ ~Reading(h)' /\ ~Asking(h)'
  BY BusyPort
<1>2. Asking(h) /\ ~Commanding(h) /\ device[h] = "hub"
  BY <1>1 DEF Asking, Commanding, DriverInv
<1>3. device[h] \notin SwitchPads \union Xbox \union {"ps3", "gun"}
  BY <1>2 DEF SwitchPads, Xbox
<1>4. usb_info[h].state \in {2, 4} /\ HubInv(h)
  BY <1>1, <1>2, StateNumbers DEF DriverInv, HubInv
<1>5. device' = device /\ got' = got /\ answer' = answer /\ hid_info' = hid_info
  BY <1>3 DEF Accepts, hid_report
<1>6. /\ usb_info'[h].kind = usb_info[h].kind /\ usb_info'[h].ep_in = usb_info[h].ep_in
      /\ IF usb_info[h].state = 2 THEN usb_info'[h].state = 3
         ELSE usb_info'[h].state \in {4, 5}
  <2>1. hid_guncon3_report(h, packet)
    BY <1>1, <1>2, DriverOf DEF hid_report
  <2>2. usb_info \in [Hubs -> UsbInfo] /\ usb_info[h] \in UsbInfo
    BY DEF TypeInv, InfoTypes
  <2> DEFINE to == IF usb_info[h].state = 2 THEN 3
                   ELSE IF packet.name = "RESET_DONE" THEN 5 ELSE 4
  <2>3. usb_info' = [usb_info EXCEPT ![h].state = to]
    BY <1>4, <2>1, StateNumbers DEF hid_guncon3_report
  <2>4. IF usb_info[h].state = 2 THEN to = 3 ELSE to \in {4, 5}
    OBVIOUS
  <2> HIDE DEF to
  <2> QED BY <2>2, <2>3, <2>4 DEF UsbInfo
<1>7. Position(h)' = Position(h)
  BY <1>3, <1>4, <1>5, <1>6, StateNumbers DEF Position, HubPosition
<1>8. Told(h, Position(h))
  BY <1>1, <1>2 DEF CalledInv
<1>9. CalledInv(h)'
  BY <1>1, <1>5, <1>7, <1>8, NothingIssued
<1>10. HubInv(h)'
  BY <1>1, <1>4, <1>6, StateNumbers DEF HubInv
<1>11. DriverInv(h)'
  BY <1>1, <1>3, <1>5, <1>10 DEF DriverInv
<1> QED BY <1>1, <1>5, <1>6, <1>9, <1>11, StillUsed

\* The end of a command, with or without data.
LEMMA ControlPort ==
  ASSUME TypeInv, NEW h \in Hubs, Plugged(h), PortInv(h),
         OutEnds(h) \/ ControlReadEnds(h)
  PROVE  PortInv(h)'
<1>1. CASE OutEnds(h)
  <2>1. Ends(h) /\ Accepts(h) /\ UNCHANGED infoVars
    BY <1>1 DEF OutEnds
  <2>2. Commanding(h)
    BY <1>1 DEF OutEnds, Ends, Commanding, ControlReads
  <2> QED BY <2>1, <2>2, CommandAccepted DEF infoVars
<1>2. CASE ControlReadEnds(h)
  <2>1. Ends(h) /\ Accepts(h) /\ transfer.name \in ControlReads
    BY <1>2 DEF ControlReadEnds
  <2>2. PICK packet : hid_report(h, packet)
    BY <1>2 DEF ControlReadEnds
  <2>3. CASE transfer.name = "GET_STATUS"
    BY <2>1, <2>2, <2>3, HubAnswered
  <2>4. CASE transfer.name # "GET_STATUS"
    <3>1. Commanding(h) /\ UNCHANGED <<hid_info, usb_info, switch_info>>
      BY <2>1, <2>2, <2>4, ControlCommand
    <3> QED BY <2>1, <3>1, CommandAccepted
  <2> QED BY <2>3, <2>4
<1> QED BY <1>1, <1>2


\* A packet of a Switch controller: its owed answer, after which the next
\* command is due or the other half of a grip; anything else, after which the
\* driver reads again; or a report, once all the commands have been answered.
LEMMA SwitchRead ==
  ASSUME TypeInv, NEW h \in Hubs, Plugged(h), PortInv(h), Ends(h), Reading(h),
         device[h] \in SwitchPads, NEW packet, hid_switch_report(h, packet),
         hid_info' = hid_info, device' = device, got' = got,
         IF packet.what = "answer"
         THEN /\ answer[h].name # "none" /\ packet.name = answer[h].name
              /\ answer'[h].name = "none"
         ELSE answer'[h].name = answer[h].name
  PROVE  PortInv(h)'
<1> DEFINE s == usb_info[h].state
           j == switch_info[h].joycon
           kind == device[h]
           after == usb_info'[h].state
           half == switch_info'[h].joycon
           second == /\ switch_next(h, packet) = INITIALIZED /\ s # INITIALIZED
                     /\ usb_info[h].kind = "grip" /\ j = 0
           left == s = INITIALIZED /\ packet.what = "report" /\ j # 0
<1>1. /\ CalledInv(h) /\ DriverInv(h) /\ LayoutInv(h)
      /\ hid_info[h].state \in Used /\ usb_info[h].kind = kind
      /\ port[h] = "busy" /\ port'[h] = "delay"
      /\ ~Commanding(h)' /\ ~Reading(h)' /\ ~Asking(h)'
  BY BusyPort
<1>2. SwitchInv(h) /\ hid_info[h].state = "READY" /\ ~Commanding(h)
  BY <1>1 DEF DriverInv, SwitchPads, Reading, Commanding
<1>3. s \in 0..28 /\ (Receives(s) \/ s = 28) /\ j \in {0, 1}
  BY <1>2, StateNumbers DEF SwitchInv, TypeInv, InfoTypes, SwitchInfo
<1>4. kind = "pro" => j = 0 /\ switch_info[h].left = "zero"
  BY <1>2, <1>3, SwitchStates, StateNumbers DEF SwitchInv
<1>5. switch_info[h].left \in {"zero", "now"}
  BY <1>2, <1>3, SwitchStates, StateNumbers DEF SwitchInv
<1>6. /\ after = (IF second THEN REQUEST_MAC ELSE switch_next(h, packet))
      /\ usb_info'[h].kind = kind /\ usb_info'[h].ep_in = usb_info[h].ep_in
      /\ half = (IF second THEN j + 1 ELSE j)
      /\ switch_info'[h].left = (IF left THEN "now" ELSE switch_info[h].left)
  <2> DEFINE to == IF second THEN REQUEST_MAC ELSE switch_next(h, packet)
             other == IF second THEN j + 1 ELSE j
             what == IF left THEN "now" ELSE switch_info[h].left
  <2>1. /\ usb_info' = [usb_info EXCEPT ![h].state = to]
        /\ switch_info' = [switch_info EXCEPT ![h].joycon = other, ![h].left = what]
    BY DEF hid_switch_report
  <2>2. /\ usb_info \in [Hubs -> UsbInfo] /\ usb_info[h] \in UsbInfo
        /\ switch_info \in [Hubs -> SwitchInfo] /\ switch_info[h] \in SwitchInfo
    BY DEF TypeInv, InfoTypes
  <2> HIDE DEF to, other, what
  <2>3. /\ usb_info'[h].state = to /\ usb_info'[h].kind = usb_info[h].kind
        /\ usb_info'[h].ep_in = usb_info[h].ep_in
    BY <2>1, <2>2 DEF UsbInfo
  <2>4. switch_info'[h].joycon = other /\ switch_info'[h].left = what
    BY <2>1, <2>2 DEF SwitchInfo
  <2> QED BY <1>1, <2>3, <2>4 DEF to, other, what
<1>7. Told(h, Position(h)) /\ Position(h) = SwitchPosition(kind, s, j)
  BY <1>1, <1>2 DEF CalledInv, Position, SwitchPads, Xbox
<1>8. ASSUME after \in 0..28, ~Receives(after),
             SwitchPosition(kind, after, half) = SwitchPosition(kind, s, j),
             kind = "pro" => half = 0 /\ switch_info'[h].left = "zero",
             switch_info'[h].left \in {"zero", "now"},
             answer'[h].name = IF Reads(after) /\ CommandOf(after) # "NO_TIMEOUT"
                               THEN AnswerName(CommandOf(after)) ELSE "none"
      PROVE  PortInv(h)'
  <2>1. Position(h)' = Position(h)
    BY <1>7, <1>8 DEF Position, SwitchPads, Xbox
  <2>2. CalledInv(h)'
    BY <1>1, <1>7, <2>1, NothingIssued
  <2>3. OwedInv(h)'
    BY <1>1, <1>8 DEF OwedInv, Awaited
  <2>4. SwitchInv(h)'
    BY <1>1, <1>8, <2>3, StateNumbers DEF SwitchInv
  <2>5. DriverInv(h)'
    BY <1>1, <1>2, <2>4, SwitchDriver
  <2> QED BY <1>1, <1>2, <1>6, <2>2, <2>5, StillUsed DEF Used
<1>9. CASE s = 28
  <2>1. ~Receives(s) /\ ~Reads(s)
    BY <1>9, SwitchStates
  <2>2. switch_next(h, packet) = 28
    BY <1>9, <2>1, StateNumbers DEF switch_next
  <2>3. after = 28 /\ half = j
    BY <1>6, <1>9, <2>2, StateNumbers
  <2>4. answer[h].name = "none" /\ answer'[h].name = "none"
    BY <1>2, <2>1 DEF SwitchInv, OwedInv, Awaited
  <2>5. /\ kind = "pro" => switch_info'[h].left = "zero"
        /\ switch_info'[h].left \in {"zero", "now"}
    BY <1>4, <1>5, <1>6
  <2> QED BY <1>4, <1>8, <1>9, <2>1, <2>3, <2>4, <2>5
<1>10. CASE s # 28
  <2>1. PICK i \in 1..9 : s = 3 * i
    <3>1. s \notin {0, 28}
      BY <1>3, <1>10, SwitchStates
    <3>2. PICK i \in 1..9 : s \in {3 * i - 2, 3 * i - 1, 3 * i}
      BY <1>3, <3>1, SwitchStates
    <3>3. s # 3 * i - 2 /\ s # 3 * i - 1
      BY <1>3, <1>10, SwitchStates
    <3> QED BY <3>2, <3>3
  <2>2. /\ Receives(s) /\ CommandOf(s) = Commands[i] /\ s # INITIALIZED
        /\ Commands[i] \in SwitchCommands
    BY <1>10, <2>1, SwitchStates, CommandFacts, StateNumbers
  <2>3. answer[h].name = IF Commands[i] # "NO_TIMEOUT" THEN AnswerName(Commands[i])
                         ELSE "none"
    BY <1>2, <2>2 DEF SwitchInv, OwedInv, Awaited
  <2>4. switch_info'[h].left = switch_info[h].left
    BY <1>6, <2>2
  <2>5. /\ SwitchPosition(kind, s, j) = 9 * j + i
        /\ SwitchPosition(kind, 3 * i - 1, j) = 9 * j + i
    <3>1. kind \in SwitchPads /\ (kind = "pro" => j = 0)
      BY <1>4
    <3>2. /\ SwitchPosition(kind, 3 * i, j) = 9 * j + i
          /\ SwitchPosition(kind, 3 * i - 1, j) = 9 * j + i
      <4> HIDE DEF kind, j
      <4> QED BY <1>3, <3>1, SwitchPlaces
    <3> QED BY <2>1, <3>2
  <2>6. switch_next(h, packet) =
          IF packet # Nothing /\ Answers(s, packet) THEN s + 1 ELSE s - 1
    BY <2>2 DEF switch_next
  <2>7. CASE ~(packet # Nothing /\ Answers(s, packet))
    <3>1. after = 3 * i - 1 /\ half = j
      BY <1>6, <2>1, <2>6, <2>7, StateNumbers
    <3>2. packet.what # "answer"
      BY <2>2, <2>3, <2>7 DEF Answers, Nothing
    <3>3. answer'[h].name = answer[h].name
      BY <3>2
    <3>4. /\ Reads(3 * i - 1) /\ ~Receives(3 * i - 1)
          /\ CommandOf(3 * i - 1) = Commands[i] /\ 3 * i - 1 \in 0..28
      BY SwitchStates
    <3>5. answer'[h].name = IF Reads(after) /\ CommandOf(after) # "NO_TIMEOUT"
                            THEN AnswerName(CommandOf(after)) ELSE "none"
      BY <2>3, <3>1, <3>3, <3>4
    <3>6. SwitchPosition(kind, after, half) = SwitchPosition(kind, s, j)
      BY <2>5, <3>1
    <3> QED BY <1>4, <1>5, <1>8, <2>4, <3>1, <3>4, <3>5, <3>6
  <2>8. CASE packet # Nothing /\ Answers(s, packet)
    <3>1. switch_next(h, packet) = 3 * i + 1
      BY <2>1, <2>6, <2>8
    <3>2. answer'[h].name = "none"
      BY <2>2, <2>3, <2>8 DEF Answers
    <3>3. CASE i # 9
      <4>1. 3 * i + 1 # 28 /\ 3 * i + 1 = 3 * (i + 1) - 2 /\ i + 1 \in 1..9
        BY <3>3
      <4>2. after = 3 * (i + 1) - 2 /\ half = j
        BY <1>6, <3>1, <4>1, StateNumbers
      <4>3. ~Reads(3 * (i + 1) - 2) /\ ~Receives(3 * (i + 1) - 2)
        BY <4>1, SwitchStates
      <4>4. SwitchPosition(kind, 3 * (i + 1) - 2, j) = 9 * j + (i + 1) - 1
        <5>1. kind \in SwitchPads /\ (kind = "pro" => j = 0)
          BY <1>4
        <5> HIDE DEF kind, j
        <5> QED BY <1>3, <4>1, <5>1, SwitchPlaces
      <4>5. SwitchPosition(kind, after, half) = SwitchPosition(kind, s, j)
        BY <1>3, <2>5, <4>2, <4>4
      <4>6. after \in 0..28
        BY <4>1, <4>2
      <4> QED BY <1>4, <1>5, <1>8, <2>4, <3>2, <4>2, <4>3, <4>5, <4>6
    <3>4. CASE i = 9 /\ kind = "grip" /\ j = 0
      <4>1. after = 1 /\ half = 1
        BY <1>1, <1>6, <2>2, <3>1, <3>4, StateNumbers
      <4>2. ~Reads(1) /\ ~Receives(1)
        BY StateNumbers DEF Reads, Receives
      <4>3. SwitchPosition(kind, 1, 1) = 9
        BY StateNumbers DEF SwitchPosition
      <4>4. SwitchPosition(kind, after, half) = SwitchPosition(kind, s, j)
        BY <2>5, <3>4, <4>1, <4>3
      <4> QED BY <1>4, <1>5, <1>8, <2>4, <3>2, <3>4, <4>1, <4>2, <4>4
    <3>5. CASE i = 9 /\ ~(kind = "grip" /\ j = 0)
      <4>1. after = 28 /\ half = j
        BY <1>1, <1>6, <3>1, <3>5, StateNumbers
      <4>2. ~Reads(28) /\ ~Receives(28)
        BY SwitchStates
      <4>3. SwitchPosition(kind, 28, j) = Len(Protocol(kind))
        BY StateNumbers DEF SwitchPosition
      <4>4. Len(Protocol(kind)) = 9 * j + 9
        <5>1. CASE kind = "pro"
          <6>1. 9 * j + 9 = 9
            BY <1>4, <5>1
          <6> QED BY <5>1, <6>1, SwitchProtocol
        <5>2. CASE kind = "grip"
          <6>1. 9 * j + 9 = 18
            BY <1>3, <3>5, <5>2
          <6> QED BY <5>2, <6>1, SwitchProtocol
        <5> QED BY <5>1, <5>2 DEF SwitchPads
      <4>5. SwitchPosition(kind, after, half) = SwitchPosition(kind, s, j)
        <5>1. SwitchPosition(kind, after, half) = SwitchPosition(kind, 28, j)
          BY <4>1
        <5>2. SwitchPosition(kind, s, j) = 9 * j + 9
          BY <2>5, <3>5
        <5> HIDE DEF kind, s, j, after, half
        <5> QED BY <4>3, <4>4, <5>1, <5>2
      <4> QED BY <1>4, <1>5, <1>8, <2>4, <3>2, <4>1, <4>2, <4>5
    <3> QED BY <3>3, <3>4, <3>5
  <2> QED BY <2>7, <2>8
<1> QED BY <1>9, <1>10


\* The end of a read of a device that is no Switch controller.
LEMMA OtherRead ==
  ASSUME TypeInv, NEW h \in Hubs, Plugged(h), PortInv(h), Ends(h), Reading(h),
         device[h] \notin SwitchPads, NEW packet, hid_report(h, packet),
         device' = device, got' = got, answer' = answer
  PROVE  PortInv(h)'
<1>1. /\ DriverInv(h) /\ RightType(h) /\ ~Commanding(h) /\ ~Asking(h)
  BY BusyPort DEF Reading, Commanding, Asking
<1>2. device[h] # "hub"
  BY <1>1 DEF DriverInv, HubInv
<1>3. usb_info'[h] = usb_info[h]
  <2>1. CASE device[h] = "gun"
    <3>1. usb_info[h].state = 9
      BY <1>1, <2>1, StateNumbers DEF DriverInv, GunInv
    <3>2. hid_guncon3_report(h, packet)
      BY <1>1, <2>1, DriverOf DEF hid_report, SwitchPads
    <3>3. usb_info \in [Hubs -> UsbInfo] /\ usb_info[h] \in UsbInfo
      BY DEF TypeInv, InfoTypes
    <3>4. usb_info' = [usb_info EXCEPT ![h].state = 9]
      BY <3>1, <3>2, StateNumbers DEF hid_guncon3_report
    <3> QED BY <3>1, <3>3, <3>4 DEF UsbInfo
  <2>2. CASE device[h] # "gun"
    <3>1. hid_info[h].type \notin {"SWITCH", "ZAPPER"}
      BY <1>1, <1>2, <2>2, DriverOf
    <3> QED BY <3>1 DEF hid_report
  <2> QED BY <2>1, <2>2
<1>4. hid_info' = hid_info
  BY DEF hid_report
<1> QED BY <1>1, <1>2, <1>3, <1>4, NothingTold

\* The end of a read.
LEMMA InPort ==
  ASSUME TypeInv, NEW h \in Hubs, Plugged(h), PortInv(h),
         InNaks(h) \/ InReports(h) \/ InOther(h) \/ InAnswers(h)
  PROVE  PortInv(h)'
<1>1. Ends(h) /\ Reading(h)
  BY DEF InNaks, InReports, InOther, InAnswers, InEnds, Ends, Reading
<1>2. DriverInv(h) /\ RightType(h)
  BY <1>1, BusyPort
<1>3. PICK packet :
        /\ hid_report(h, packet) /\ device' = device /\ got' = got
        /\ \/ packet.what # "answer" /\ answer' = answer
           \/ /\ packet.what = "answer" /\ answer[h].name # "none"
              /\ packet.name = answer[h].name
              /\ answer' = [answer EXCEPT ![h] = [name |-> "none", ep |-> 0]]
  BY DEF InNaks, InReports, InOther, InAnswers, Nothing, Report, Other, Answer, deviceVars
<1>4. answer \in [Hubs -> RequestSet] /\ hid_info' = hid_info
  BY <1>3 DEF TypeInv, DeviceTypes, hid_report
<1>5. CASE device[h] \in SwitchPads
  <2>1. hid_switch_report(h, packet)
    BY <1>2, <1>3, <1>5, DriverOf DEF hid_report
  <2>2. IF packet.what = "answer"
        THEN /\ answer[h].name # "none" /\ packet.name = answer[h].name
             /\ answer'[h].name = "none"
        ELSE answer'[h].name = answer[h].name
    BY <1>3, <1>4
  <2> QED BY <1>1, <1>3, <1>4, <1>5, <2>1, <2>2, SwitchRead
<1>6. CASE device[h] \notin SwitchPads
  <2>1. answer[h].name = "none"
    BY <1>2, <1>6 DEF DriverInv
  <2> QED BY <1>1, <1>3, <1>6, <2>1, OtherRead
<1> QED BY <1>5, <1>6

\* A port that is ready again after a while.
LEMMA DelayPort ==
  ASSUME TypeInv, NEW h \in Hubs, Plugged(h), PortInv(h), state_delay(h)
  PROVE  PortInv(h)'
<1>1. /\ port[h] = "delay" /\ port'[h] = "ready" /\ hid_info' = hid_info
      /\ usb_info' = usb_info /\ switch_info' = switch_info /\ device' = device
      /\ got' = got /\ answer' = answer
  BY DEF state_delay, Goto, TypeInv, HostTypes, infoVars, deviceVars
<1>2. /\ ~Commanding(h) /\ ~Reading(h) /\ ~Asking(h)
      /\ ~Commanding(h)' /\ ~Reading(h)' /\ ~Asking(h)'
  BY <1>1 DEF Commanding, Reading, Asking
<1>3. CASE hid_info[h].state \in Used
  <2>1. UsedInv(h)
    BY <1>1, <1>3 DEF PortInv, Enumerated
  <2>2. Position(h)' = Position(h) /\ Told(h, Position(h))
    BY <1>1, <1>2, <2>1 DEF Position, UsedInv, CalledInv
  <2>3. CalledInv(h)'
    BY <1>1, <1>2, <2>2, NothingIssued
  <2>4. DriverInv(h)'
    <3>1. DriverInv(h)
      BY <2>1 DEF UsedInv
    <3>2. device[h] \in SwitchPads => SwitchInv(h)'
      BY <1>1, <1>2, <3>1 DEF DriverInv, SwitchInv, OwedInv, Awaited
    <3>3. device[h] = "ps3" => Ps3Inv(h)'
      BY <1>1, <1>2, <3>1 DEF DriverInv, Ps3Inv
    <3>4. device[h] \in Xbox => XboxInv(h)'
      BY <1>1, <1>2, <3>1 DEF DriverInv, XboxInv
    <3>5. device[h] = "hub" => HubInv(h)'
      BY <1>1, <1>2, <3>1 DEF DriverInv, HubInv
    <3>6. device[h] = "gun" => GunInv(h)'
      BY <1>1, <1>2, <3>1 DEF DriverInv, GunInv
    <3> QED BY <1>1, <1>2, <3>1, <3>2, <3>3, <3>4, <3>5, <3>6 DEF DriverInv
  <2> QED BY <1>1, <1>3, <2>1, <2>3, <2>4, StillUsed DEF UsedInv
<1>4. CASE hid_info[h].state \notin Used
  <2>1. Silent(h)'
    BY <1>1, <1>4 DEF PortInv, Enumerated, Silent
  <2> QED BY <1>1, <1>4, <2>1, UnusedPort
<1> QED BY <1>3, <1>4

\* The steps of the host and of the devices keep the invariant of their port.
LEMMA HostPort ==
  ASSUME TypeInv, NEW h \in Hubs, Plugged(h), PortInv(h),
         state_set_address(h) \/ HostStep(h)
  PROVE  PortInv(h)'
<1>1. CASE state_set_address(h)
  <2>1. /\ port'[h] = "device" /\ got' = got /\ answer' = answer
        /\ port[h] \in {"empty", "address"}
    BY <1>1 DEF state_set_address, TypeInv, HostTypes, deviceVars
  <2>2. Silent(h)'
    BY <2>1 DEF PortInv, NewInv, Silent
  <2> QED BY <2>1, <2>2
          DEF PortInv, NewInv, FirstInv, ConfigurationInv, ReportInv, Enumerated
<1>2. CASE WaitEnds(h)
  <2>1. SameAt(h)
    BY <1>2 DEF WaitEnds, SameAt, hostVars, deviceVars
  <2> QED BY <2>1, SamePort
<1>3. ~Disconnect(h)
  BY DEF Disconnect
<1> QED BY <1>1, <1>2, <1>3, EnumeratePort, DelayPort, ControlPort, InPort DEF HostStep

\* A new device has been told nothing.
LEMMA PlugPort ==
  ASSUME TypeInv, NEW h \in Hubs, Plug(h)
  PROVE  PortInv(h)'
<1>1. /\ port'[h] = "empty" /\ got'[h] = <<>> /\ answer'[h].name = "none"
  BY DEF Plug, hostVars, TypeInv, HostTypes, DeviceTypes
<1>2. Silent(h)'
  BY <1>1 DEF Silent
<1> QED BY <1>1, <1>2
        DEF PortInv, NewInv, FirstInv, ConfigurationInv, ReportInv, Enumerated

\* Only Plug plugs a device in.
LEMMA StillPlugged ==
  ASSUME TypeInv, NEW h \in Hubs, Plugged(h)',
         hid_poll(h) \/ state_set_address(h) \/ HostStep(h)
  PROVE  Plugged(h)
<1>1. CASE device' = device
  BY <1>1 DEF Plugged
<1>2. CASE hub_switch(h)
  BY <1>2 DEF hub_switch, Plugged, TypeInv, DeviceTypes
<1>3. hid_poll(h) /\ ~hub_switch(h) => device' = device
  <2>1. ASSUME NEW s, NEW requests, drive(h, s, requests) PROVE device' = device
    BY <2>1 DEF drive, deviceVars
  <2>2. ASSUME NEW from, NEW to, NEW requests, Step(h, from, to, requests)
        PROVE  device' = device
    BY <2>1, <2>2 DEF Step
  <2>3. poll_query(h) => device' = device
    BY DEF poll_query, deviceVars
  <2>4. hid_switch_poll(h) => device' = device
    BY <2>1 DEF hid_switch_poll
  <2>5. hid_dualshock3_poll(h) \/ hid_xbox_360_poll(h) \/ hid_xbox_one_poll(h)
          \/ default_poll(h) \/ (hid_guncon3_poll(h) /\ ~hub_switch(h))
        => device' = device
    BY <2>2 DEF hid_dualshock3_poll, hid_xbox_360_poll, hid_xbox_one_poll,
                default_poll, hid_guncon3_poll
  <2> QED BY <2>3, <2>4, <2>5 DEF hid_poll, poll_ready, deviceVars
<1>4. state_set_address(h) \/ HostStep(h) => device' = device
  BY DEF state_set_address, HostStep, Enumerates, state_delay, OutEnds, ControlReadEnds,
         Accepts, InNaks, InReports, InOther, InAnswers, WaitEnds, Disconnect, deviceVars
<1> QED BY <1>1, <1>2, <1>3, <1>4

\* Every step keeps what the invariant says of each port.
LEMMA PortsStep ==
  ASSUME TypeInv, OwnerInv, PortsInv, [Next]_vars
  PROVE  OwnerInv' /\ PortsInv'
<1>1. CASE UNCHANGED vars
  <2>1. OwnerInv'
    BY <1>1 DEF vars, hostVars, OwnerInv
  <2>2. \A g \in Hubs : SameAt(g)
    BY <1>1 DEF vars, infoVars, hostVars, deviceVars, SameAt
  <2> QED BY <2>1, <2>2, SamePort DEF PortsInv, Plugged, SameAt
<1>2. ASSUME NEW h \in Hubs, \A g \in Hubs \ {h} : SameAt(g),
             Plugged(h)' => PortInv(h)'
      PROVE  PortsInv'
  <2>1. ASSUME NEW g \in Hubs, Plugged(g)' PROVE PortInv(g)'
    <3>1. CASE g = h
      BY <1>2, <2>1, <3>1
    <3>2. CASE g # h
      <4>1. SameAt(g)
        BY <1>2, <3>2
      <4>2. Plugged(g)
        BY <2>1, <4>1 DEF SameAt, Plugged
      <4> QED BY <4>1, <4>2, SamePort DEF PortsInv
    <3> QED BY <3>1, <3>2
  <2> QED BY <2>1 DEF PortsInv
<1>3. ASSUME NEW h \in Hubs, hid_poll(h) PROVE OwnerInv' /\ PortsInv'
  <2>1. Plugged(h)' => PortInv(h)'
    BY <1>3, StillPlugged, PollPort DEF PortsInv
  <2> QED BY <1>2, <1>3, <2>1, PollElsewhere
<1>4. ASSUME NEW h \in Hubs, state_set_address(h) \/ HostStep(h)
      PROVE  OwnerInv' /\ PortsInv'
  <2>1. Plugged(h)' => PortInv(h)'
    BY <1>4, StillPlugged, HostPort DEF PortsInv
  <2> QED BY <1>2, <1>4, <2>1, HostElsewhere
<1>5. ASSUME NEW h \in Hubs, Plug(h) \/ Unplug(h) PROVE OwnerInv' /\ PortsInv'
  <2>1. Unplug(h) => ~Plugged(h)'
    BY DEF Unplug, Plugged, TypeInv, DeviceTypes
  <2>2. Plugged(h)' => PortInv(h)'
    BY <1>5, <2>1, PlugPort
  <2> QED BY <1>2, <1>5, <2>2, HostElsewhere
<1> QED BY <1>1, <1>3, <1>4, <1>5 DEF Next


-----------------------------------------------------------------------------
(* The theorems                                                             *)

\* Nothing is plugged in at first.
LEMMA InitHid == Init => HidInv
<1> SUFFICES ASSUME Init PROVE HidInv
  OBVIOUS
<1>1. InfoTypes
  <2>1. /\ hid_info \in [Hubs -> Info] /\ usb_info \in [Hubs -> UsbInfo]
    BY DEF Init, Info, InfoStates, Types, Sources, FoundSet, UsbInfo, Attached
  <2>2. switch_info \in [Hubs -> SwitchInfo] /\ given \in [Hubs -> Given]
    BY DEF Init, SwitchInfo, Given, Lefts, Whats
  <2> QED BY <2>1, <2>2 DEF Init, InfoTypes
<1>2. HostTypes
  BY DEF Init, HostTypes, PortStates, RequestSet, Names, Hubs
<1>3. DeviceTypes
  <2>1. answer \in [Hubs -> RequestSet]
    BY DEF Init, RequestSet, Names
  <2> QED BY <2>1 DEF Init, DeviceTypes, Attached, LayoutSet
<1>4. OwnerInv
  BY DEF Init, OwnerInv, Locked, NoHub, Hubs
<1>5. PortsInv
  BY DEF Init, PortsInv, Plugged
<1> QED BY <1>1, <1>2, <1>3, <1>4, <1>5 DEF HidInv, TypeInv

\* The invariant is inductive.
LEMMA HidStep == HidInv /\ [Next]_vars => HidInv'
BY TypeStep, PortsStep DEF HidInv

\* The invariant: what the driver, the host and the device of each port know of
\* each other.
THEOREM HidInvariant == Spec => []HidInv
BY InitHid, HidStep, PTL DEF Spec

\* A port that is in use.
LEMMA UsedPort ==
  ASSUME HidInv, NEW h \in Hubs, InUse(h)
  PROVE  /\ UsedInv(h) /\ CalledInv(h) /\ DriverInv(h) /\ LayoutInv(h) /\ RightType(h)
         /\ device[h] \in Kind
<1>1. PortInv(h) /\ device[h] \in Kind
  BY DEF HidInv, PortsInv, InUse, Plugged, TypeInv, DeviceTypes, Attached
<1>2. UsedInv(h)
  BY <1>1 DEF PortInv, InUse, Enumerated, Used
<1> QED BY <1>1, <1>2 DEF UsedInv, LayoutInv

\* A port in use has the driver and the layout of the device that is plugged in,
\* whatever was plugged in before.
THEOREM LayoutsAreRight == Spec => []LayoutIsDevices
<1>1. HidInv => LayoutIsDevices
  BY UsedPort DEF LayoutIsDevices, LayoutInv
<1> QED BY <1>1, HidInvariant, PTL

\* Every device has been told a prefix of what its driver has to tell it, and a
\* Switch controller is told nothing while it owes an answer.
THEOREM CommandsInOrder == Spec => []ProtocolFollowed
<1>1. ASSUME HidInv, NEW h \in Hubs, Plugged(h)
      PROVE  IsPrefix(got[h], Protocol(device[h]))
  <2> DEFINE P == Protocol(device[h])
  <2>1. PortInv(h) /\ device[h] \in Kind /\ port[h] \in PortStates
    BY <1>1 DEF HidInv, PortsInv, Plugged, TypeInv, HostTypes, DeviceTypes, Attached
  <2>2. P \in Seq(Calls) /\ Len(P) \in Nat
    BY <2>1, ProtocolType
  <2>3. ASSUME NEW n \in 0..Len(P) PROVE IsPrefix(SubSeq(P, 1, n), P)
    <3> HIDE DEF P
    <3> QED BY <2>2, <2>3, Follows
  <2>4. CASE Silent(h)
    <3>1. SubSeq(P, 1, 0) = <<>> /\ 0 \in 0..Len(P)
      <4> HIDE DEF P
      <4> QED BY <2>2, Follows
    <3> QED BY <2>3, <2>4, <3>1 DEF Silent
  <2>5. CASE ~Silent(h)
    <3>1. UsedInv(h)
      BY <2>1, <2>5 DEF PortInv, NewInv, FirstInv, Enumerated, PortStates
    <3>2. PICK n : Told(h, n)
      BY <3>1 DEF UsedInv, CalledInv
    <3> QED BY <2>3, <3>2 DEF Told
  <2> QED BY <2>4, <2>5
<1>2. ASSUME HidInv, NEW h \in Hubs, Plugged(h), port[h] = "busy", transfer.name # "in"
      PROVE  answer[h].name = "none"
  <2>1. CalledInv(h) /\ DriverInv(h)
    <3>1. PortInv(h)
      BY <1>2 DEF HidInv, PortsInv
    <3> QED BY <1>2, <3>1 DEF PortInv, Enumerated, UsedInv
  <2>2. CASE device[h] \in SwitchPads
    <3>1. Commanding(h)
      BY <1>2, <2>1, <2>2 DEF DriverInv, Asking, Commanding, SwitchPads
    <3> QED BY <1>2, <2>1, <2>2, <3>1, SwitchCommanding DEF DriverInv, HidInv
  <2> QED BY <2>1, <2>2 DEF DriverInv
<1>3. HidInv => ProtocolFollowed
  BY <1>1, <1>2 DEF ProtocolFollowed
<1> QED BY <1>3, HidInvariant, PTL

\* A driver that waits for a packet has a request under way that brings one.
THEOREM NobodyWaitsInVain == Spec => []NoDeadEnd
<1>1. ASSUME HidInv, NEW h \in Hubs, InUse(h), usb_host_ready(h)
      PROVE  ~awaits(h)
  <2>1. DriverInv(h) /\ RightType(h) /\ port[h] = "ready" /\ Plugged(h)
    BY <1>1, UsedPort DEF usb_host_ready, InUse
  <2>2. hid_info[h].type = "SWITCH" => ~Receives(usb_info[h].state)
    BY <1>1, <2>1, DriverOf DEF HidInv, DriverInv, SwitchInv
  <2>3. ASSUME hid_info[h].type = "ZAPPER"
        PROVE  usb_info[h].state \notin {2, 7}
    <3>1. device[h] \in {"hub", "gun"}
      BY <1>1, <2>1, <2>3, DriverOf DEF HidInv
    <3> QED BY <2>1, <3>1, StateNumbers DEF DriverInv, HubInv, GunInv
  <2> QED BY <2>2, <2>3, StateNumbers DEF awaits
<1>2. HidInv => NoDeadEnd
  BY <1>1 DEF NoDeadEnd
<1> QED BY <1>2, HidInvariant, PTL

\* What is handed to the application comes with the end of a request.
LEMMA GivenBy ==
  ASSUME HidInv, Next, NEW h \in Hubs, given'[h] # given[h], given'[h].what # "gone"
  PROVE  /\ ControlReadEnds(h) \/ InNaks(h) \/ InReports(h) \/ InOther(h) \/ InAnswers(h)
         /\ Ends(h) /\ Plugged(h)
<1>1. given \in [Hubs -> Given]
  BY DEF HidInv, TypeInv, InfoTypes
<1>2. ASSUME NEW g \in Hubs, hid_poll(g) PROVE given' = given
  <2>1. ASSUME NEW s, NEW requests, drive(g, s, requests) PROVE given' = given
    BY <2>1 DEF drive
  <2>2. ASSUME NEW from, NEW to, NEW requests, Step(g, from, to, requests)
        PROVE  given' = given
    BY <2>1, <2>2 DEF Step
  <2>3. poll_query(g) \/ hub_switch(g) => given' = given
    BY DEF poll_query, hub_switch
  <2>4. hid_switch_poll(g) => given' = given
    BY <2>1 DEF hid_switch_poll
  <2>5. hid_dualshock3_poll(g) \/ hid_xbox_360_poll(g) \/ hid_xbox_one_poll(g)
          \/ default_poll(g) \/ (hid_guncon3_poll(g) /\ ~hub_switch(g))
        => given' = given
    BY <2>2 DEF hid_dualshock3_poll, hid_xbox_360_poll, hid_xbox_one_poll,
                default_poll, hid_guncon3_poll
  <2> QED BY <1>2, <2>3, <2>4, <2>5 DEF hid_poll, poll_ready, infoVars
<1>3. ASSUME NEW g \in Hubs,
             state_set_address(g) \/ Enumerates(g) \/ state_delay(g) \/ OutEnds(g)
               \/ WaitEnds(g) \/ Plug(g) \/ Unplug(g)
      PROVE  given' = given
  BY <1>3 DEF state_set_address, Enumerates, check_device_desc, check_configuration_desc,
              check_hid_report_desc, state_delay, OutEnds, WaitEnds, Plug, Unplug, infoVars
<1>4. ASSUME NEW g \in Hubs, Disconnect(g) PROVE given'[h] = given[h] \/ given'[h].what = "gone"
  BY <1>1, <1>4 DEF Disconnect, disconnected
<1>5. ASSUME NEW g \in Hubs, g # h, NEW packet, hid_report(g, packet)
      PROVE  given'[h] = given[h]
  BY <1>1, <1>5 DEF hid_report
<1>6. PICK g \in Hubs :
        ControlReadEnds(g) \/ InNaks(g) \/ InReports(g) \/ InOther(g) \/ InAnswers(g)
  BY <1>2, <1>3, <1>4 DEF Next, HostStep
<1>7. g = h
  BY <1>5, <1>6 DEF ControlReadEnds, InNaks, InReports, InOther, InAnswers
<1> QED BY <1>6, <1>7
        DEF ControlReadEnds, InNaks, InReports, InOther, InAnswers, InEnds, Ends

\* The report of a device with a driver is handed over when the device has been
\* told everything.
LEMMA WholeReport ==
  ASSUME HidInv, Next, NEW h \in Hubs, given'[h] # given[h], given'[h].what # "gone",
         hid_info[h].type \in Driven
  PROVE  /\ given'[h].what = "report"
         /\ device[h] # "hub" => got[h] = Protocol(device[h])
         /\ hid_info[h].type = "SWITCH" =>
              /\ given'[h].ep = IF device[h] = "grip" THEN 2 ELSE 1
              /\ given'[h].left \in (IF device[h] = "grip" THEN {"zero", "now"} ELSE {"zero"})
<1>1. /\ Ends(h) /\ Plugged(h)
      /\ ControlReadEnds(h) \/ InNaks(h) \/ InReports(h) \/ InOther(h) \/ InAnswers(h)
  BY GivenBy
<1>2. TypeInv /\ PortInv(h)
  BY <1>1 DEF HidInv, PortsInv
<1>3. /\ CalledInv(h) /\ DriverInv(h) /\ RightType(h) /\ port[h] = "busy"
      /\ Protocol(device[h]) \in Seq(Calls) /\ Len(Protocol(device[h])) \in Nat
  BY <1>1, <1>2, BusyPort
<1>4. given \in [Hubs -> Given]
  BY <1>2 DEF TypeInv, InfoTypes
<1>5. ASSUME NEW packet, hid_report(h, packet)
      PROVE  /\ ~uses(h, packet) /\ packet # Nothing
             /\ given'[h] = [what |-> packet.what, ep |-> packet.ep,
                             left |-> switch_info[h].left]
  BY <1>4, <1>5 DEF hid_report
<1>6. ~InNaks(h)
  BY <1>5 DEF InNaks
<1>7. device[h] \in SwitchPads \union Xbox \union {"ps3", "hub", "gun"}
  BY <1>1, <1>2, <1>3, DriverOf DEF Driven, Xbox
<1>8. ~ControlReadEnds(h)
  <2>1. SUFFICES ASSUME ControlReadEnds(h) PROVE FALSE
    OBVIOUS
  <2>2. PICK packet : hid_report(h, packet) /\ packet.what = "answer"
    BY <2>1 DEF ControlReadEnds, Answer
  <2>3. ~uses(h, packet)
    BY <1>5, <2>2
  <2>4. transfer.name \in ControlReads
    BY <2>1 DEF ControlReadEnds
  <2>5. CASE transfer.name = "GET_STATUS"
    <3>1. device[h] = "hub" /\ Asking(h)
      BY <1>3, <2>5 DEF Asking, DriverInv
    <3>2. usb_info[h].state \in {2, 4} /\ hid_info[h].type = "ZAPPER"
      BY <1>1, <1>2, <1>3, <3>1, DriverOf, StateNumbers DEF DriverInv, HubInv
    <3> QED BY <2>3, <3>2, StateNumbers DEF uses
  <2>6. CASE transfer.name # "GET_STATUS"
    <3>1. device[h] = "ps3"
      BY <1>1, <1>2, <1>7, <2>2, <2>4, <2>6, ControlCommand
    <3>2. hid_info[h].type = "PS3"
      BY <1>1, <1>2, <1>3, <3>1, DriverOf
    <3> QED BY <2>2, <2>3, <3>2 DEF uses
  <2> QED BY <2>5, <2>6
<1>9. Reading(h) /\ ~Commanding(h)
  BY <1>1, <1>3, <1>6, <1>8
     DEF InReports, InOther, InAnswers, InEnds, Reading, Commanding
<1>10. PICK packet : /\ hid_report(h, packet) /\ packet.ep = transfer.ep
                     /\ packet.what \in {"report", "other", "answer"}
                     /\ packet.what = "answer" => answer[h].name # "none"
  BY <1>1, <1>6, <1>8 DEF InReports, InOther, InAnswers, Report, Other, Answer
<1>11. /\ ~uses(h, packet) /\ given'[h].what = packet.what /\ given'[h].ep = packet.ep
       /\ given'[h].left = switch_info[h].left
  <2>1. /\ ~uses(h, packet)
        /\ given'[h] = [what |-> packet.what, ep |-> packet.ep,
                        left |-> switch_info[h].left]
    BY <1>5, <1>10
  <2> QED BY <2>1
<1>12. ASSUME Position(h) = Len(Protocol(device[h]))
       PROVE  got[h] = Protocol(device[h])
  <2> DEFINE P == Protocol(device[h])
  <2>1. got[h] = SubSeq(P, 1, Len(P))
    BY <1>3, <1>9, <1>12 DEF CalledInv, Told
  <2>2. SubSeq(P, 1, Len(P)) = P
    BY <1>3, SubSeqFull
  <2> QED BY <2>1, <2>2
<1>13. CASE device[h] \in SwitchPads
  <2>1. hid_info[h].type = "SWITCH"
    BY <1>1, <1>2, <1>3, <1>13, DriverOf
  <2>2. /\ usb_info[h].state = INITIALIZED /\ packet.what = "report"
        /\ switch_info[h].joycon = 0
    BY <1>11, <2>1 DEF uses, switch_uses
  <2>3. Position(h) = Len(Protocol(device[h]))
    BY <1>13, <2>2 DEF Position, SwitchPosition, SwitchPads, Xbox
  <2>4. transfer.ep = IF device[h] = "grip" THEN 2 ELSE 1
    BY <1>3, <1>9, <1>13, <2>2 DEF DriverInv, SwitchInv
  <2>5. switch_info[h].left \in (IF device[h] = "grip" THEN {"zero", "now"} ELSE {"zero"})
    BY <1>3, <1>13, <2>2, StateNumbers DEF DriverInv, SwitchInv, SwitchPads
  <2> QED BY <1>10, <1>11, <1>12, <2>2, <2>3, <2>4, <2>5
<1>14. CASE device[h] \notin SwitchPads
  <2>1. hid_info[h].type # "SWITCH" /\ packet.what \in {"report", "other"}
    BY <1>1, <1>2, <1>3, <1>10, <1>14, DriverOf DEF DriverInv
  <2>2. CASE device[h] = "ps3"
    <3>1. hid_info[h].type = "PS3"
      BY <1>1, <1>2, <1>3, <2>2, DriverOf
    <3>2. packet.what = "report" /\ usb_info[h].state = PS3_READY
      BY <1>11, <3>1 DEF uses
    <3>3. Position(h) = Len(Protocol(device[h]))
      BY <2>2, <3>2, StateNumbers, OtherProtocols DEF Position, SwitchPads, Xbox
    <3> QED BY <1>11, <1>12, <2>1, <3>2, <3>3
  <2>3. CASE device[h] \in Xbox
    <3>1. hid_info[h].type \in {"XBOX_360", "XBOX_ONE"}
      BY <1>1, <1>2, <1>3, <2>3, DriverOf DEF Xbox
    <3>2. packet.what = "report"
      BY <1>11, <2>1, <3>1 DEF uses
    <3>3. usb_info[h].state = IF device[h] = "xboxone" THEN STARTED ELSE 1
      BY <1>3, <1>9, <2>3 DEF DriverInv, XboxInv
    <3>4. Position(h) = Len(Protocol(device[h]))
      BY <1>14, <2>3, <3>3, StateNumbers, OtherProtocols DEF Position, Xbox
    <3> QED BY <1>11, <1>12, <2>1, <3>2, <3>4
  <2>4. CASE device[h] \in {"hub", "gun"}
    <3>1. device[h] = "gun" /\ usb_info[h].state = 9
      BY <1>3, <1>9, <2>4, StateNumbers DEF DriverInv, HubInv, GunInv
    <3>2. hid_info[h].type = "ZAPPER"
      BY <1>1, <1>2, <1>3, <3>1, DriverOf
    <3>3. packet.what = "report"
      BY <1>11, <3>1, <3>2, StateNumbers DEF uses
    <3>4. Position(h) = Len(Protocol(device[h]))
      BY <1>14, <3>1, StateNumbers, OtherProtocols DEF Position, Xbox
    <3> QED BY <1>11, <1>12, <2>1, <3>3, <3>4
  <2> QED BY <1>7, <1>14, <2>2, <2>3, <2>4
<1> QED BY <1>13, <1>14

\* The application gets nothing but whole reports of devices that have had all
\* their commands.
THEOREM ReportsAreWhole == Spec => OnlyWholeReports
<1>1. HidInv /\ [Next]_vars => [ReportsWhole]_vars
  BY WholeReport DEF ReportsWhole
<1> QED BY <1>1, HidInvariant, PTL DEF Spec, OnlyWholeReports

=====
