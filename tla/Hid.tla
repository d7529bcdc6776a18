-------------------------------- MODULE Hid --------------------------------
(***************************************************************************)
(* The HID host layer, src/usb/hid: hid_poll and the callbacks the USB     *)
(* host calls while it enumerates a device and when a report has come, and *)
(* the drivers of the keyboards, mice and controllers.  The USB host is    *)
(* what UsbHost says of it: it enumerates one port at a time under its     *)
(* lock, calls back in the order of the enumeration, and answers one       *)
(* request at a time; a request of a port that is not ready is refused,    *)
(* and no caller looks whether it was.                                     *)
(***************************************************************************)
EXTENDS HidReport

CONSTANTS
  KindsAt,   \* the kinds of devices that may be plugged into each port
  Layouts,   \* the report layouts of a "pad"
  MaxPlugs   \* bound: devices plugged in, on both ports together

Hubs == 0..1
NoHub == 2

VARIABLES
  hid_info,     \* per port: state, type, report_desc_size # 0, who wrote each
                \* field of the layout, and what the parser found
  usb_info,     \* per port: the driver's state, vid and pid, endpoints, wait
  switch_info,  \* per port: joycon, and where data3 and data4 come from
  due,          \* per port: wait has passed since tick
  next_hub,
  given,        \* per port: the last call of hid->report
  port,         \* per port: where the USB host is
  owner,        \* transaction_lock
  transfer,     \* the request of the owner, once its port is "busy"
  device,       \* per port: the kind of the device, or "none"
  layout,       \* per port: the layout of its reports
  got,          \* per port: the commands the device has accepted
  answer,       \* per port: the answer it has not yet given
  plugs

infoVars == <<hid_info, usb_info, switch_info, due, given>>
hostVars == <<port, owner, transfer>>
deviceVars == <<device, layout, got, answer, plugs>>
vars == <<infoVars, next_hub, hostVars, deviceVars>>

-----------------------------------------------------------------------------
(* Devices: what their descriptors say.                                    *)

HidPads == {"pad", "combo", "hori", "slow", "ps3", "pro", "grip"}
Xbox == {"xbox360", "xboxone"}
Kind == HidPads \cup Xbox \cup {"keyboard", "mouse", "hub", "gun", "dongle"}
ASSUME HidAssumption == KindsAt \in [Hubs -> SUBSET Kind] /\ MaxPlugs \in Nat
SwitchPads == {"pro", "grip"}

Interface(n, as) == [d |-> "interface", n |-> n, as |-> as]
HidDescriptor == [d |-> "hid", n |-> 0, as |-> "none"]
EndpointIn(n) == [d |-> "in", n |-> n, as |-> "none"]
EndpointOut(n) == [d |-> "out", n |-> n, as |-> "none"]

\* A combo is a receiver: a boot device nobody knows, then the pad.
Configuration(kind) ==
  CASE kind \in {"keyboard", "mouse"} ->
         <<Interface(0, kind), HidDescriptor, EndpointIn(1)>>
    [] kind = "combo" ->
         <<Interface(0, "boot"), HidDescriptor, EndpointIn(1),
           Interface(1, "hid"), HidDescriptor, EndpointIn(2)>>
    [] kind \in HidPads \ {"combo"} ->
         <<Interface(0, "hid"), HidDescriptor, EndpointIn(1), EndpointOut(1),
           Interface(1, "hid"), HidDescriptor, EndpointIn(2), EndpointOut(2)>>
    [] kind \in Xbox ->
         <<Interface(0, kind), EndpointIn(1), EndpointOut(2),
           Interface(1, "vendor"), EndpointIn(3)>>
    [] kind = "gun" -> <<Interface(0, "vendor"), EndpointIn(2), EndpointOut(2)>>
    [] OTHER -> <<Interface(0, "vendor"), EndpointIn(1)>>

\* The endpoint the device sends its reports from.
ReportEndpoint(kind) == IF kind \in {"combo", "gun"} THEN 2 ELSE 1

PlainLayout == <<[id |-> 0, groups |-> <<"buttons">>]>>
FakeLayout == <<[id |-> 48, groups |-> <<"many", "filler", "xy", "rzz">>]>>

\* What the parser finds in each report descriptor.
Parsed == [l \in Layouts \cup {PlainLayout, FakeLayout} |-> parse(Items(l))]

-----------------------------------------------------------------------------
(* The layout of the reports in hid_info.                                  *)

Fields == {"size", "id", "sticks", "triggers", "hat", "dpad", "buttons", "meta"}

\* by writes the fields fs; "before" marks what is left of an earlier device.
Write(source, fs, by) == [f \in Fields |-> IF f \in fs THEN by ELSE source[f]]

\* What each of the _initialize functions writes, and check_hid_report_desc.
keyboard_fields == {"size", "id"}
gun_fields == Fields
xbox_fields == Fields \ {"meta"}
switch_fields == Fields \ {"meta"}
ps3_fields == {"buttons", "meta", "dpad", "triggers"}
FieldsOf ==
  [keyboard |-> keyboard_fields, gun |-> gun_fields, switch |-> switch_fields,
   ps3 |-> ps3_fields, xbox360 |-> xbox_fields, xboxone |-> xbox_fields]

Init ==
  /\ hid_info = [h \in Hubs |->
       [state |-> "DISCONNECTED", type |-> "UNKNOWN", desc |-> FALSE,
        source |-> [f \in Fields |-> "zero"], found |-> parse_start]]
  /\ usb_info = [h \in Hubs |-> [state |-> 0, kind |-> "none", ep_in |-> 0, ep_out |-> 0, wait |-> FALSE]]
  /\ switch_info = [h \in Hubs |-> [joycon |-> 0, left |-> "zero"]]
  /\ due = [h \in Hubs |-> FALSE]
  /\ given = [h \in Hubs |-> [what |-> "none", ep |-> 0, left |-> "zero"]]
  /\ next_hub = 0
  /\ port = [h \in Hubs |-> "empty"] /\ owner = NoHub
  /\ transfer = [name |-> "none", ep |-> 0]
  /\ device = [h \in Hubs |-> "none"]
  /\ layout = [h \in Hubs |-> PlainLayout]
  /\ got = [h \in Hubs |-> <<>>]
  /\ answer = [h \in Hubs |-> [name |-> "none", ep |-> 0]]
  /\ plugs = 0

-----------------------------------------------------------------------------
(* The callbacks of the enumeration.                                       *)

\* The types the drivers know by vid and pid.
TypeByIds(kind) ==
  CASE kind \in SwitchPads -> "SWITCH" [] kind = "ps3" -> "PS3"
    [] kind = "xbox360" -> "XBOX_360" [] kind \in {"hub", "gun"} -> "ZAPPER"
    [] OTHER -> "UNKNOWN"

\* The states of the drivers are numbers of one variable; 0 is the first of
\* each: IDLE, CONNECTED or DEVICE_CONNECTED.
CONNECTED == 0
HUB_CONNECTED == 1
HUB_GET_PORT_STATUS == 2
HUB_PORT_RESET == 3
HUB_PORT_RESET_WAIT == 4
HUB_PORT_RESET_DONE == 5
HUB_PORT_SET_ADDRESS == 6
HUB_PORT_SET_ADDRESS_DONE == 7
GUN_CONNECTED == 8
GUN_READY == 9
PS3_READY == 5
STARTED == 2

FirstState(kind) ==
  CASE kind = "hub" -> HUB_CONNECTED [] kind = "gun" -> GUN_CONNECTED
    [] OTHER -> CONNECTED

\* A mutant: the type of the last device stays.
check_device_desc_keeps(h) ==
  /\ hid_info' = [hid_info EXCEPT ![h].state = "CONNECTED", ![h].desc = device[h] = "xbox360",
          ![h].type = IF TypeByIds(device[h]) = "UNKNOWN" THEN @ ELSE TypeByIds(device[h])]
  /\ usb_info' = [usb_info EXCEPT ![h] =
       [state |-> FirstState(device[h]), kind |-> device[h], ep_in |-> 0, ep_out |-> 0,
        wait |-> device[h] = "slow"]]
  /\ due' = [due EXCEPT ![h] = FALSE]
  /\ UNCHANGED <<switch_info, given>>

check_device_desc(h) ==
  LET kind == device[h]
  IN /\ hid_info' = [hid_info EXCEPT ![h].state = "CONNECTED",
          ![h].type = TypeByIds(kind), ![h].desc = kind = "xbox360"]
     /\ usb_info' = [usb_info EXCEPT ![h] =
          [state |-> FirstState(kind), kind |-> kind, ep_in |-> 0, ep_out |-> 0,
           wait |-> kind = "slow"]]
     /\ due' = [due EXCEPT ![h] = FALSE]
     /\ UNCHANGED <<switch_info, given>>

\* The type by the interface, and whether it is the one to use.
TypeOfInterface(type, as) ==
  CASE as = "keyboard" -> "KEYBOARD" [] as = "mouse" -> "MOUSE"
    [] as = "xbox360" -> "XBOX_360" [] as = "xboxone" -> "XBOX_ONE"
    [] OTHER -> type
Target(type, as) ==
  as \in {"keyboard", "mouse", "hid"} \cup Xbox \/ type = "ZAPPER"

\* One descriptor of a configuration: the walk ends at the interface after
\* the target, and endpoints of what is no HID and unknown are left out.
Walk(w, head) ==
  IF w.ended \/ (head.d = "interface" /\ w.target) THEN [w EXCEPT !.ended = TRUE]
  ELSE CASE head.d = "interface" ->
              [w EXCEPT !.type = TypeOfInterface(w.type, head.as),
                        !.desc = @ \/ head.as \in Xbox,
                        !.hid = head.as \in {"keyboard", "mouse", "hid", "boot"},
                        !.target = Target(w.type, head.as)]
         [] head.d = "hid" -> [w EXCEPT !.desc = TRUE]
         [] head.d = "in" /\ (w.type # "UNKNOWN" \/ w.hid) -> [w EXCEPT !.ep_in = head.n]
         [] head.d = "out" /\ (w.type # "UNKNOWN" \/ w.hid) -> [w EXCEPT !.ep_out = head.n]
         [] OTHER -> w

Types == {"UNKNOWN", "KEYBOARD", "MOUSE", "ZAPPER", "PS3", "PS4", "XBOX_360",
          "XBOX_ONE", "SWITCH", "GENERIC"}
Walks ==
  [type \in Types, desc \in BOOLEAN, kind \in Kind |->
     CHOOSE w \in FoldLeft(LAMBDA ws, head : {Walk(w, head) : w \in ws},
                          {[type |-> type, desc |-> desc, hid |-> FALSE, target |-> FALSE,
                            ended |-> FALSE, ep_in |-> 0, ep_out |-> 0]},
                          Configuration(kind)) : TRUE]
WalkFrom(type, desc, kind) == Walks[type, desc, kind]
walk(h) == WalkFrom(hid_info[h].type, hid_info[h].desc, device[h])

\* What the walk finds when it starts from the type of the ids.  No constant is
\* in here, so that TLC decides it; the proofs cannot compute a fold.
WalkedType(kind) ==
  CASE kind = "keyboard" -> "KEYBOARD" [] kind = "mouse" -> "MOUSE"
    [] kind = "xboxone" -> "XBOX_ONE" [] OTHER -> TypeByIds(kind)
ASSUME WalksFind ==
  \A kind \in Kind, desc \in BOOLEAN :
    LET w == WalkFrom(TypeByIds(kind), desc, kind)
    IN /\ w.type = WalkedType(kind) /\ w.desc \in BOOLEAN
       /\ w.ep_in \in 0..3 /\ w.ep_out \in 0..3
       /\ kind \notin {"hub", "dongle"} => w.ep_in = ReportEndpoint(kind)
       /\ kind \in Xbox => w.ep_out = 2

\* And what the parser finds in the layouts of known pads.
ASSUME ParserFinds ==
  \A l \in {PlainLayout, FakeLayout} : ~parse(Items(l)).ps4

\* The drivers that need no report descriptor initialize the layout here.
Initializes == [KEYBOARD |-> "keyboard", ZAPPER |-> "gun",
                XBOX_360 |-> "xbox360", XBOX_ONE |-> "xboxone"]

check_configuration_desc(h) ==
  LET w == walk(h)
      by == IF w.type \in DOMAIN Initializes THEN {Initializes[w.type]} ELSE {}
  IN /\ hid_info' = [hid_info EXCEPT ![h].type = w.type, ![h].desc = w.desc,
          ![h].state = IF by # {} THEN "READY"
                       ELSE IF w.desc /\ w.ep_in # 0 THEN "NOT_READY" ELSE @,
          ![h].source = IF by = {} THEN @
                        ELSE LET d == CHOOSE d \in by : TRUE IN Write(@, FieldsOf[d], d)]
     /\ usb_info' = [usb_info EXCEPT ![h].ep_in = w.ep_in, ![h].ep_out = w.ep_out,
          ![h].state = IF w.type \in {"XBOX_360", "XBOX_ONE"} THEN CONNECTED ELSE @]
     /\ UNCHANGED <<switch_info, due, given>>

\* A descriptor is parsed; the types that know better overwrite the layout.
check_hid_report_desc(h) ==
  LET found == Parsed[layout[h]]
      parsed == Write(hid_info[h].source, Fields, "parsed")
      type == IF found.ps4 THEN "PS4"
              ELSE IF hid_info[h].type = "UNKNOWN" /\ is_generic(found) THEN "GENERIC"
              ELSE hid_info[h].type
  IN /\ hid_info' = IF hid_info[h].state # "NOT_READY" THEN hid_info
          ELSE [hid_info EXCEPT ![h] =
             [@ EXCEPT !.found = found, !.type = type,
               !.state = IF usb_info[h].kind = "hori" THEN "SET_IDLE" ELSE "READY",
               !.source = CASE type = "SWITCH" -> Write(parsed, FieldsOf.switch, "switch")
                            [] type = "PS3" -> Write(parsed, FieldsOf.ps3, "ps3")
                            [] OTHER -> parsed]]
     /\ UNCHANGED <<usb_info, switch_info, due, given>>

disconnected(h) ==
  /\ hid_info' = [hid_info EXCEPT ![h].state = "DISCONNECTED", ![h].source["size"] = "zero"]
  /\ given' = [given EXCEPT ![h] = [what |-> "gone", ep |-> 0, left |-> "zero"]]
  /\ UNCHANGED <<usb_info, switch_info, due>>

-----------------------------------------------------------------------------
(* Requests to the USB host.                                               *)

Request(name, ep) == [name |-> name, ep |-> ep]
InRequest(ep) == Request("in", ep)

\* The calls of one poll: the first takes the lock and makes the port busy, so
\* the host refuses the ones after it.
submit(h, requests) ==
  IF requests = <<>> THEN UNCHANGED hostVars
  ELSE /\ transfer' = Head(requests) /\ owner' = h
       /\ port' = [port EXCEPT ![h] = "busy"]

\* A driver sets its state and makes its calls.
drive(h, s, requests) ==
  /\ usb_info' = [usb_info EXCEPT ![h].state = s]
  /\ submit(h, requests)
  /\ UNCHANGED <<hid_info, due, given, deviceVars>>

\* A driver that goes through a chain of calls.
Step(h, from, to, requests) ==
  usb_info[h].state = from /\ drive(h, to, requests) /\ UNCHANGED switch_info

-----------------------------------------------------------------------------
(* hid_switch.c.  Each command is sent, read for and waited for in turn.   *)

Commands == <<"REQUEST_MAC", "HANDSHAKE", "BAUDRATE", "HANDSHAKE2", "NO_TIMEOUT",
              "NO_TIMEOUT2", "PLAYER_LED", "HOME_LED", "REPORT_MODE">>
REQUEST_MAC == 1
INITIALIZED == 3 * Len(Commands) + 1
CommandOf(s) == Commands[(s + 2) \div 3]
Sends(s) == s \in 1..(INITIALIZED - 1) /\ s % 3 = 1
Reads(s) == s \in 1..(INITIALIZED - 1) /\ s % 3 = 2
Receives(s) == s \in 1..(INITIALIZED - 1) /\ s % 3 = 0

\* HOME_LED and REPORT_MODE fall through to the calls below theirs.
Sent(s, ep) ==
  CASE CommandOf(s) = "HOME_LED" ->
         <<Request("HOME_LED", ep), Request("REPORT_MODE", ep), InRequest(ep)>>
    [] CommandOf(s) = "REPORT_MODE" -> <<Request("REPORT_MODE", ep), InRequest(ep)>>
    [] OTHER -> <<Request(CommandOf(s), ep)>>

switch_endpoint(h) == IF switch_info[h].joycon = 0 THEN 1 ELSE 2

hid_switch_poll(h) ==
  LET s == usb_info[h].state  ep == switch_endpoint(h)
  IN \/ /\ s = CONNECTED
        /\ drive(h, s + 1, <<>>)
        /\ switch_info' = [switch_info EXCEPT ![h] = [joycon |-> 0, left |-> "zero"]]
     \/ Sends(s) /\ drive(h, s + 1, Sent(s, ep)) /\ UNCHANGED switch_info
     \/ Reads(s) /\ drive(h, s + 1, <<InRequest(ep)>>) /\ UNCHANGED switch_info
     \/ /\ s = INITIALIZED
        /\ drive(h, s, <<InRequest(ep)>>)
        /\ switch_info' = IF usb_info[h].kind = "grip"
                          THEN [switch_info EXCEPT ![h].joycon = 1 - @] ELSE switch_info

Nothing == [what |-> "nothing", name |-> "none", ep |-> 0]
Report(ep) == [what |-> "report", name |-> "none", ep |-> ep]
Other(ep) == [what |-> "other", name |-> "none", ep |-> ep]
Answer(name, ep) == [what |-> "answer", name |-> name, ep |-> ep]

\* HANDSHAKE and HANDSHAKE2 have the same answer; NO_TIMEOUT has none, and any
\* packet will do.
AnswerName(name) == IF name = "HANDSHAKE2" THEN "HANDSHAKE" ELSE name

\* A mutant: any packet is taken for the answer.
Answers_any(s, packet) == packet # Nothing

Answers(s, packet) ==
  \/ CommandOf(s) = "NO_TIMEOUT"
  \/ packet.what = "answer" /\ packet.name = AnswerName(CommandOf(s))

\* A mutant: after an empty packet the driver does not read again.
switch_next_waits(h, packet) ==
  LET s == usb_info[h].state
  IN IF packet # Nothing /\ Receives(s) THEN (IF Answers(s, packet) THEN s + 1 ELSE s - 1) ELSE s

\* The next state: a packet that is no answer is read for again.
switch_next(h, packet) ==
  LET s == usb_info[h].state
  IN CASE packet = Nothing -> IF s = INITIALIZED THEN s ELSE s - 1
       [] packet # Nothing /\ Receives(s) -> IF Answers(s, packet) THEN s + 1 ELSE s - 1
       [] OTHER -> s

\* A mutant: the report of the left half is handed over as well.
switch_uses_right_only(h, packet) ==
  packet = Nothing \/ usb_info[h].state # INITIALIZED \/ packet.what # "report"

\* hid_switch_report answers whether it has used up the packet.
switch_uses(h, packet) ==
  \/ packet = Nothing \/ usb_info[h].state # INITIALIZED
  \/ packet.what # "report" \/ switch_info[h].joycon # 0

hid_switch_report(h, packet) ==
  LET s == switch_next(h, packet)
      second == /\ s = INITIALIZED /\ usb_info[h].state # INITIALIZED
                /\ usb_info[h].kind = "grip" /\ switch_info[h].joycon = 0
      left == /\ usb_info[h].state = INITIALIZED /\ packet.what = "report"
              /\ switch_info[h].joycon # 0
  IN /\ usb_info' = [usb_info EXCEPT ![h].state = IF second THEN REQUEST_MAC ELSE s]
     /\ switch_info' = [switch_info EXCEPT ![h].joycon = IF second THEN @ + 1 ELSE @,
                                           ![h].left = IF left THEN "now" ELSE @]

-----------------------------------------------------------------------------
(* The other drivers.                                                      *)

hid_dualshock3_poll(h) ==
  \/ Step(h, CONNECTED, 1, <<Request("SET_IDLE", 0)>>)
  \/ Step(h, 1, 2, <<Request("REPORT_01", 0)>>)
  \/ Step(h, 2, 3, <<Request("REPORT_F2", 0)>>)
  \/ Step(h, 3, 4, <<Request("REPORT_F5", 0)>>)
  \/ Step(h, 4, PS3_READY, <<>>)
  \/ Step(h, PS3_READY, PS3_READY, <<InRequest(usb_info[h].ep_in)>>)

hid_xbox_360_poll(h) ==
  \/ Step(h, CONNECTED, 1, <<Request("LED", usb_info[h].ep_out)>>)
  \/ Step(h, 1, 1, <<InRequest(usb_info[h].ep_in)>>)
hid_xbox_one_poll(h) ==
  \/ Step(h, CONNECTED, 1, <<Request("INITIALIZE", usb_info[h].ep_out)>>)
  \/ Step(h, 1, STARTED, <<Request("START", usb_info[h].ep_out)>>)
  \/ Step(h, STARTED, STARTED, <<InRequest(usb_info[h].ep_in)>>)

\* usb_host_hub_switch: the host starts over with the gun behind the hub.
hub_switch(h) ==
  /\ usb_info[h].state = HUB_PORT_SET_ADDRESS
  /\ usb_info' = [usb_info EXCEPT ![h].state = HUB_PORT_SET_ADDRESS_DONE]
  /\ port' = [port EXCEPT ![h] = "address"]
  /\ device' = [device EXCEPT ![h] = IF @ = "hub" THEN "gun" ELSE @]
  /\ got' = [got EXCEPT ![h] = <<>>]
  /\ UNCHANGED <<hid_info, due, given, switch_info, owner, transfer, layout, answer, plugs>>

hid_guncon3_poll(h) ==
  \/ Step(h, HUB_CONNECTED, HUB_GET_PORT_STATUS, <<Request("GET_STATUS", 0)>>)
  \/ Step(h, HUB_PORT_RESET, HUB_PORT_RESET_WAIT, <<Request("PORT_RESET", 0)>>)
  \/ Step(h, HUB_PORT_RESET_WAIT, HUB_PORT_RESET_WAIT, <<Request("GET_STATUS", 0)>>)
  \/ Step(h, HUB_PORT_RESET_DONE, HUB_PORT_SET_ADDRESS, <<Request("C_PORT_RESET", 0)>>)
  \/ hub_switch(h)
  \/ Step(h, GUN_CONNECTED, GUN_READY, <<Request("KEY", 2)>>)
  \/ Step(h, GUN_READY, GUN_READY, <<InRequest(2)>>)

hid_guncon3_report(h, packet) ==
  LET s == usb_info[h].state
  IN usb_info' = [usb_info EXCEPT ![h].state =
       CASE s = HUB_GET_PORT_STATUS -> HUB_PORT_RESET
         [] s = HUB_PORT_RESET_WAIT /\ packet.name = "RESET_DONE" -> HUB_PORT_RESET_DONE
         [] OTHER -> s]

\* The drivers that use up the packet.  A GunCon's is short, or a hub's.
uses(h, packet) ==
  LET type == hid_info[h].type  s == usb_info[h].state
  IN CASE type = "PS3" -> packet.what # "report" \/ s # PS3_READY
       [] type = "ZAPPER" -> s \in {HUB_GET_PORT_STATUS, HUB_PORT_RESET_WAIT}
                             \/ (s = GUN_READY /\ packet.what # "report")
       [] type \in {"XBOX_360", "XBOX_ONE"} -> packet.what = "other"
       [] type = "SWITCH" -> switch_uses(h, packet)
       [] OTHER -> FALSE

\* host.in and host.hid_report.
hid_report(h, packet) ==
  /\ CASE hid_info[h].type = "SWITCH" -> hid_switch_report(h, packet)
       [] hid_info[h].type = "ZAPPER" ->
            hid_guncon3_report(h, packet) /\ UNCHANGED switch_info
       [] OTHER -> UNCHANGED <<usb_info, switch_info>>
  /\ given' = IF packet = Nothing \/ uses(h, packet) THEN given
              ELSE [given EXCEPT ![h] =
                     [what |-> packet.what, ep |-> packet.ep, left |-> switch_info[h].left]]
  /\ due' = IF usb_info[h].wait /\ ~uses(h, packet) THEN [due EXCEPT ![h] = FALSE] ELSE due
  /\ UNCHANGED hid_info

-----------------------------------------------------------------------------
(* hid_poll.                                                               *)

default_poll(h) ==
  Step(h, usb_info[h].state, usb_info[h].state, <<InRequest(usb_info[h].ep_in)>>)

Driven == {"ZAPPER", "PS3", "XBOX_360", "XBOX_ONE", "SWITCH"}
poll_ready(h) ==
  /\ hid_info[h].state = "READY"
  /\ \/ hid_info[h].type = "ZAPPER" /\ hid_guncon3_poll(h)
     \/ hid_info[h].type = "PS3" /\ hid_dualshock3_poll(h)
     \/ hid_info[h].type = "XBOX_360" /\ hid_xbox_360_poll(h)
     \/ hid_info[h].type = "XBOX_ONE" /\ hid_xbox_one_poll(h)
     \/ hid_info[h].type = "SWITCH" /\ hid_switch_poll(h)
     \/ hid_info[h].type \notin Driven /\ default_poll(h)

\* The unknown query that some pads need.
poll_query(h) ==
  \E step \in {<<"SET_IDLE", "GET_REPORT">>, <<"GET_REPORT", "READY">>} :
    /\ hid_info[h].state = step[1]
    /\ hid_info' = [hid_info EXCEPT ![h].state = step[2]]
    /\ submit(h, <<Request(step[1], 0)>>)
    /\ UNCHANGED <<usb_info, switch_info, due, given, deviceVars>>

waits(h) == usb_info[h].wait /\ ~due[h]
usb_host_ready(h) == port[h] = "ready" /\ owner = NoHub

\* Drivers that wait for a packet make no call.
awaits(h) ==
  LET s == usb_info[h].state
  IN \/ hid_info[h].type = "SWITCH" /\ Receives(s)
     \/ hid_info[h].type = "ZAPPER" /\ s \in {HUB_GET_PORT_STATUS, HUB_PORT_SET_ADDRESS_DONE}

hid_poll(h) ==
  /\ owner = NoHub /\ next_hub = h
  /\ next_hub' = 1 - h
  /\ \/ /\ waits(h) \/ ~usb_host_ready(h)
              \/ hid_info[h].state \notin {"READY", "SET_IDLE", "GET_REPORT"}
              \/ awaits(h)
        /\ UNCHANGED <<infoVars, hostVars, deviceVars>>
     \/ ~waits(h) /\ usb_host_ready(h) /\ ~awaits(h) /\ (poll_ready(h) \/ poll_query(h))

-----------------------------------------------------------------------------
(* The USB host, as UsbHost promises it, and the devices.                  *)

Plugged(h) == device[h] # "none"

\* SET_ADDRESS waits for the lock and keeps it until the port is ready.
state_set_address(h) ==
  /\ Plugged(h) /\ port[h] \in {"empty", "address"} /\ owner = NoHub
  /\ owner' = h /\ port' = [port EXCEPT ![h] = "device"]
  /\ UNCHANGED <<infoVars, next_hub, transfer, deviceVars>>

Goto(h, state, free) ==
  /\ port' = [port EXCEPT ![h] = state]
  /\ owner' = IF free THEN NoHub ELSE owner
  /\ UNCHANGED <<next_hub, transfer>>

\* Boot keyboards and devices that are no HID have no report descriptor read.
HasReportDesc(kind) == kind \in HidPads \cup {"mouse"}

Enumerates(h) ==
  /\ Plugged(h)
  /\ \/ /\ port[h] = "device" /\ check_device_desc(h)
        /\ Goto(h, "configuration", FALSE)
     \/ /\ port[h] = "configuration" /\ check_configuration_desc(h)
        /\ IF HasReportDesc(device[h]) THEN Goto(h, "report", FALSE) ELSE Goto(h, "delay", TRUE)
     \/ /\ port[h] = "report" /\ check_hid_report_desc(h)
        /\ Goto(h, "delay", TRUE)
  /\ UNCHANGED deviceVars

state_delay(h) ==
  /\ port[h] = "delay" /\ Goto(h, "ready", FALSE)
  /\ UNCHANGED <<infoVars, deviceVars>>

ControlReads == {"GET_STATUS", "GET_REPORT", "REPORT_01", "REPORT_F2", "REPORT_F5"}
Ends(h) == owner = h /\ port[h] = "busy" /\ Plugged(h) /\ Goto(h, "delay", TRUE)

\* What a device notes down, and what it will answer.
Accepts(h) ==
  /\ got' = IF transfer.name = "GET_STATUS" THEN got
            ELSE [got EXCEPT ![h] = Append(@, <<transfer.name, transfer.ep>>)]
  /\ answer' = IF device[h] \in SwitchPads /\ transfer.name # "NO_TIMEOUT"
               THEN [answer EXCEPT ![h] =
                      [name |-> AnswerName(transfer.name), ep |-> transfer.ep]]
               ELSE answer
  /\ UNCHANGED <<device, layout, plugs>>

\* A command is accepted, at last: state_out_done and state_done call nobody.
OutEnds(h) ==
  /\ Ends(h) /\ transfer.name \notin ControlReads \cup {"in"}
  /\ Accepts(h) /\ UNCHANGED infoVars

\* A control read has its data; a hub may still reset its port.
ControlReadEnds(h) ==
  /\ Ends(h) /\ transfer.name \in ControlReads /\ Accepts(h)
  /\ \/ hid_report(h, Answer(transfer.name, 0))
     \/ /\ transfer.name = "GET_STATUS" /\ <<"PORT_RESET", 0>> \in ToSet(got[h])
        /\ hid_report(h, Answer("RESET_DONE", 0))

\* Controllers of a Switch report once NO_TIMEOUT has come to that half.
Reporting(h, ep) ==
  IF device[h] \in SwitchPads THEN <<"NO_TIMEOUT", ep>> \in ToSet(got[h])
  ELSE ep = ReportEndpoint(device[h])

InEnds(h) == Ends(h) /\ transfer.name = "in"
InNaks(h) == InEnds(h) /\ hid_report(h, Nothing) /\ UNCHANGED deviceVars
InReports(h) ==
  /\ InEnds(h) /\ Reporting(h, transfer.ep)
  /\ hid_report(h, Report(transfer.ep)) /\ UNCHANGED deviceVars
InOther(h) ==
  /\ InEnds(h) /\ Reporting(h, transfer.ep)
  /\ hid_report(h, Other(transfer.ep)) /\ UNCHANGED deviceVars
InAnswers(h) ==
  /\ InEnds(h) /\ answer[h].name # "none" /\ answer[h].ep = transfer.ep
  /\ hid_report(h, Answer(answer[h].name, transfer.ep))
  /\ answer' = [answer EXCEPT ![h] = [name |-> "none", ep |-> 0]]
  /\ UNCHANGED <<device, layout, got, plugs>>

WaitEnds(h) ==
  /\ waits(h) /\ due' = [due EXCEPT ![h] = TRUE]
  /\ UNCHANGED <<hid_info, usb_info, switch_info, given, next_hub, hostVars, deviceVars>>

Plug(h) ==
  /\ ~Plugged(h) /\ port[h] = "empty" /\ plugs < MaxPlugs
  /\ \E kind \in KindsAt[h] :
       /\ device' = [device EXCEPT ![h] = kind]
       /\ \E l \in CASE kind = "pad" -> Layouts [] kind \in SwitchPads -> {FakeLayout}
                     [] OTHER -> {PlainLayout} :
            layout' = [layout EXCEPT ![h] = l]
  /\ got' = [got EXCEPT ![h] = <<>>]
  /\ answer' = [answer EXCEPT ![h] = [name |-> "none", ep |-> 0]]
  /\ plugs' = plugs + 1
  /\ UNCHANGED <<infoVars, next_hub, hostVars>>

\* What hid_info and switch_info hold is from now on of an earlier device.
Unplug(h) ==
  /\ Plugged(h) /\ plugs < MaxPlugs
  /\ device' = [device EXCEPT ![h] = "none"]
  /\ hid_info' = [hid_info EXCEPT ![h].source =
       [f \in Fields |-> IF @[f] = "zero" THEN "zero" ELSE "before"]]
  /\ switch_info' = [switch_info EXCEPT ![h].left = IF @ = "zero" THEN @ ELSE "before"]
  /\ UNCHANGED <<usb_info, due, given, next_hub, hostVars, layout, got, answer, plugs>>

\* fsm sees that the port is empty.
Disconnect(h) ==
  /\ ~Plugged(h) /\ port[h] # "empty"
  /\ disconnected(h)
  /\ port' = [port EXCEPT ![h] = "empty"]
  /\ owner' = IF owner = h THEN NoHub ELSE owner
  /\ UNCHANGED <<next_hub, transfer, deviceVars>>

\* What the host does for a port it need not wait for the lock for.
HostStep(h) ==
  \/ Enumerates(h) \/ state_delay(h) \/ OutEnds(h) \/ ControlReadEnds(h)
  \/ InNaks(h) \/ InReports(h) \/ InOther(h) \/ InAnswers(h)
  \/ WaitEnds(h) \/ Disconnect(h)

Next ==
  \/ \E h \in Hubs : hid_poll(h) \/ state_set_address(h) \/ HostStep(h)
  \/ \E h \in Hubs : Plug(h) \/ Unplug(h)

Spec == Init /\ [][Next]_vars

-----------------------------------------------------------------------------
(* Properties.                                                             *)

\* The driver and the layout a port ends up with are those of the device that
\* is plugged in, whatever was there before: check_device_desc forgets the old
\* type, and each type writes or parses all the fields its reports are read
\* with.  (The META button of the Xbox pads is the exception: it keeps the bit
\* of an earlier device.)
RightType(h) ==
  hid_info[h].type \in
    CASE device[h] \in SwitchPads -> {"SWITCH"} [] device[h] = "ps3" -> {"PS3"}
      [] device[h] = "xbox360" -> {"XBOX_360"} [] device[h] = "xboxone" -> {"XBOX_ONE"}
      [] device[h] \in {"hub", "gun"} -> {"ZAPPER"}
      [] device[h] = "keyboard" -> {"KEYBOARD"} [] device[h] = "mouse" -> {"MOUSE"}
      [] OTHER -> {"UNKNOWN", "GENERIC", "PS4"}

Writers(h, f) ==
  CASE device[h] = "keyboard" -> IF f \in FieldsOf.keyboard THEN {"keyboard"} ELSE {}
    [] device[h] \in Xbox -> IF f = "meta" THEN {} ELSE {device[h]}
    [] device[h] \in {"hub", "gun"} -> {"gun"}
    [] device[h] \in SwitchPads -> IF f = "meta" THEN {"parsed"} ELSE {"switch"}
    [] device[h] = "ps3" -> IF f \in FieldsOf.ps3 THEN {"ps3"} ELSE {"parsed"}
    [] OTHER -> {"parsed"}

InUse(h) ==
  Plugged(h) /\ port[h] \in {"ready", "busy"}
  /\ hid_info[h].state \in {"READY", "SET_IDLE", "GET_REPORT"}

LayoutIsDevices ==
  \A h \in Hubs : InUse(h) =>
    /\ RightType(h)
    /\ \A f \in Fields : Writers(h, f) # {} => hid_info[h].source[f] \in Writers(h, f)
    /\ usb_info[h].ep_in = ReportEndpoint(device[h]) \/ device[h] = "hub"

\* check_hid_report_desc finds the controls where the descriptor puts them:
\* the hat, the known axes and the first 13 buttons of the first report with
\* controls, at their bits.
ReportParsed ==
  \A h \in Hubs :
    InUse(h) /\ device[h] = "pad" => Finds(hid_info[h].found, layout[h])

\* Every device gets the commands of its driver once each and in order, over
\* NAKs and packets that are no answers, and a Switch controller only after it
\* has given its last answer.
Protocol(kind) ==
  LET over(ep, names) == [i \in DOMAIN names |-> <<names[i], ep>>]
  IN CASE kind = "pro" -> over(1, Commands)
       [] kind = "grip" -> over(1, Commands) \o over(2, Commands)
       [] kind = "xbox360" -> over(2, <<"LED">>)
       [] kind = "xboxone" -> over(2, <<"INITIALIZE", "START">>)
       [] kind = "ps3" -> over(0, <<"SET_IDLE", "REPORT_01", "REPORT_F2", "REPORT_F5">>)
       [] kind = "hori" -> over(0, <<"SET_IDLE", "GET_REPORT">>)
       [] kind = "hub" -> over(0, <<"PORT_RESET", "C_PORT_RESET">>)
       [] kind = "gun" -> over(2, <<"KEY">>)
       [] OTHER -> <<>>
ProtocolFollowed ==
  \A h \in Hubs : Plugged(h) =>
    /\ IsPrefix(got[h], Protocol(device[h]))
    /\ owner = h /\ port[h] = "busy" /\ transfer.name # "in" => answer[h].name = "none"

\* The application gets reports only, once the device has had all its commands;
\* and of a charging grip one report of both halves, in which the left one is
\* not of an earlier device.
ReportsWhole ==
  \A h \in Hubs :
    /\ given'[h] # given[h] /\ given'[h].what # "gone" /\ hid_info[h].type \in Driven =>
         /\ given'[h].what = "report"
         /\ device[h] # "hub" => got[h] = Protocol(device[h])
         /\ hid_info[h].type = "SWITCH" =>
              /\ given'[h].ep = IF device[h] = "grip" THEN 2 ELSE 1
              /\ given'[h].left \in (IF device[h] = "grip" THEN {"zero", "now"} ELSE {"zero"})
OnlyWholeReports == [][ReportsWhole]_vars

\* hid_poll never leaves a driver waiting for a packet that nothing will bring:
\* when the port is ready, the driver has a call to make.
NoDeadEnd == \A h \in Hubs : InUse(h) /\ usb_host_ready(h) => ~awaits(h)
=============================================================================
