----------------------------- MODULE MCUsbHost -----------------------------
(***************************************************************************)
(* Instances of UsbHost for TLC: devices, answers and calls of the runs.   *)
(***************************************************************************)
EXTENDS UsbHost

\* A boot keyboard, low speed, that can wake the host.
Keyboard ==
  [class |-> "interface", hid |-> TRUE, boot |-> "SELECTED", strings |-> 0,
   ports |-> 0, wakeup |-> TRUE, slow |-> TRUE]
\* A game pad with a name.
Pad ==
  [class |-> "interface", hid |-> TRUE, boot |-> "NOT_SUPPORTED",
   strings |-> 1, ports |-> 0, wakeup |-> FALSE, slow |-> FALSE]
\* A boot mouse that declares HID in its device descriptor.
Mouse ==
  [class |-> "hid", hid |-> TRUE, boot |-> "SUPPORTED", strings |-> 0,
   ports |-> 0, wakeup |-> FALSE, slow |-> TRUE]
\* A hub with one port, as in a GunCon 3.
HubDevice ==
  [class |-> "hub", hid |-> FALSE, boot |-> "NOT_SUPPORTED", strings |-> 0,
   ports |-> 1, wakeup |-> FALSE, slow |-> FALSE]

OnePad == {Pad}
OneKeyboard == {Keyboard}
PadAndMouse == {Pad, Mouse}
HubAndPad == {HubDevice, Pad}

\* A hub is on port 1, and has the bus to itself and the device behind it.
OneIfHub ==
  /\ device[0] # HubDevice
  /\ device[1] = HubDevice => device[0] = NoDevice

AllCalls == {"setup", "in", "in_data0", "out", "hid_get_report", "hub_switch"}
AllOnPort1 == [h \in Hubs |-> IF h = 1 THEN AllCalls ELSE {"in"}]
InOnly == [h \in Hubs |-> {"in"}]
NoCalls == [h \in Hubs |-> {}]

\* Requests whose STALL is harmless: the next state gives the lock back anyway.
LastRequests ==
  {"SET_ADDRESS_DONE", "GET_HID_REPORT_DESC_RECV", "DONE", "IN_RECV",
   "OUT_DONE", "HID_GET_REPORT"}

\* The same, of a device that takes the address it is given.
RequestsWithAddress == LastRequests \ {"SET_ADDRESS_DONE"}

\* Requests of an enumeration a device need not support.
OptionalRequests ==
  {"EXTRA_SETUP", "HID_SET_PROTOCOL_DONE", "GET_STRING_DESC_RECV"}
=============================================================================
