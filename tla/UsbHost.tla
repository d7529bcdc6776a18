------------------------------ MODULE UsbHost ------------------------------
(***************************************************************************)
(* The USB host of chlib: src/usb/usb_host.c.  Two root hub ports share    *)
(* one host controller and one transaction context.  Each port has a state *)
(* machine that the main loop polls; a port that talks to its device must  *)
(* own `transaction_lock'.  The model interleaves                          *)
(*   - the main loop, which calls usb_host_poll() for ever and, between    *)
(*     two polls, the public functions of the module (App turns);        *)
(*   - the state machine fsm(h) of each port, one call per step;           *)
(*   - the host controller and the devices (transfers complete, devices    *)
(*     come and go).                                                       *)
(* Payloads are abstracted to what the state machine branches on.          *)
(***************************************************************************)
EXTENDS Naturals, FiniteSets

CONSTANTS
  Hubs,        \* the ports in usb_host.flags: a subset of {0, 1}
  NoHub,       \* transaction_lock = -1
  App,         \* the main loop outside usb_host_poll()
  Devices,     \* the devices that may be plugged in
  NoDevice,    \* an empty port
  Unpluggable, \* the ports whose device may be pulled out
  MaxUnplugs,  \* bound: how often that happens
  Answers,     \* how a transfer may end: ACK, NAK, STALL, TIMEOUT, ERROR
  StallAt,     \* the states in whose requests the device may answer STALL
  Calls,       \* per port, the functions of usb_host.h the application calls
  Overlong,    \* may a device send more than it was asked for?
  MaxPackets,  \* bound: packets in the data stage of one request
  SIZES        \* bound: transaction_size counts modulo SIZES (2^16 bytes)

\* The states a finished transfer continues in (transaction_recv_state).
RecvStates ==
  {"SET_ADDRESS_DONE", "GET_DEVICE_DESC_RECV", "GET_STRING_DESC_RECV",
   "GET_CONFIGURATION_DESC_RECV", "SET_CONFIGURATION_DONE", "EXTRA_SETUP",
   "GET_HID_REPORT_DESC_RECV", "HID_SET_PROTOCOL_DONE", "GET_HUB_DESC_RECV",
   "SET_PORT_POWER_FEATURE_DONE", "CLEAR_PORT_CONNECTION_FEATURE_DONE",
   "DONE", "IN_RECV", "OUT_DONE", "HID_GET_REPORT"}

SendStates ==
  {"SET_ADDRESS", "GET_DEVICE_DESC", "GET_STRING_DESC",
   "GET_CONFIGURATION_DESC", "SET_CONFIGURATION", "SET_FEATURE",
   "GET_HID_REPORT_DESC", "HID_SET_PROTOCOL", "GET_HUB_DESC",
   "SET_PORT_POWER_FEATURE", "CLEAR_PORT_CONNECTION_FEATURE"}

StageStates ==
  {"TRANSACTION_IN", "TRANSACTION_OUT", "TRANSACTION_CONT",
   "TRANSACTION_RETRY"}

\* STATE_DELAY_US and STATE_DELAY_MS differ in their unit only: "DELAY".
States ==
  {"IDLE", "CONNECT", "RESET", "ENABLE", "READY", "HALT", "DELAY",
   "TRANSACTION"} \cup SendStates \cup RecvStates \cup StageStates

Boots == {"NOT_SUPPORTED", "SUPPORTED", "SELECTED"}
Addresses == 0..4      \* 1 + hub, and 3 + hub behind a hub (hid_guncon3.c)

\* What the state machine reads from the descriptors of a device.
DeviceType ==
  [class : {"hid", "hub", "interface"}, hid : BOOLEAN, boot : Boots,
   strings : 0..3, ports : Nat, wakeup : BOOLEAN, slow : BOOLEAN]

ASSUME HubsAssumption ==
  Hubs \subseteq {0, 1} /\ Hubs # {} /\ NoHub \notin Hubs /\ App \notin Hubs
ASSUME DevicesAssumption == 
  Devices \subseteq DeviceType /\ Devices # {} /\ NoDevice \notin DeviceType
ASSUME EnvironmentAssumption ==
  /\ Unpluggable \subseteq Hubs
  /\ Answers \subseteq {"ACK", "NAK", "STALL", "TIMEOUT", "ERROR"}
  /\ "ACK" \in Answers
  /\ StallAt \subseteq RecvStates
  /\ MaxPackets \in Nat \ {0} /\ MaxUnplugs \in Nat
  /\ SIZES \in Nat /\ SIZES > MaxPackets /\ Overlong \in BOOLEAN

VARIABLES
  turn,                   \* who runs: App, or the hub fsm() is called for
  \* per port
  state, delay_next_state,
  initial_check, resetting, no_remote_wakeup, is_hid, hid_boot, hub_ports,
  hub_address, do_not_retry,
  bulk_out_toggle,        \* of the one bulk OUT endpoint modelled
  \* the transaction context, shared by the ports
  transaction_lock, transaction_recv_state, transaction_pid,
  transaction_stage, transaction_size, tx_request,
  \* the request templates, shared by the ports
  string_index,           \* how many string descriptors are still to be read
  full,                   \* the descriptors whose wLength was raised to "full"
  address,                \* set_address_descriptor.wValue
  port,                   \* wIndex of the port feature requests
  \* the host controller
  UH_EP_PID,              \* a transfer is being issued
  token,                  \* how the transfer has ended; "none" while
                          \* UIF_TRANSFER is clear
  USB_DEV_AD, USB_CTRL,   \* target address, low speed bit
  UHUB_CTRL,              \* per port: low speed bit
  \* the devices
  device,                 \* NoDevice: nothing attached
  device_address, device_toggle, unplugs,
  \* history: who issued the transfer, and how the last request ended
  issuer, outcome

delayVars == <<state, delay_next_state>>
deviceInfo == <<no_remote_wakeup, is_hid, hid_boot, hub_ports>>
portVars == <<initial_check, resetting, hub_address, UHUB_CTRL>>
transferVars ==
  <<transaction_recv_state, transaction_pid, transaction_stage,
    transaction_size, tx_request, UH_EP_PID, token, issuer>>
lockVars == <<transaction_lock, USB_DEV_AD, USB_CTRL>>
templates == <<string_index, full, address, port>>
deviceVars == <<device, device_address, device_toggle, unplugs>>
vars ==
  <<turn, delayVars, deviceInfo, portVars, transferVars, lockVars, templates,
    deviceVars, do_not_retry, bulk_out_toggle, outcome>>

-----------------------------------------------------------------------------
(* usb_host_init *)

Init ==
  /\ turn = App
  /\ state = [h \in Hubs |-> "IDLE"]
  /\ delay_next_state = [h \in Hubs |-> "IDLE"]
  /\ initial_check = [h \in Hubs |-> FALSE]
  /\ resetting = [h \in Hubs |-> FALSE]
  /\ no_remote_wakeup = [h \in Hubs |-> FALSE]
  /\ is_hid = [h \in Hubs |-> FALSE]
  /\ hid_boot = [h \in Hubs |-> "NOT_SUPPORTED"]
  /\ hub_ports = [h \in Hubs |-> 0]
  /\ hub_address = [h \in Hubs |-> 0]
  /\ do_not_retry = [h \in Hubs |-> FALSE]
  /\ bulk_out_toggle = [h \in Hubs |-> FALSE]
  /\ transaction_lock = NoHub
  /\ transaction_recv_state = "IDLE"
  /\ transaction_pid = "SETUP"
  /\ transaction_stage = 0
  /\ transaction_size = 0
  /\ tx_request = [dir |-> "OUT", data |-> FALSE]
  /\ string_index = 0 /\ full = {} /\ address = 0 /\ port = 0
  /\ UH_EP_PID = FALSE /\ token = "none"
  /\ USB_DEV_AD = 0 /\ USB_CTRL = FALSE
  /\ UHUB_CTRL = [h \in Hubs |-> FALSE]
  /\ device = [h \in Hubs |-> NoDevice]
  /\ device_address = [h \in Hubs |-> 0]
  /\ device_toggle = [h \in Hubs |-> FALSE]
  /\ unplugs = 0
  /\ issuer = NoHub
  /\ outcome = "ok"

-----------------------------------------------------------------------------
(* Control: usb_host_poll(), delays, the lock *)

\* usb_host_poll: while (fsm(0)); while (fsm(1)); and back to the caller.
FirstTurn == IF 0 \in Hubs THEN 0 ELSE 1
TurnAfter(h) == IF h = 0 /\ 1 \in Hubs THEN 1 ELSE App
Return(h, again) == turn' = IF again THEN h ELSE TurnAfter(h)

\* bUHS_H0_ATTACH, bUHS_H1_ATTACH
attach(h) == device[h] # NoDevice

\* fsm(h) looks for a detached device first, unless a bus reset is going on.
Detached(h) == state[h] # "IDLE" /\ ~resetting[h] /\ ~attach(h)
In(h, s) == turn = h /\ state[h] = s /\ ~Detached(h)

\* delay_next_state is read in "DELAY" only; elsewhere the model forgets it.
goto(h, s) ==
  /\ state' = [state EXCEPT ![h] = s]
  /\ delay_next_state' = [delay_next_state EXCEPT ![h] = "IDLE"]

\* delay_us, delay_ms
delay(h, s) ==
  /\ state' = [state EXCEPT ![h] = "DELAY"]
  /\ delay_next_state' = [delay_next_state EXCEPT ![h] = s]

\* Mutant: the lock is never looked at.
never_locked == FALSE

is_transaction_locked == transaction_lock # NoHub

\* Mutant: the controller keeps the speed of the last port.
lock_keeps_speed(h, target) ==
  /\ transaction_lock' = h
  /\ UNCHANGED USB_CTRL
  /\ USB_DEV_AD' = target

lock_transaction(h, target) ==
  /\ transaction_lock' = h
  /\ USB_CTRL' = UHUB_CTRL[h]
  /\ USB_DEV_AD' = target

\* Mutants: whoever owns the lock loses it; the lock is kept.
unlock_any(h) == transaction_lock' = NoHub
unlock_none(h) == UNCHANGED transaction_lock

unlock_transaction(h) ==
  transaction_lock' = IF transaction_lock = h THEN NoHub ELSE transaction_lock

\* The device address the public functions lock for.
AddressOf(h) == IF hub_address[h] # 0 THEN hub_address[h] ELSE 1 + h

usb_host_ready(h) == state[h] = "READY" /\ ~is_transaction_locked

-----------------------------------------------------------------------------
(* Starting transfers *)

\* host_transact and host_transact_cont.  Of n packets an OUT transfer has one
\* on its way at once, an IN transfer counts a packet when it has arrived.
host_transact(h, n, recv, pid, stage) ==
  /\ transaction_size' = IF pid = "OUT" /\ n > 0 THEN n - 1 ELSE n
  /\ transaction_recv_state' = recv
  /\ transaction_pid' = pid
  /\ transaction_stage' = stage
  /\ UH_EP_PID' = TRUE
  /\ token' = "none"
  /\ issuer' = h
  /\ goto(h, "TRANSACTION")

\* host_setup_transfer: request is what tx_buffer holds, its direction and
\* whether it has a data stage.
host_setup_transfer(h, dir, data, recv) ==
  /\ host_transact(h, 0, recv, "SETUP", 0)
  /\ tx_request' = [dir |-> dir, data |-> data]

\* A state that only sends a request to the device: it owns the lock already.
send(h, dir, data, recv) ==
  /\ host_setup_transfer(h, dir, data, recv)
  /\ Return(h, FALSE)
  /\ UNCHANGED <<deviceInfo, portVars, lockVars, templates, deviceVars,
                 do_not_retry, bulk_out_toggle, outcome>>

\* A state that only waits before the port goes on in s.
pause(h, s) ==
  /\ delay(h, s)
  /\ Return(h, FALSE)
  /\ UNCHANGED <<transferVars, deviceVars, do_not_retry, outcome>>

-----------------------------------------------------------------------------
(* fsm(h): polls that find nothing to do, and a detached device *)

Wait(h) ==
  /\ turn = h /\ ~Detached(h)
  /\ \/ state[h] \in {"READY", "HALT", "DELAY"}
     \/ state[h] \in {"IDLE", "ENABLE"} /\ ~attach(h)
     \/ state[h] = "TRANSACTION" /\ token = "none"
     \/ state[h] = "SET_ADDRESS" /\ is_transaction_locked
     \/ /\ state[h] = "GET_DEVICE_DESC"
        /\ initial_check[h] /\ is_transaction_locked
  /\ Return(h, FALSE)
  /\ UNCHANGED <<delayVars, deviceInfo, portVars, transferVars, lockVars,
                 templates, deviceVars, do_not_retry, bulk_out_toggle,
                 outcome>>

\* state_delay_us, state_delay_ms: timer 3 has left the interval of the delay
\* (module Delay).
DelayEnds(h) ==
  /\ In(h, "DELAY")
  /\ goto(h, delay_next_state[h])
  /\ Return(h, TRUE)
  /\ UNCHANGED <<deviceInfo, portVars, transferVars, lockVars, templates,
                 deviceVars, do_not_retry, bulk_out_toggle, outcome>>

\* The head of fsm(): it stops the controller, whoever is using it.
Disconnect(h) ==
  /\ turn = h /\ Detached(h)
  /\ goto(h, "IDLE")
  /\ UH_EP_PID' = FALSE
  /\ UHUB_CTRL' = [UHUB_CTRL EXCEPT ![h] = FALSE]
  /\ USB_CTRL' = FALSE
  /\ unlock_transaction(h)
  /\ Return(h, FALSE)
  /\ UNCHANGED <<deviceInfo, initial_check, resetting, hub_address,
                 transaction_recv_state, transaction_pid, transaction_stage,
                 transaction_size, tx_request, token, issuer,
                 USB_DEV_AD, templates, deviceVars, do_not_retry,
                 bulk_out_toggle, outcome>>

-----------------------------------------------------------------------------
(* fsm(h): reset and address *)

state_idle(h) ==
  /\ In(h, "IDLE") /\ attach(h)
  /\ pause(h, "CONNECT")
  /\ UNCHANGED <<deviceInfo, portVars, lockVars, templates, bulk_out_toggle>>

\* The bus reset of state_connect; the device answers at address 0 again.
bus_reset(h, check) ==
  /\ resetting' = [resetting EXCEPT ![h] = TRUE]
  /\ UHUB_CTRL' = [UHUB_CTRL EXCEPT ![h] = FALSE]
  /\ initial_check' = [initial_check EXCEPT ![h] = check]
  /\ hub_address' = [hub_address EXCEPT ![h] = 0]
  /\ device_address' = [device_address EXCEPT ![h] = 0]
  /\ device_toggle' = [device_toggle EXCEPT ![h] = FALSE]
  /\ delay(h, "RESET")
  /\ Return(h, FALSE)
  /\ UNCHANGED <<device, unplugs, transferVars, do_not_retry, outcome>>

state_connect(h) ==
  /\ In(h, "CONNECT")
  /\ bus_reset(h, TRUE)
  /\ UNCHANGED <<deviceInfo, lockVars, templates, bulk_out_toggle>>

state_reset(h) ==
  /\ In(h, "RESET")
  /\ pause(h, "ENABLE")
  /\ UNCHANGED <<deviceInfo, portVars, lockVars, templates, bulk_out_toggle>>

state_enable(h) ==
  /\ In(h, "ENABLE") /\ attach(h)
  /\ resetting' = [resetting EXCEPT ![h] = FALSE]
  /\ UHUB_CTRL' = [UHUB_CTRL EXCEPT ![h] = @ \/ device[h].slow]
  /\ pause(h, IF initial_check[h] THEN "GET_DEVICE_DESC" ELSE "SET_ADDRESS")
  /\ UNCHANGED <<initial_check, hub_address, deviceInfo, lockVars, templates,
                 bulk_out_toggle>>

\* Mutant: a device behind a hub gets the address of the port.
set_address_of_port(h) ==
  /\ In(h, "SET_ADDRESS") /\ ~is_transaction_locked
  /\ lock_transaction(h, 0)
  /\ address' = 1 + h
  /\ host_setup_transfer(h, "OUT", FALSE, "SET_ADDRESS_DONE")
  /\ Return(h, FALSE)
  /\ UNCHANGED <<deviceInfo, portVars, string_index, full, port, deviceVars,
                 do_not_retry, bulk_out_toggle, outcome>>

state_set_address(h) ==
  /\ In(h, "SET_ADDRESS") /\ ~is_transaction_locked
  /\ lock_transaction(h, 0)
  /\ address' = AddressOf(h)
  /\ host_setup_transfer(h, "OUT", FALSE, "SET_ADDRESS_DONE")
  /\ Return(h, FALSE)
  /\ UNCHANGED <<deviceInfo, portVars, string_index, full, port, deviceVars,
                 do_not_retry, bulk_out_toggle, outcome>>

\* Mutant: the lock is not taken again.
set_address_done_unlocks(h) ==
  /\ In(h, "SET_ADDRESS_DONE")
  /\ unlock_transaction(h)
  /\ pause(h, "GET_DEVICE_DESC")
  /\ UNCHANGED <<USB_DEV_AD, USB_CTRL, deviceInfo, portVars, templates,
                 bulk_out_toggle>>

\* Unlocks, and locks again for the new address if nobody else has the lock.
state_set_address_done(h) ==
  /\ In(h, "SET_ADDRESS_DONE")
  /\ IF transaction_lock \in {h, NoHub}
     THEN lock_transaction(h, address)
     ELSE UNCHANGED lockVars
  /\ pause(h, "GET_DEVICE_DESC")
  /\ UNCHANGED <<deviceInfo, portVars, templates, bulk_out_toggle>>

-----------------------------------------------------------------------------
(* fsm(h): descriptors *)

state_get_device_desc(h) ==
  /\ In(h, "GET_DEVICE_DESC")
  /\ IF initial_check[h]
     THEN ~is_transaction_locked /\ lock_transaction(h, 0)
     ELSE UNCHANGED lockVars
  /\ host_setup_transfer(h, "IN", TRUE, "GET_DEVICE_DESC_RECV")
  /\ Return(h, FALSE)
  /\ UNCHANGED <<deviceInfo, portVars, templates, deviceVars, do_not_retry,
                 bulk_out_toggle, outcome>>

\* Mutant: the port resets for ever.
initial_check_again(h) ==
  /\ In(h, "GET_DEVICE_DESC_RECV") /\ initial_check[h]
  /\ unlock_transaction(h)
  /\ bus_reset(h, TRUE)
  /\ UNCHANGED <<USB_DEV_AD, USB_CTRL, deviceInfo, templates,
                 bulk_out_toggle>>

\* The 8 byte read that finds bMaxPacketSize0 is over: reset again, this time
\* to go on to SET_ADDRESS.
InitialCheckDone(h) ==
  /\ In(h, "GET_DEVICE_DESC_RECV") /\ initial_check[h]
  /\ unlock_transaction(h)
  /\ bus_reset(h, FALSE)
  /\ UNCHANGED <<USB_DEV_AD, USB_CTRL, deviceInfo, templates,
                 bulk_out_toggle>>

\* The descriptor in `buffer': the device's own if it has answered, otherwise
\* what an earlier transfer, maybe of another device, has left there.
Buffered(h) == IF outcome = "ok" THEN {device[h]} ELSE Devices

state_get_device_desc_recv(h) ==
  /\ In(h, "GET_DEVICE_DESC_RECV") /\ ~initial_check[h]
  /\ \E desc \in Buffered(h) :
       /\ is_hid' = [is_hid EXCEPT ![h] = desc.class = "hid"]
       /\ hid_boot' = [hid_boot EXCEPT ![h] =
                         IF desc.class = "hid" THEN desc.boot
                         ELSE "NOT_SUPPORTED"]
       /\ hub_ports' = [hub_ports EXCEPT ![h] =
                          IF desc.class = "hub" THEN 1 ELSE 0]
       /\ string_index' = desc.strings
  /\ full' = {}
  /\ pause(h, "GET_STRING_DESC")
  /\ UNCHANGED <<no_remote_wakeup, portVars, lockVars, address, port,
                 bulk_out_toggle>>

state_get_string_desc(h) ==
  /\ In(h, "GET_STRING_DESC")
  /\ IF string_index > 0
     THEN send(h, "IN", TRUE, "GET_STRING_DESC_RECV")
     ELSE /\ goto(h, "GET_CONFIGURATION_DESC")
          /\ Return(h, TRUE)
          /\ UNCHANGED <<deviceInfo, portVars, transferVars, lockVars,
                         templates, deviceVars, do_not_retry,
                         bulk_out_toggle, outcome>>

\* The two byte core tells the length: 2 if the string is empty; a STALL makes
\* it 0 (buffer[0] = 0).
state_get_string_desc_recv(h) ==
  /\ In(h, "GET_STRING_DESC_RECV")
  /\ \/ /\ "string" \notin full /\ outcome # "stall"
        /\ full' = full \cup {"string"}
        /\ pause(h, "GET_STRING_DESC")
        /\ UNCHANGED string_index
     \/ /\ string_index' = IF string_index > 0 THEN string_index - 1 ELSE 0
        /\ IF string_index > 1
           THEN full' = full \ {"string"} /\ pause(h, "GET_STRING_DESC")
           ELSE UNCHANGED full /\ pause(h, "GET_CONFIGURATION_DESC")
  /\ UNCHANGED <<deviceInfo, portVars, lockVars, address, port,
                 bulk_out_toggle>>

state_get_configuration_desc(h) ==
  /\ In(h, "GET_CONFIGURATION_DESC")
  /\ send(h, "IN", TRUE, "GET_CONFIGURATION_DESC_RECV")

\* The nine byte core is never the whole descriptor of a device.
state_get_configuration_desc_recv(h) ==
  /\ In(h, "GET_CONFIGURATION_DESC_RECV")
  /\ \/ /\ "configuration" \notin full
        /\ full' = full \cup {"configuration"}
        /\ pause(h, "GET_CONFIGURATION_DESC")
        /\ UNCHANGED deviceInfo
     \/ /\ "configuration" \in full \/ outcome # "ok"
        /\ \E desc \in Buffered(h) :
             /\ no_remote_wakeup' =
                  [no_remote_wakeup EXCEPT ![h] = ~desc.wakeup]
             /\ is_hid' = [is_hid EXCEPT ![h] = @ \/ desc.hid]
             /\ hid_boot' =
                  [hid_boot EXCEPT ![h] =
                     IF desc.hid /\ desc.boot # "NOT_SUPPORTED"
                     THEN desc.boot ELSE @]
        /\ pause(h, "SET_CONFIGURATION")
        /\ UNCHANGED <<full, hub_ports>>
  /\ UNCHANGED <<portVars, lockVars, string_index, address, port,
                 bulk_out_toggle>>

-----------------------------------------------------------------------------
(* fsm(h): configuration, HID and hub set-up *)

state_set_configuration(h) ==
  /\ In(h, "SET_CONFIGURATION")
  /\ send(h, "OUT", FALSE, "SET_CONFIGURATION_DONE")

\* Mutant: the data toggles are not reset.
set_configuration_keeps_toggle(h) ==
  /\ In(h, "SET_CONFIGURATION_DONE")
  /\ pause(h, "SET_FEATURE")
  /\ UNCHANGED <<deviceInfo, portVars, lockVars, templates, bulk_out_toggle>>

state_set_configuration_done(h) ==
  /\ In(h, "SET_CONFIGURATION_DONE")
  /\ bulk_out_toggle' = [bulk_out_toggle EXCEPT ![h] = FALSE]
  /\ pause(h, "SET_FEATURE")
  /\ UNCHANGED <<deviceInfo, portVars, lockVars, templates>>

\* A NAK ends this request: do_not_retry.
state_set_feature(h) ==
  /\ In(h, "SET_FEATURE")
  /\ LET next == IF is_hid[h] \/ hub_ports[h] > 0
                 THEN "EXTRA_SETUP" ELSE "DONE" IN
     IF no_remote_wakeup[h]
     THEN /\ goto(h, next)
          /\ Return(h, TRUE)
          /\ UNCHANGED <<transferVars, do_not_retry>>
     ELSE /\ do_not_retry' = [do_not_retry EXCEPT ![h] = TRUE]
          /\ host_setup_transfer(h, "OUT", FALSE, next)
          /\ Return(h, FALSE)
  /\ UNCHANGED <<deviceInfo, portVars, lockVars, templates, deviceVars,
                 bulk_out_toggle, outcome>>

state_extra_setup(h) ==
  /\ In(h, "EXTRA_SETUP")
  /\ pause(h, CASE hub_ports[h] > 0 -> "GET_HUB_DESC"
                [] hub_ports[h] = 0 /\ hid_boot[h] # "NOT_SUPPORTED" ->
                     "HID_SET_PROTOCOL"
                [] OTHER -> "GET_HID_REPORT_DESC")
  /\ UNCHANGED <<deviceInfo, portVars, lockVars, templates, bulk_out_toggle>>

state_get_hid_report_desc(h) ==
  /\ In(h, "GET_HID_REPORT_DESC")
  /\ send(h, "IN", TRUE, "GET_HID_REPORT_DESC_RECV")

state_hid_set_protocol(h) ==
  /\ In(h, "HID_SET_PROTOCOL")
  /\ send(h, "OUT", FALSE, "HID_SET_PROTOCOL_DONE")

state_hid_set_protocol_done(h) ==
  /\ In(h, "HID_SET_PROTOCOL_DONE")
  /\ pause(h, IF hid_boot[h] = "SELECTED" THEN "DONE"
              ELSE "GET_HID_REPORT_DESC")
  /\ UNCHANGED <<deviceInfo, portVars, lockVars, templates, bulk_out_toggle>>

state_get_hub_desc(h) ==
  /\ In(h, "GET_HUB_DESC")
  /\ send(h, "IN", TRUE, "GET_HUB_DESC_RECV")

\* The eight byte core is never the whole descriptor of a hub.
state_get_hub_desc_recv(h) ==
  /\ In(h, "GET_HUB_DESC_RECV")
  /\ \/ /\ "hub" \notin full
        /\ full' = full \cup {"hub"}
        /\ pause(h, "GET_HUB_DESC")
        /\ UNCHANGED <<hub_ports, port>>
     \/ /\ "hub" \in full \/ outcome # "ok"
        /\ \E desc \in Buffered(h) :
             hub_ports' = [hub_ports EXCEPT ![h] = desc.ports]
        /\ port' = 1
        /\ pause(h, "SET_PORT_POWER_FEATURE")
        /\ UNCHANGED full
  /\ UNCHANGED <<no_remote_wakeup, is_hid, hid_boot, portVars, lockVars,
                 string_index, address, bulk_out_toggle>>

state_set_port_power_feature(h) ==
  /\ In(h, "SET_PORT_POWER_FEATURE")
  /\ IF port > hub_ports[h]
     THEN /\ port' = 1
          /\ pause(h, "CLEAR_PORT_CONNECTION_FEATURE")
          /\ UNCHANGED <<deviceInfo, portVars, lockVars, string_index, full,
                         address, bulk_out_toggle>>
     ELSE send(h, "OUT", FALSE, "SET_PORT_POWER_FEATURE_DONE")

state_clear_port_connection_feature(h) ==
  /\ In(h, "CLEAR_PORT_CONNECTION_FEATURE")
  /\ IF port > hub_ports[h]
     THEN /\ goto(h, "DONE")
          /\ Return(h, TRUE)
          /\ UNCHANGED <<deviceInfo, portVars, transferVars, lockVars,
                         templates, deviceVars, do_not_retry,
                         bulk_out_toggle, outcome>>
     ELSE send(h, "OUT", FALSE, "CLEAR_PORT_CONNECTION_FEATURE_DONE")

next_port(h, s) ==
  /\ port' = port + 1
  /\ pause(h, s)
  /\ UNCHANGED <<deviceInfo, portVars, lockVars, string_index, full, address,
                 bulk_out_toggle>>

state_set_port_power_feature_done(h) ==
  /\ In(h, "SET_PORT_POWER_FEATURE_DONE")
  /\ next_port(h, "SET_PORT_POWER_FEATURE")

state_clear_port_connection_feature_done(h) ==
  /\ In(h, "CLEAR_PORT_CONNECTION_FEATURE_DONE")
  /\ next_port(h, "CLEAR_PORT_CONNECTION_FEATURE")

-----------------------------------------------------------------------------
(* fsm(h): the states that give the lock back *)

\* state_get_hid_report_desc_recv and state_done
EnumerationEnds(h) ==
  /\ In(h, "GET_HID_REPORT_DESC_RECV") \/ In(h, "DONE")
  /\ unlock_transaction(h)
  /\ pause(h, "READY")
  /\ UNCHANGED <<USB_DEV_AD, USB_CTRL, deviceInfo, portVars, templates,
                 bulk_out_toggle>>

\* Mutant: no delay before the port is ready.
report_without_delay(h) ==
  /\ In(h, "IN_RECV") \/ In(h, "HID_GET_REPORT")
  /\ do_not_retry' = [do_not_retry EXCEPT ![h] = FALSE]
  /\ unlock_transaction(h)
  /\ goto(h, "READY")
  /\ Return(h, FALSE)
  /\ UNCHANGED <<USB_DEV_AD, USB_CTRL, deviceInfo, portVars, transferVars,
                 templates, deviceVars, bulk_out_toggle, outcome>>

\* state_in_recv and state_hid_get_report: the data is passed on, and a NAK
\* that ended the request is forgotten.
ReportArrives(h) ==
  /\ In(h, "IN_RECV") \/ In(h, "HID_GET_REPORT")
  /\ do_not_retry' = [do_not_retry EXCEPT ![h] = FALSE]
  /\ unlock_transaction(h)
  /\ delay(h, "READY")
  /\ Return(h, FALSE)
  /\ UNCHANGED <<USB_DEV_AD, USB_CTRL, deviceInfo, portVars, transferVars,
                 templates, deviceVars, bulk_out_toggle, outcome>>

state_out_done(h) ==
  /\ In(h, "OUT_DONE")
  /\ unlock_transaction(h)
  /\ pause(h, "READY")
  /\ UNCHANGED <<USB_DEV_AD, USB_CTRL, deviceInfo, portVars, templates,
                 bulk_out_toggle>>

-----------------------------------------------------------------------------
(* fsm(h): state_transaction, the end of a transfer *)

Ended(h) ==
  /\ In(h, "TRANSACTION") /\ token # "none"
  /\ UH_EP_PID' = FALSE
  /\ UNCHANGED <<deviceInfo, portVars, templates, deviceVars, token,
                 USB_DEV_AD, USB_CTRL, issuer, tx_request,
                 transaction_recv_state, transaction_pid>>

\* Goes on at once in the state the request was made for.
finish(h, how) ==
  /\ goto(h, transaction_recv_state)
  /\ Return(h, TRUE)
  /\ outcome' = how

\* A STALL gives the lock back, whatever the request was part of.
TransferStalls(h) ==
  /\ Ended(h) /\ token = "STALL"
  /\ unlock_transaction(h)
  /\ finish(h, "stall")
  /\ UNCHANGED <<transaction_stage, transaction_size, do_not_retry,
                 bulk_out_toggle>>

\* USB_RX_LEN: 0 for an empty packet, 1 for one with data.  It is left over
\* from an earlier packet when there was no answer.
RxLengths ==
  IF token = "ACK" /\ ~Overlong
  THEN {n \in {0, 1} : n <= transaction_size} ELSE {0, 1}

\* Mutant: the size is kept in a type that becomes negative.
left_signed(received) ==
  IF transaction_pid = "IN" THEN transaction_size - received
  ELSE transaction_size

\* The packets of the data stage not seen yet when this one has ended.  Nothing
\* compares them with what has arrived: the size wraps below 0.
Left(received) ==
  IF transaction_pid = "IN" THEN (transaction_size + SIZES - received) % SIZES
  ELSE transaction_size

\* The direction of the data stage of the request, or of this transfer.
Direction ==
  IF transaction_pid = "SETUP" THEN tx_request.dir ELSE transaction_pid

\* A full packet is followed by the next one, a SETUP by its data stage, stage
\* 0 by the status stage.
GoesOnAfter(h, received) ==
  /\ transaction_size' = Left(received)
  /\ \/ /\ Left(received) # 0
        /\ transaction_pid = "IN" => received = 1
        /\ delay(h, "TRANSACTION_CONT") /\ Return(h, FALSE)
        /\ UNCHANGED <<transaction_stage, do_not_retry, bulk_out_toggle,
                       outcome>>
     \/ /\ transaction_pid = "SETUP" /\ tx_request.data
        /\ delay(h, IF Direction = "IN" THEN "TRANSACTION_IN"
                    ELSE "TRANSACTION_OUT")
        /\ Return(h, FALSE)
        /\ UNCHANGED <<transaction_stage, do_not_retry, bulk_out_toggle,
                       outcome>>
     \/ /\ ~(transaction_pid = "SETUP" /\ tx_request.data)
        /\ transaction_stage = 0
        /\ transaction_stage' = 1
        /\ delay(h, IF Direction = "IN" THEN "TRANSACTION_OUT"
                    ELSE "TRANSACTION_IN")
        /\ Return(h, FALSE)
        /\ UNCHANGED <<do_not_retry, bulk_out_toggle, outcome>>
     \/ /\ ~(transaction_pid = "SETUP" /\ tx_request.data)
        /\ transaction_stage # 0
        /\ finish(h, IF token = "ACK" THEN "ok" ELSE "timeout")
        /\ do_not_retry' = [do_not_retry EXCEPT ![h] = FALSE]
        /\ bulk_out_toggle' =
             [bulk_out_toggle EXCEPT ![h] =
                IF transaction_recv_state = "OUT_DONE" THEN ~@ ELSE @]
        /\ UNCHANGED transaction_stage

\* Token 0, no answer at all, counts as success.
TransferSucceeds(h) ==
  /\ Ended(h) /\ token \in {"ACK", "TIMEOUT"}
  /\ \E received \in RxLengths : GoesOnAfter(h, received)
  /\ UNCHANGED transaction_lock

\* Mutant: no IN transfer is retried.
in_naks_end(h) ==
  /\ Ended(h) /\ token = "NAK"
  /\ IF do_not_retry[h] \/ transaction_pid = "IN"
     THEN finish(h, "nak")
     ELSE /\ delay(h, "TRANSACTION_RETRY") /\ Return(h, FALSE)
          /\ UNCHANGED outcome
  /\ UNCHANGED <<transaction_lock, transaction_stage, transaction_size,
                 do_not_retry, bulk_out_toggle>>

TransferNaks(h) ==
  /\ Ended(h) /\ token = "NAK"
  /\ IF do_not_retry[h]
     THEN finish(h, "nak")
     ELSE /\ delay(h, "TRANSACTION_RETRY") /\ Return(h, FALSE)
          /\ UNCHANGED outcome
  /\ UNCHANGED <<transaction_lock, transaction_stage, transaction_size,
                 do_not_retry, bulk_out_toggle>>

\* halt: the port keeps what it has, the lock included.
TransferFails(h) ==
  /\ Ended(h) /\ token = "ERROR"
  /\ goto(h, "HALT")
  /\ Return(h, FALSE)
  /\ UNCHANGED <<transaction_lock, transaction_stage, transaction_size,
                 do_not_retry, bulk_out_toggle, outcome>>

\* state_transaction_in, state_transaction_out: the data stage (stage 0) has
\* up to MaxPackets packets, the status stage none.
NextStage(h) ==
  /\ \E pid \in {"IN", "OUT"} :
       /\ In(h, IF pid = "IN" THEN "TRANSACTION_IN" ELSE "TRANSACTION_OUT")
       /\ \E n \in 1..MaxPackets :
            host_transact(h, IF transaction_stage = 1 THEN 0 ELSE n,
                          transaction_recv_state, pid, transaction_stage)
  /\ Return(h, FALSE)
  /\ UNCHANGED <<deviceInfo, portVars, lockVars, templates, deviceVars,
                 do_not_retry, bulk_out_toggle, outcome, tx_request>>

\* state_transaction_cont: the next packet.
state_transaction_cont(h) ==
  /\ In(h, "TRANSACTION_CONT")
  /\ host_transact(h, transaction_size, transaction_recv_state,
                   transaction_pid, transaction_stage)
  /\ Return(h, FALSE)
  /\ UNCHANGED <<deviceInfo, portVars, lockVars, templates, deviceVars,
                 do_not_retry, bulk_out_toggle, outcome, tx_request>>

\* Mutant: the retried transfer is not started.
retry_without_pid(h) ==
  /\ In(h, "TRANSACTION_RETRY")
  /\ token' = "none"
  /\ issuer' = h
  /\ goto(h, "TRANSACTION")
  /\ Return(h, FALSE)
  /\ UNCHANGED <<deviceInfo, portVars, lockVars, templates, deviceVars,
                 do_not_retry, bulk_out_toggle, outcome, tx_request, UH_EP_PID,
                 transaction_recv_state, transaction_pid, transaction_stage,
                 transaction_size>>

\* state_transaction_retry: the same packet again.
state_transaction_retry(h) ==
  /\ In(h, "TRANSACTION_RETRY")
  /\ UH_EP_PID' = TRUE
  /\ token' = "none"
  /\ issuer' = h
  /\ goto(h, "TRANSACTION")
  /\ Return(h, FALSE)
  /\ UNCHANGED <<deviceInfo, portVars, lockVars, templates, deviceVars,
                 do_not_retry, bulk_out_toggle, outcome, tx_request,
                 transaction_recv_state, transaction_pid, transaction_stage,
                 transaction_size>>

fsm(h) ==
  \/ Wait(h) \/ DelayEnds(h) \/ Disconnect(h)
  \/ state_idle(h) \/ state_connect(h) \/ state_reset(h) \/ state_enable(h)
  \/ state_set_address(h) \/ state_set_address_done(h)
  \/ state_get_device_desc(h) \/ InitialCheckDone(h)
  \/ state_get_device_desc_recv(h)
  \/ state_get_string_desc(h) \/ state_get_string_desc_recv(h)
  \/ state_get_configuration_desc(h) \/ state_get_configuration_desc_recv(h)
  \/ state_set_configuration(h) \/ state_set_configuration_done(h)
  \/ state_set_feature(h) \/ state_extra_setup(h)
  \/ state_get_hid_report_desc(h)
  \/ state_hid_set_protocol(h) \/ state_hid_set_protocol_done(h)
  \/ state_get_hub_desc(h) \/ state_get_hub_desc_recv(h)
  \/ state_set_port_power_feature(h) \/ state_set_port_power_feature_done(h)
  \/ state_clear_port_connection_feature(h)
  \/ state_clear_port_connection_feature_done(h)
  \/ EnumerationEnds(h) \/ ReportArrives(h) \/ state_out_done(h)
  \/ TransferStalls(h) \/ TransferSucceeds(h) \/ TransferNaks(h)
  \/ TransferFails(h)
  \/ NextStage(h) \/ state_transaction_cont(h) \/ state_transaction_retry(h)

-----------------------------------------------------------------------------
(* The public functions, called between two polls.  A call that returns      *)
(* false changes nothing and is left out.                                    *)

\* usb_host_poll
usb_host_poll ==
  /\ turn = App
  /\ turn' = FirstTurn
  /\ UNCHANGED <<delayVars, deviceInfo, portVars, transferVars, lockVars,
                 templates, deviceVars, do_not_retry, bulk_out_toggle,
                 outcome>>

Call(name, h) == turn = App /\ name \in Calls[h] /\ usb_host_ready(h)

callFrame ==
  UNCHANGED <<turn, deviceInfo, portVars, templates, deviceVars,
              bulk_out_toggle, outcome>>

usb_host_setup(h, dir, data) ==
  /\ Call("setup", h)
  /\ lock_transaction(h, AddressOf(h))
  /\ host_setup_transfer(h, dir, data,
                         IF dir = "IN" THEN "IN_RECV" ELSE "DONE")
  /\ UNCHANGED do_not_retry /\ callFrame

\* usb_host_in (stage 2) and usb_host_in_data0 (stage 0: a status stage
\* follows).  A NAK ends the request.
usb_host_in(h, name, stage) ==
  /\ Call(name, h)
  /\ lock_transaction(h, AddressOf(h))
  /\ do_not_retry' = [do_not_retry EXCEPT ![h] = TRUE]
  /\ \E n \in 1..MaxPackets : host_transact(h, n, "IN_RECV", "IN", stage)
  /\ UNCHANGED tx_request /\ callFrame

usb_host_out(h) ==
  /\ Call("out", h)
  /\ lock_transaction(h, AddressOf(h))
  /\ host_transact(h, 1, "OUT_DONE", "OUT", 2)
  /\ UNCHANGED <<tx_request, do_not_retry>> /\ callFrame

usb_host_hid_get_report(h) ==
  /\ is_hid[h] /\ Call("hid_get_report", h)
  /\ lock_transaction(h, AddressOf(h))
  /\ do_not_retry' = [do_not_retry EXCEPT ![h] = FALSE]
  /\ host_setup_transfer(h, "IN", TRUE, "HID_GET_REPORT")
  /\ callFrame

\* The devices that may be plugged into the hub on port h.
Behind(h) == {d \in Devices : d.class # "hub" /\ d.slow = device[h].slow}

\* usb_host_hub_switch as hid_guncon3_poll uses it, on a ready port with a hub
\* whose own port reset has brought up another device at address 0.
usb_host_hub_switch(h) ==
  /\ Call("hub_switch", h) /\ hub_ports[h] > 0
  /\ hub_address' = [hub_address EXCEPT ![h] = 3 + h]
  /\ goto(h, "SET_ADDRESS")
  /\ \E d \in IF attach(h) THEN Behind(h) ELSE {NoDevice} :
       device' = [device EXCEPT ![h] = d]
  /\ device_address' = [device_address EXCEPT ![h] = 0]
  /\ device_toggle' = [device_toggle EXCEPT ![h] = FALSE]
  /\ UNCHANGED <<turn, deviceInfo, initial_check, resetting, UHUB_CTRL,
                 transferVars, lockVars, templates, unplugs, do_not_retry,
                 bulk_out_toggle, outcome>>

Application(h) ==
  \/ \E dir \in {"IN", "OUT"}, data \in BOOLEAN : usb_host_setup(h, dir, data)
  \/ usb_host_in(h, "in", 2) \/ usb_host_in(h, "in_data0", 0)
  \/ usb_host_out(h) \/ usb_host_hid_get_report(h) \/ usb_host_hub_switch(h)

-----------------------------------------------------------------------------
(* The environment: the controller and the devices *)

\* The addressed device hears the transfer.
Reached ==
  issuer \in Hubs /\ attach(issuer) /\ device_address[issuer] = USB_DEV_AD

\* A device must accept SETUP, and stalls in the requests of StallAt only.
MayAnswer(t) ==
  /\ IF Reached THEN t \in Answers ELSE t = "TIMEOUT"
  /\ transaction_pid = "SETUP" => t \notin {"NAK", "STALL"}
  /\ t = "STALL" => transaction_recv_state \in StallAt

\* Accepted by the device: a new address or a configuration in the status
\* stage, a bulk packet that carries the toggle it expects.
Accepted(recv, pid, t) ==
  t = "ACK" /\ transaction_recv_state = recv /\ transaction_pid = pid

TransferCompletes(t) ==
  /\ UH_EP_PID /\ token = "none" /\ MayAnswer(t)
  /\ token' = t
  /\ device_address' =
       IF Accepted("SET_ADDRESS_DONE", "IN", t)
       THEN [device_address EXCEPT ![issuer] = address] ELSE device_address
  /\ device_toggle' =
       IF Accepted("SET_CONFIGURATION_DONE", "IN", t)
       THEN [device_toggle EXCEPT ![issuer] = FALSE]
       ELSE IF /\ Accepted("OUT_DONE", "OUT", t)
               /\ bulk_out_toggle[issuer] = device_toggle[issuer]
            THEN [device_toggle EXCEPT ![issuer] = ~@]
            ELSE device_toggle
  /\ UNCHANGED <<turn, delayVars, deviceInfo, portVars, lockVars, templates,
                 transaction_recv_state, transaction_pid, transaction_stage,
                 transaction_size, tx_request, UH_EP_PID, issuer, device,
                 unplugs, do_not_retry, bulk_out_toggle, outcome>>

\* A device is plugged in after the port has noticed that the last one has
\* gone: the main loop is far quicker than a hand.
Plug(h) ==
  /\ ~attach(h) /\ (state[h] = "IDLE" \/ resetting[h])
  /\ \E d \in Devices : device' = [device EXCEPT ![h] = d]
  /\ device_address' = [device_address EXCEPT ![h] = 0]
  /\ device_toggle' = [device_toggle EXCEPT ![h] = FALSE]
  /\ UNCHANGED <<turn, delayVars, deviceInfo, portVars, transferVars,
                 lockVars, templates, unplugs, do_not_retry, bulk_out_toggle,
                 outcome>>

Unplug(h) ==
  /\ h \in Unpluggable /\ attach(h) /\ unplugs < MaxUnplugs
  /\ unplugs' = unplugs + 1
  /\ device' = [device EXCEPT ![h] = NoDevice]
  /\ device_address' = [device_address EXCEPT ![h] = 0]
  /\ device_toggle' = [device_toggle EXCEPT ![h] = FALSE]
  /\ UNCHANGED <<turn, delayVars, deviceInfo, portVars, transferVars,
                 lockVars, templates, do_not_retry, bulk_out_toggle, outcome>>

Next ==
  \/ usb_host_poll
  \/ \E h \in Hubs : fsm(h) \/ Application(h)
  \/ \E t \in Answers \cup {"TIMEOUT"} : TransferCompletes(t)
  \/ \E h \in Hubs : Plug(h) \/ Unplug(h)

Spec == Init /\ [][Next]_vars

\* The main loop polls for ever, delays end, transfers end, and no device
\* answers NAK for ever.
Fairness ==
  /\ WF_vars(usb_host_poll)
  /\ \A h \in Hubs : WF_vars(fsm(h)) /\ SF_vars(DelayEnds(h))
  /\ WF_vars(\E t \in Answers \cup {"TIMEOUT"} : TransferCompletes(t))
  /\ SF_vars(TransferCompletes("ACK"))

FairSpec == Spec /\ Fairness

-----------------------------------------------------------------------------
(* Properties *)

TypeOK ==
  /\ turn \in Hubs \cup {App}
  /\ state \in [Hubs -> States] /\ delay_next_state \in [Hubs -> States]
  /\ initial_check \in [Hubs -> BOOLEAN] /\ resetting \in [Hubs -> BOOLEAN]
  /\ no_remote_wakeup \in [Hubs -> BOOLEAN] /\ is_hid \in [Hubs -> BOOLEAN]
  /\ hid_boot \in [Hubs -> Boots] /\ hub_ports \in [Hubs -> Nat]
  /\ hub_address \in [Hubs -> Addresses]
  /\ do_not_retry \in [Hubs -> BOOLEAN]
  /\ bulk_out_toggle \in [Hubs -> BOOLEAN]
  /\ transaction_lock \in Hubs \cup {NoHub}
  /\ transaction_recv_state \in RecvStates \cup {"IDLE"}
  /\ transaction_pid \in {"SETUP", "IN", "OUT"}
  /\ transaction_stage \in 0..2 /\ transaction_size \in 0..(SIZES - 1)
  /\ tx_request \in [dir : {"IN", "OUT"}, data : BOOLEAN]
  /\ string_index \in 0..3 /\ full \subseteq {"string", "configuration", "hub"}
  /\ address \in Addresses /\ port \in Nat
  /\ UH_EP_PID \in BOOLEAN
  /\ token \in {"none", "ACK", "NAK", "STALL", "TIMEOUT", "ERROR"}
  /\ USB_DEV_AD \in Addresses /\ USB_CTRL \in BOOLEAN
  /\ UHUB_CTRL \in [Hubs -> BOOLEAN]
  /\ device \in [Hubs -> Devices \cup {NoDevice}]
  /\ device_address \in [Hubs -> Addresses]
  /\ device_toggle \in [Hubs -> BOOLEAN]
  /\ unplugs \in 0..MaxUnplugs
  /\ issuer \in Hubs \cup {NoHub}
  /\ outcome \in {"ok", "nak", "stall", "timeout"}

\* The state a port is in, or will be in when its delay is over.
At(h) == IF state[h] = "DELAY" THEN delay_next_state[h] ELSE state[h]

\* The states that release the lock themselves, or take it again.
ReleaseStates ==
  {"SET_ADDRESS_DONE", "GET_HID_REPORT_DESC_RECV", "DONE", "IN_RECV",
   "OUT_DONE", "HID_GET_REPORT"}

\* The states in which a port uses the controller, the transaction context or
\* the templates.
BusStates ==
  ({"TRANSACTION"} \cup StageStates \cup SendStates \cup RecvStates)
  \ ({"SET_ADDRESS", "GET_DEVICE_DESC", "GET_DEVICE_DESC_RECV"}
     \cup ReleaseStates)

OnBus(h) ==
  \/ At(h) \in BusStates
  \/ /\ At(h) \in {"GET_DEVICE_DESC", "GET_DEVICE_DESC_RECV"}
     /\ ~initial_check[h]

\* The states in which it has nothing to do with the bus.
FreeStates == {"IDLE", "CONNECT", "RESET", "ENABLE", "SET_ADDRESS", "READY"}

OffBus(h) ==
  \/ At(h) \in FreeStates
  \/ At(h) = "GET_DEVICE_DESC" /\ initial_check[h]

(* A port that talks to its device, from the moment it has an address to the *)
(* end of its enumeration and in every request of the application, owns      *)
(* transaction_lock: lock_transaction in state_set_address, _done and the    *)
(* public functions against unlock_transaction in nine other places.         *)
LockHeldOnBus == \A h \in Hubs : OnBus(h) => transaction_lock = h

(* The lock is not left behind: a port that has nothing to do with the bus   *)
(* (idle, in a bus reset, waiting for the lock, ready) does not own it, or   *)
(* no port could ever enumerate again.  HALT keeps it (halt()).              *)
NoLeakedLock == \A h \in Hubs : transaction_lock = h => ~OffBus(h)

(* The lock and the ports agree, both ways.                                  *)
LockMatchesPorts == LockHeldOnBus /\ NoLeakedLock

(* While a port waits in STATE_TRANSACTION, the transfer it waits for is its *)
(* own: nobody else has started one over it ("Wait until the transaction     *)
(* completes.", state_transaction).                                          *)
OwnTransfer == \A h \in Hubs : state[h] = "TRANSACTION" => issuer = h

(* The request templates and the string indices are static and shared: only  *)
(* the port that owns the lock may be writing them, so that a request never  *)
(* goes out with the length or index of the other port's device.             *)
TemplatesUnderLock ==
  [][templates' # templates => transaction_lock' = turn]_vars

(* While a transfer is on its way the controller has the speed of the port   *)
(* and the address of the device it was issued for (lock_transaction sets    *)
(* both once, for a whole enumeration or a whole request).                   *)
RegistersMatch ==
  UH_EP_PID /\ token = "none" =>
    /\ USB_CTRL = UHUB_CTRL[issuer]
    /\ attach(issuer) => USB_DEV_AD = device_address[issuer]

(* What the host has to remember of the device of a ready port is true, also *)
(* after a switch to the device behind a hub and after a hub was replaced:   *)
(* its address (hub_address, read in state_set_address and in every public   *)
(* function) and the data toggle of its bulk OUT endpoint (bulk_out_toggle,  *)
(* reset in state_set_configuration_done, flipped in state_transaction).     *)
DeviceAgreement ==
  \A h \in Hubs : usb_host_ready(h) /\ attach(h) =>
    device_address[h] = AddressOf(h) /\ bulk_out_toggle[h] = device_toggle[h]

DescriptorStates ==
  {"GET_DEVICE_DESC_RECV", "GET_STRING_DESC_RECV",
   "GET_CONFIGURATION_DESC_RECV", "GET_HID_REPORT_DESC_RECV",
   "GET_HUB_DESC_RECV"}

(* A descriptor is interpreted (and passed to the check_* callbacks) only    *)
(* after the device has answered the request for it: a NAK is retried there, *)
(* do_not_retry being for reports ("Do not retry as hid returns NAK if the   *)
(* report isn't changed in idle state.", usb_host_in).                       *)
FreshDescriptor ==
  \A h \in Hubs : state[h] \in DescriptorStates => outcome # "nak"

(* Requests go out to, and answers are read from, the device they are of.    *)
OwnAnswers == RegistersMatch /\ FreshDescriptor

(* A transfer a port waits for comes to an end (state_transaction: "Wait     *)
(* until the transaction completes.").                                       *)
TransactionCompletes ==
  \A h \in Hubs : state[h] = "TRANSACTION" ~> state[h] # "TRANSACTION"

(* A port that wants to enumerate gets the lock although the application     *)
(* keeps the other port busy: the delay after each request and the order of  *)
(* the polls see to it.                                                      *)
WaiterGetsLock ==
  \A h \in Hubs : state[h] = "SET_ADDRESS" ~> state[h] # "SET_ADDRESS"

(* A device that stays plugged in becomes ready.                             *)
EnumerationCompletes ==
  \A h \in Hubs : attach(h) ~> state[h] = "READY"

=============================================================================
