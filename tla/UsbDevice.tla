----------------------------- MODULE UsbDevice -----------------------------
(***************************************************************************)
(* The USB device of chlib: src/usb/usb_device.c with the class drivers    *)
(* src/usb/cdc_device.c and src/usb/hid_device.c.  The interrupt handler   *)
(* usb_int answers the host on endpoint 0 and hands received packets to    *)
(* the application; the main loop sends packets on one IN endpoint, with a *)
(* step for every access to the endpoint's registers.  The host and the    *)
(* serial interface engine are external: a transfer or a bus reset raises  *)
(* a flag, and while UIF_TRANSFER is raised the engine answers NAK         *)
(* (bUC_INT_BUSY).  Bytes of descriptors are their offsets; packets are    *)
(* numbered.  The toggles of received packets are left out: no code looks  *)
(* at them.                                                                *)
(***************************************************************************)
EXTENDS Naturals, Sequences

CONSTANTS
  Drivers,      \* "cdc", "hid": the class drivers in use
  SendFrom,     \* where the application sends: its main loop ("main"), or
                \* the recv callback of the CDC driver ("recv": an echo)
  EP0_SIZE,     \* ep0_size (64)
  Sizes,        \* sizes of the descriptors
  WLengths,     \* values of wLength in a request for a descriptor
  HostReadsFirst, \* whether the host reads an echo before it sends again
  MaxRequests,  \* bound: control requests in all
  MaxSends,     \* bound: packets sent by the application
  MaxOuts,      \* bound: packets sent by the host
  MaxResets,    \* bound: bus resets
  MaxLostAcks   \* bound: ACKs of the host that get lost

ASSUME UsbDeviceAssumption ==
  /\ Drivers \subseteq {"cdc", "hid"} /\ SendFrom \subseteq {"main", "recv"}
  /\ HostReadsFirst \in BOOLEAN
  /\ EP0_SIZE \in Nat \ {0} /\ Sizes \subseteq Nat \ {0} /\ WLengths \subseteq Nat
  /\ {MaxRequests, MaxSends, MaxOuts, MaxResets, MaxLostAcks} \subseteq Nat

VARIABLES
  usb_device,             \* the class driver, and who sends
  state, last_setup_req, sending_data,      \* usb_device.c
  last_request, line_coding,                \* cdc_device.c
  UEP0_CTRL, UEP0_T_LEN, ep0_buffer,        \* endpoint 0
  UEP_CTRL, UEP_T_LEN, ep_buffer,           \* the IN endpoint
  USB_DEV_AD,
  transfer,               \* UIF_TRANSFER with USB_INT_ST: token and data
  UIF_BUS_RST,
  handler,                \* "ready", or stopped: "spin" in recv, "halt"
  pc, ctrl,               \* the main loop in cdc_device_send, and the
                          \* control register it has read
  sent,                   \* history: packets handed to usb_device_send
  dropped,                \* history: packets a bus reset took away
  host, got, received,    \* the host, its control data, its packets
  count                   \* what the bounds count

device ==
  <<usb_device, state, last_setup_req, sending_data, last_request, line_coding,
    UEP0_CTRL, UEP0_T_LEN, ep0_buffer, USB_DEV_AD>>
endpoint == <<UEP_CTRL, UEP_T_LEN, ep_buffer, pc, ctrl, sent, dropped>>
bus == <<transfer, UIF_BUS_RST, host, got, received, count>>
vars == <<device, endpoint, bus, handler>>

-----------------------------------------------------------------------------
(* Requests: standard or of the class, with a direction, a length for IN     *)
(* requests and whether data follows for OUT requests.                       *)

Request(req, dir, type, len, value) ==
  [bRequest |-> req, dir |-> dir, type |-> type, wLength |-> len,
   value |-> value]

NoRequest == Request("none", "OUT", "standard", 0, 0)

StandardRequests ==
  {Request("GET_DESCRIPTOR", "IN", "standard", len, size) :
     len \in WLengths \ {0}, size \in Sizes}
  \union {Request("GET_STATUS", "IN", "standard", 1, 0),
          Request("SET_FEATURE", "OUT", "standard", 0, 0),
          Request("SET_ADDRESS", "OUT", "standard", 0, 1),
          Request("SET_CONFIGURATION", "OUT", "standard", 0, 1)}

ClassRequests ==
  IF usb_device.driver = "cdc"
  THEN {Request("GET_LINE_CODING", "IN", "class", 1, 0),
        Request("SET_CONTROL_LINE_STATE", "OUT", "class", 0, 0),
        Request("SET_LINE_CODING", "OUT", "class", 1, 1),
        Request("SET_LINE_CODING", "OUT", "class", 1, 2)}
  ELSE {Request("GET_REPORT", "IN", "class", 1, 0),
        Request("SET_IDLE", "OUT", "class", 0, 0)}

\* Requests, or descriptors, that usb_device.c or the class driver does not have.
UnknownRequests ==
  {Request("unknown", "IN", type, 1, 0) : type \in {"standard", "class"}}
  \union {Request("unknown", "OUT", type, 0, 0) : type \in {"standard", "class"}}

HostRequests == StandardRequests \union ClassRequests \union UnknownRequests

\* What an IN request asks for.
Smaller(a, b) == IF a < b THEN a ELSE b
Asked(req) ==
  CASE req.bRequest = "GET_DESCRIPTOR" ->
         [i \in 1..Smaller(req.value, req.wLength) |-> i]
    [] req.bRequest = "GET_LINE_CODING" -> <<line_coding>>
    [] OTHER -> <<0>>

NoTransfer == [token |-> "none", request |-> NoRequest]
Token(t) == [NoTransfer EXCEPT !.token = t]

-----------------------------------------------------------------------------
(* Registers *)

Control(tog, res) == [T_TOG |-> tog, T_RES |-> res]

Init ==
  /\ usb_device \in [driver : Drivers, sender : SendFrom]
  /\ usb_device.sender = "recv" => usb_device.driver = "cdc"
  /\ state = "IDLE" /\ last_setup_req = NoRequest /\ sending_data = <<>>
  /\ last_request = "none" /\ line_coding = 0
  /\ UEP0_CTRL = Control(0, "NAK") /\ UEP0_T_LEN = 0 /\ ep0_buffer = <<>>
  /\ UEP_CTRL = Control(0, "NAK") /\ UEP_T_LEN = 0 /\ ep_buffer = 0
  /\ USB_DEV_AD = 0
  /\ transfer = NoTransfer /\ UIF_BUS_RST = FALSE
  /\ handler = "ready" /\ pc = "idle" /\ ctrl = Control(0, "NAK")
  /\ sent = 0 /\ dropped = {}
  /\ host = [address |-> 0, configured |-> FALSE, stage |-> "idle",
             request |-> NoRequest, tog0 |-> 1, tog |-> 0, line_coding |-> 0]
  /\ got = <<>> /\ received = <<>>
  /\ count = [requests |-> 0, outs |-> 0, resets |-> 0, acks |-> 0]

-----------------------------------------------------------------------------
(* Endpoint 0: setup, in, out *)

\* Mutant: the packet is not cut.
ep0_send_whole(data) ==
  /\ ep0_buffer' = data /\ UEP0_T_LEN' = Len(data)
  /\ UEP0_CTRL' = Control(1, "ACK")
  /\ sending_data' = <<>>

\* ep0_send: the first packet of data, which it copies, and what is left.
ep0_send(data) ==
  LET n == Smaller(Len(data), EP0_SIZE)
  IN  /\ ep0_buffer' = SubSeq(data, 1, n) /\ UEP0_T_LEN' = n
      /\ UEP0_CTRL' = Control(1, "ACK")
      /\ sending_data' = SubSeq(data, n + 1, Len(data))

\* Mutant: the packet has the length of all that is left.
ep0_cont_all ==
  LET n == Smaller(Len(sending_data), EP0_SIZE)
  IN  /\ ep0_buffer' = SubSeq(sending_data, 1, n) /\ UEP0_T_LEN' = n
      /\ UEP0_CTRL' = [UEP0_CTRL EXCEPT !.T_TOG = 1 - @]
      /\ UNCHANGED sending_data

ep0_cont ==
  LET n == Smaller(Len(sending_data), EP0_SIZE)
  IN  /\ ep0_buffer' = SubSeq(sending_data, 1, n) /\ UEP0_T_LEN' = n
      /\ UEP0_CTRL' = [UEP0_CTRL EXCEPT !.T_TOG = 1 - @]
      /\ sending_data' = SubSeq(sending_data, n + 1, Len(sending_data))

ep0_nak ==
  /\ UEP0_CTRL' = Control(0, "NAK")
  /\ UNCHANGED <<UEP0_T_LEN, ep0_buffer, sending_data>>

\* Mutant: the request is not remembered.
class_setup_forgets(req) == UNCHANGED last_request

\* The setup callback of the class driver remembers the request.
class_setup(req) ==
  last_request' = IF usb_device.driver = "cdc" THEN req.bRequest
                  ELSE last_request

\* The answer to a request.  NOTREACHED stops the program in the interrupt
\* handler when neither usb_device.c nor the class driver knows it.
answer(req) ==
  /\ \/ req.type = "standard" /\ UNCHANGED last_request
     \/ req.type = "class" /\ class_setup(req)
  /\ \/ /\ req.bRequest # "unknown"
        /\ ep0_send(IF req.dir = "IN" THEN Asked(req) ELSE <<>>)
        /\ state' = IF req.bRequest = "SET_CONFIGURATION" THEN "READY" ELSE state
        /\ UNCHANGED handler
     \/ /\ req.bRequest = "unknown"
        /\ handler' = "halt"
        /\ UNCHANGED <<UEP0_CTRL, UEP0_T_LEN, ep0_buffer, sending_data, state>>

\* Mutant: the address is taken when the request arrives.
setup_takes_address(req) ==
  /\ last_setup_req' = req /\ answer(req)
  /\ USB_DEV_AD' = IF req.bRequest = "SET_ADDRESS" THEN req.value ELSE USB_DEV_AD
  /\ UNCHANGED line_coding

setup(req) ==
  /\ last_setup_req' = req /\ answer(req)
  /\ UNCHANGED <<USB_DEV_AD, line_coding>>

\* Mutant: there is nothing after the first packet.
in_one_packet ==
  /\ IF last_setup_req.bRequest = "SET_ADDRESS"
     THEN USB_DEV_AD' = last_setup_req.value
     ELSE UNCHANGED USB_DEV_AD
  /\ ep0_nak
  /\ UNCHANGED <<state, last_setup_req, last_request, line_coding, handler>>

in ==
  /\ IF last_setup_req.bRequest = "SET_ADDRESS"
     THEN USB_DEV_AD' = last_setup_req.value /\ ep0_nak
     ELSE /\ UNCHANGED USB_DEV_AD
          /\ IF last_setup_req.dir = "IN" THEN ep0_cont ELSE ep0_nak
  /\ UNCHANGED <<state, last_setup_req, last_request, line_coding, handler>>

\* Mutant: the request is forgotten before it is looked at.
class_out_late(value) ==
  /\ last_request' = "none" /\ UNCHANGED line_coding
  /\ UNCHANGED <<UEP0_CTRL, UEP0_T_LEN, ep0_buffer, sending_data>>

\* ep_out(0, ...) of the CDC driver; the HID driver has none.
class_out(value) ==
  /\ last_request' = "none"
  /\ line_coding' = IF last_request = "SET_LINE_CODING" THEN value
                    ELSE line_coding
  /\ UNCHANGED <<UEP0_CTRL, UEP0_T_LEN, ep0_buffer, sending_data>>

\* NOTREACHED stops the program in the interrupt handler.
Halt ==
  /\ handler' = "halt"
  /\ UNCHANGED <<last_request, line_coding, UEP0_CTRL, UEP0_T_LEN, ep0_buffer,
                 sending_data>>

out(value) ==
  /\ \/ /\ last_setup_req.dir = "IN" /\ ep0_nak
        /\ UNCHANGED <<last_request, line_coding, handler>>
     \/ /\ last_setup_req.dir = "OUT"
        /\ IF /\ last_setup_req.type = "class" /\ usb_device.driver = "cdc"
              /\ last_request # "none"
           THEN class_out(value) /\ UNCHANGED handler
           ELSE Halt
  /\ UNCHANGED <<state, last_setup_req, USB_DEV_AD>>

-----------------------------------------------------------------------------
(* The other endpoints *)

\* Mutant: the register is compared without the mask.
ready_unmasked == UEP_CTRL = Control(0, "NAK")

ready_to_send == UEP_CTRL.T_RES # "ACK"

\* usb_device_send, as one step: nothing runs between its accesses when the
\* interrupt handler calls it.
usb_device_send ==
  /\ ep_buffer' = sent + 1 /\ UEP_T_LEN' = 1
  /\ UEP_CTRL' = [UEP_CTRL EXCEPT !.T_RES = "ACK"]
  /\ sent' = sent + 1
  /\ UNCHANGED <<pc, ctrl, dropped>>

\* recv may send an echo.  When the last packet still waits for the host,
\* cdc_device_send spins in the interrupt handler, and for ever: UIF_TRANSFER
\* is not cleared, so that the engine answers NAK to the IN it waits for.
recv ==
  \/ /\ usb_device.sender = "main" \/ sent = MaxSends
     /\ UNCHANGED <<handler, endpoint>>
  \/ /\ usb_device.sender = "recv" /\ sent < MaxSends
     /\ IF ready_to_send THEN usb_device_send /\ UNCHANGED handler
        ELSE handler' = "spin" /\ UNCHANGED endpoint

ep_out ==
  /\ IF usb_device.driver = "cdc" THEN recv
     ELSE handler' = "halt" /\ UNCHANGED endpoint
  /\ UNCHANGED device

ep_in ==
  /\ UEP_T_LEN' = 0
  /\ UEP_CTRL' = [UEP_CTRL EXCEPT !.T_RES = "NAK"]
  /\ UNCHANGED <<ep_buffer, pc, ctrl, sent, dropped>>
  /\ UNCHANGED <<device, handler>>

Elements(s) == {s[i] : i \in 1..Len(s)}

\* The registers are reset, the variables are not.  A packet the host has not
\* read is dropped, and so is one that is just being sent: "store" will write
\* back a control register of before the reset.
bus_reset ==
  /\ UEP0_CTRL' = Control(0, "NAK") /\ UEP_CTRL' = Control(0, "NAK")
  /\ USB_DEV_AD' = 0
  /\ dropped' = dropped
       \union (IF ready_to_send THEN {} ELSE {sent} \ Elements(received))
       \union (IF pc = "store" THEN {sent + 1} ELSE {})
  /\ UNCHANGED <<usb_device, state, last_setup_req, sending_data, last_request,
                 line_coding, UEP0_T_LEN, ep0_buffer, UEP_T_LEN, ep_buffer,
                 pc, ctrl, sent, handler>>

-----------------------------------------------------------------------------
(* usb_int *)

usb_int_transfer ==
  /\ handler = "ready" /\ transfer # NoTransfer
  /\ \/ /\ transfer.token = "SETUP" /\ setup(transfer.request)
        /\ UNCHANGED <<usb_device, endpoint>>
     \/ /\ transfer.token = "IN0" /\ in
        /\ UNCHANGED <<usb_device, endpoint>>
     \/ /\ transfer.token = "OUT0" /\ out(transfer.request.value)
        /\ UNCHANGED <<usb_device, endpoint>>
     \/ transfer.token = "IN" /\ ep_in
     \/ transfer.token = "OUT" /\ ep_out
  /\ transfer' = IF handler' = "ready" THEN NoTransfer ELSE transfer
  /\ UNCHANGED <<UIF_BUS_RST, host, got, received, count>>

usb_int_reset ==
  /\ handler = "ready" /\ transfer = NoTransfer /\ UIF_BUS_RST
  /\ bus_reset
  /\ UIF_BUS_RST' = FALSE
  /\ UNCHANGED <<transfer, host, got, received, count>>

usb_int == usb_int_transfer \/ usb_int_reset

-----------------------------------------------------------------------------
(* cdc_device_send in the main loop: one step for each access.  An           *)
(* application of the HID device looks at usb_device_is_ready_to_send itself.*)

main_step(from, to) ==
  /\ handler = "ready" /\ pc = from /\ pc' = to
  /\ UNCHANGED <<device, bus, handler>>

cdc_device_send ==
  /\ usb_device.sender = "main" /\ sent < MaxSends
  /\ main_step("idle", "wait")
  /\ UNCHANGED <<UEP_CTRL, UEP_T_LEN, ep_buffer, ctrl, sent, dropped>>

\* Mutant: the last packet may still wait for the host.
send_copy_at_once ==
  /\ main_step("wait", "len")
  /\ ep_buffer' = sent + 1
  /\ UNCHANGED <<UEP_CTRL, UEP_T_LEN, ctrl, sent, dropped>>

send_copy ==
  /\ ready_to_send
  /\ main_step("wait", "len")
  /\ ep_buffer' = sent + 1
  /\ UNCHANGED <<UEP_CTRL, UEP_T_LEN, ctrl, sent, dropped>>

send_len ==
  /\ main_step("len", "load")
  /\ UEP_T_LEN' = 1
  /\ UNCHANGED <<UEP_CTRL, ep_buffer, ctrl, sent, dropped>>

send_load ==
  /\ main_step("load", "store")
  /\ ctrl' = UEP_CTRL
  /\ UNCHANGED <<UEP_CTRL, UEP_T_LEN, ep_buffer, sent, dropped>>

send_store ==
  /\ main_step("store", "idle")
  /\ UEP_CTRL' = [ctrl EXCEPT !.T_RES = "ACK"]
  /\ sent' = sent + 1
  /\ ctrl' = Control(0, "NAK")
  /\ UNCHANGED <<UEP_T_LEN, ep_buffer, dropped>>

main_send == send_copy \/ send_len \/ send_load \/ send_store

-----------------------------------------------------------------------------
(* The host and the serial interface engine *)

\* The engine answers NAK while a transfer or a reset is being handled.
Answers ==
  /\ transfer = NoTransfer /\ ~UIF_BUS_RST /\ USB_DEV_AD = host.address
  /\ UNCHANGED <<device, handler, UIF_BUS_RST>>

\* A request may be sent while the last one is not over.
HostSetup(req) ==
  /\ Answers /\ count.requests < MaxRequests
  /\ req.bRequest = "SET_ADDRESS" => host.address = 0
  /\ req.bRequest = "SET_CONFIGURATION" => ~host.configured /\ host.address # 0
  /\ req.type = "class" => host.configured
  /\ transfer' = [token |-> "SETUP", request |-> req]
  /\ host' = [host EXCEPT !.request = req, !.tog0 = 1,
       !.stage = IF req.wLength = 0 THEN "status_in"
                 ELSE IF req.dir = "IN" THEN "data_in" ELSE "data_out"]
  /\ got' = <<>>
  /\ count' = [count EXCEPT !.requests = @ + 1]
  /\ UNCHANGED <<endpoint, received>>

Packet0 == SubSeq(ep0_buffer, 1, UEP0_T_LEN)

\* The data stage ends with a short packet or when all of wLength is there.
HostDataIn(heard) ==
  /\ Answers /\ host.stage = "data_in" /\ UEP0_CTRL.T_RES = "ACK"
  /\ IF UEP0_CTRL.T_TOG = host.tog0
     THEN /\ got' = got \o Packet0
          /\ host' = [host EXCEPT !.tog0 = 1 - @,
               !.stage = IF \/ UEP0_T_LEN < EP0_SIZE
                            \/ Len(got') >= host.request.wLength
                         THEN "status_out" ELSE @]
     ELSE UNCHANGED <<got, host>>
  /\ transfer' = IF heard THEN Token("IN0") ELSE NoTransfer
  /\ UNCHANGED <<endpoint, received>>

HostStatusOut ==
  /\ Answers /\ host.stage = "status_out"
  /\ transfer' = Token("OUT0")
  /\ host' = [host EXCEPT !.stage = "idle"]
  /\ UNCHANGED <<endpoint, got, received, count>>

HostDataOut ==
  /\ Answers /\ host.stage = "data_out"
  /\ transfer' = [token |-> "OUT0", request |-> host.request]
  /\ host' = [host EXCEPT !.stage = "status_in",
                          !.line_coding = host.request.value]
  /\ UNCHANGED <<endpoint, got, received, count>>

HostStatusIn ==
  /\ Answers /\ host.stage = "status_in"
  /\ UEP0_CTRL = Control(1, "ACK") /\ UEP0_T_LEN = 0
  /\ transfer' = Token("IN0")
  /\ host' = [host EXCEPT !.stage = "idle",
       !.address = IF host.request.bRequest = "SET_ADDRESS"
                   THEN host.request.value ELSE @,
       !.configured = @ \/ host.request.bRequest = "SET_CONFIGURATION"]
  /\ UNCHANGED <<endpoint, got, received, count>>

\* A packet is read: the engine changes the toggle (bUEP_AUTO_TOG).  The host
\* takes a packet with the toggle it waits for.
HostIn(heard) ==
  /\ Answers /\ host.configured /\ UEP_CTRL.T_RES = "ACK"
  /\ IF UEP_CTRL.T_TOG = host.tog
     THEN /\ received' = Append(received, IF UEP_T_LEN = 0 THEN 0 ELSE ep_buffer)
          /\ host' = [host EXCEPT !.tog = 1 - @]
     ELSE UNCHANGED <<received, host>>
  /\ IF heard
     THEN transfer' = Token("IN") /\ UEP_CTRL' = [UEP_CTRL EXCEPT !.T_TOG = 1 - @]
     ELSE UNCHANGED <<transfer, UEP_CTRL>>
  /\ UNCHANGED <<UEP_T_LEN, ep_buffer, pc, ctrl, sent, dropped, got>>

LoseAck ==
  /\ count.acks < MaxLostAcks
  /\ count' = [count EXCEPT !.acks = @ + 1]

HostReads ==
  \/ (HostDataIn(TRUE) \/ HostIn(TRUE)) /\ UNCHANGED count
  \/ (HostDataIn(FALSE) \/ HostIn(FALSE)) /\ LoseAck

\* What an application does not answer is left out.
HostOut ==
  /\ Answers /\ host.configured /\ usb_device.driver = "cdc"
  /\ usb_device.sender = "recv" /\ count.outs < MaxOuts
  /\ HostReadsFirst => ready_to_send
  /\ transfer' = Token("OUT")
  /\ count' = [count EXCEPT !.outs = @ + 1]
  /\ UNCHANGED <<endpoint, host, got, received>>

HostResets ==
  /\ count.resets < MaxResets /\ ~UIF_BUS_RST
  /\ UIF_BUS_RST' = TRUE
  /\ host' = [host EXCEPT !.address = 0, !.configured = FALSE, !.tog = 0,
                          !.stage = "idle"]
  /\ count' = [count EXCEPT !.resets = @ + 1]
  /\ UNCHANGED <<device, endpoint, handler, transfer, got, received>>

HostAnswers == HostReads \/ HostStatusOut \/ HostDataOut \/ HostStatusIn

Next ==
  \/ usb_int \/ cdc_device_send \/ main_send
  \/ \E req \in HostRequests : HostSetup(req)
  \/ HostAnswers \/ HostOut \/ HostResets

Spec == Init /\ [][Next]_vars

\* The program runs on, and a host goes on with its transfers and reads.
Fairness ==
  /\ WF_vars(usb_int) /\ WF_vars(main_send)
  /\ WF_vars(HostAnswers /\ host'.stage # host.stage)
  /\ SF_vars(HostDataIn(TRUE) /\ UNCHANGED count)
  /\ SF_vars(HostIn(TRUE) /\ UNCHANGED count)

FairSpec == Spec /\ Fairness

-----------------------------------------------------------------------------
(* Properties *)

TypeOK ==
  /\ state \in {"IDLE", "READY"} /\ handler \in {"ready", "spin", "halt"}
  /\ pc \in {"idle", "wait", "len", "load", "store"}
  /\ {UEP0_CTRL, UEP_CTRL, ctrl} \subseteq
       [T_TOG : {0, 1}, T_RES : {"ACK", "NAK"}]
  /\ UEP0_T_LEN \in 0..EP0_SIZE /\ UEP_T_LEN \in {0, 1}
  /\ USB_DEV_AD \in {0, 1} /\ line_coding \in 0..2
  /\ sent \in 0..MaxSends /\ dropped \subseteq 1..MaxSends

(* The interrupt handler returns: whichever requests are abandoned and       *)
(* whenever the bus is reset, nothing but a request that the device does not *)
(* know reaches NOTREACHED, and an echo does not wait for a host that reads  *)
(* the last one first.                                                       *)
HaltedByRequest ==
  /\ handler = "halt"
  /\ transfer.token = "SETUP" /\ transfer.request.bRequest = "unknown"

HandlerReturns == handler = "ready" \/ HaltedByRequest

(* What the host has read of a control transfer is what it has asked for,    *)
(* in order; a data stage ends with all of it.                               *)
Wanted(i) == CASE host.request.bRequest = "GET_DESCRIPTOR" -> i
               [] host.request.bRequest = "GET_LINE_CODING" -> host.line_coding
               [] OTHER -> 0

ControlDataInOrder ==
  /\ \A i \in 1..Len(got) : got[i] = Wanted(i)
  /\ host.stage = "status_out" =>
       Len(got) = IF host.request.bRequest = "GET_DESCRIPTOR"
                  THEN Smaller(host.request.value, host.request.wLength) ELSE 1

(* A packet that was given to usb_device_send is read by the host, once and  *)
(* in order, waits to be read, or was taken by a bus reset; an ACK of the    *)
(* host that gets lost changes nothing.                                      *)
Waiting ==
  IF /\ ~ready_to_send /\ UEP_T_LEN = 1
     /\ UEP_CTRL.T_TOG = host.tog \/ UIF_BUS_RST
  THEN {ep_buffer} ELSE {}

EveryPacketArrives ==
  /\ 1..sent \subseteq Elements(received) \union dropped \union Waiting
  /\ \A i, j \in 1..Len(received) : i < j => received[i] < received[j]
  /\ Elements(received) \union Waiting \subseteq 1..sent

(* Device and host agree on the address, but for the moment between the      *)
(* status stage of SET_ADDRESS, or a bus reset, and the interrupt.           *)
AddressAgreement ==
  USB_DEV_AD # host.address =>
    \/ UIF_BUS_RST
    \/ transfer.token = "IN0" /\ last_setup_req = host.request

(* Both have the same line coding, unless it is on its way.                  *)
LineCodingAgreement == line_coding # host.line_coding => transfer # NoTransfer

(* The device has what its host believes it has.                             *)
AgreesWithHost == AddressAgreement /\ LineCodingAgreement

(* cdc_device_send returns to the main loop while a host reads, unless a     *)
(* request has stopped the program.                                          *)
SendReturns ==
  (pc = "wait" /\ host.configured) ~>
    (pc # "wait" \/ ~host.configured \/ handler = "halt")

(* Control transfers end: no stage waits for the device for ever, but for    *)
(* one that a request has stopped.                                           *)
ControlEnds == host.stage # "idle" ~> (host.stage = "idle" \/ handler = "halt")

=============================================================================
