-------------------------- MODULE UsbDeviceProofs --------------------------
(***************************************************************************)
(* Proofs about UsbDevice for every size of endpoint 0, every set of       *)
(* descriptors and any number of requests, packets, bus resets and lost    *)
(* acknowledgements.  DeviceInv is the inductive invariant; what it says is *)
(* stated before the lemma that proves each part of it.                    *)
(***************************************************************************)
EXTENDS UsbDevice, SequenceTheorems, TLAPS

Packets == Elements(received)

Tokens == {"none", "SETUP", "IN0", "OUT0", "IN", "OUT"}
Stages == {"idle", "data_in", "data_out", "status_in", "status_out"}
Registers == [T_TOG : {0, 1}, T_RES : {"ACK", "NAK"}]
Requests == HostRequests \union {NoRequest}
Hosts == [address : {0, 1}, configured : BOOLEAN, stage : Stages,
          request : Requests, tog0 : {0, 1}, tog : {0, 1}, line_coding : 0..2]

(* The types of the variables, TypeOK among them, by the groups that the     *)
(* actions change together.                                                  *)
DeviceTypes ==
  /\ usb_device \in [driver : {"cdc", "hid"}, sender : {"main", "recv"}]
  /\ usb_device.sender = "recv" => usb_device.driver = "cdc"
  /\ state \in {"IDLE", "READY"} /\ last_setup_req \in Requests
  /\ line_coding \in 0..2 /\ sending_data \in Seq(Nat)
  /\ UEP0_CTRL \in Registers /\ UEP0_T_LEN \in 0..EP0_SIZE
  /\ ep0_buffer \in Seq(Nat) /\ Len(ep0_buffer) = UEP0_T_LEN
  /\ USB_DEV_AD \in {0, 1}

EndpointTypes ==
  /\ UEP_CTRL \in Registers /\ ctrl \in Registers
  /\ UEP_T_LEN \in {0, 1} /\ ep_buffer \in Nat
  /\ pc \in {"idle", "wait", "len", "load", "store"}
  /\ sent \in 0..MaxSends /\ dropped \subseteq 1..MaxSends

BusTypes ==
  /\ handler \in {"ready", "spin", "halt"}
  /\ transfer \in [token : Tokens, request : Requests]
  /\ transfer.token = "none" => transfer = NoTransfer
  /\ UIF_BUS_RST \in BOOLEAN
  /\ host \in Hosts
  /\ got \in Seq(Nat) /\ received \in Seq(Nat)

\* The last request of the device is the host's, once it has arrived; and the
\* stage of the host is one its request has.
SetupInv ==
  /\ IF transfer.token = "SETUP" THEN transfer.request = host.request
     ELSE last_setup_req = host.request
  /\ host.stage \in {"data_in", "status_out"} => host.request.dir = "IN"
  /\ host.stage \in {"data_out", "status_in"} => host.request.dir = "OUT"
  /\ host.stage = "data_out" => host.request.wLength # 0
  /\ transfer.token = "OUT0" => host.stage \in {"idle", "status_in"}
  /\ UIF_BUS_RST => host.stage = "idle"

\* An OUT on endpoint 0 is one the handler knows: a status stage, or data of a
\* request the class driver remembers.
DataOut == transfer.token = "OUT0" /\ host.request.dir = "OUT"

OutInv ==
  /\ handler = "halt" => HaltedByRequest
  /\ handler = "spin" => transfer.token = "OUT"
  /\ host.stage = "data_out" /\ transfer.token # "SETUP" =>
       last_request = host.request.bRequest
  /\ DataOut => /\ host.request.wLength # 0
                /\ last_request = host.request.bRequest
                /\ transfer.request = host.request
                /\ host.line_coding = host.request.value
  /\ line_coding # host.line_coding => DataOut

\* The address is the host's, or about to be.
AddressOnItsWay ==
  transfer.token = "IN0" /\ host.request.bRequest = "SET_ADDRESS"

AddressInv ==
  /\ UIF_BUS_RST => host.address = 0 /\ host.tog = 0
  /\ ~UIF_BUS_RST => \/ USB_DEV_AD = host.address
                     \/ AddressOnItsWay
  /\ AddressOnItsWay /\ ~UIF_BUS_RST => host.address = host.request.value

\* What is on its way to the host in a data stage: the packet in the buffer,
\* when it is ahead of what the host has read, and then what is left.
Total(req) == IF req.bRequest = "GET_DESCRIPTOR"
              THEN Smaller(req.value, req.wLength) ELSE 1
Ahead == UEP0_CTRL.T_TOG = host.tog0
From == IF Ahead THEN Len(got) + UEP0_T_LEN ELSE Len(got)

StageInv ==
  /\ transfer.token = "IN0" => ~Ahead
  /\ From + Len(sending_data) = Total(host.request)
  /\ Ahead => \A i \in 1..UEP0_T_LEN : ep0_buffer[i] = Wanted(Len(got) + i)
  /\ \A i \in 1..Len(sending_data) : sending_data[i] = Wanted(From + i)
  /\ sending_data # <<>> => UEP0_T_LEN = EP0_SIZE

DataInv ==
  /\ host.request.dir = "OUT" => got = <<>>
  /\ transfer.token = "SETUP" /\ host.stage # "idle" => got = <<>> /\ host.tog0 = 1
  /\ \A i \in 1..Len(got) : got[i] = Wanted(i)
  /\ host.stage = "status_out" => Len(got) = Total(host.request)
  /\ host.stage = "data_in" /\ transfer.token # "SETUP" => StageInv

\* The last packet of the IN endpoint: where it is, by the control register
\* and the toggles.
Busy == pc \in {"len", "load", "store"}
Done == Packets \union dropped

SenderInv ==
  /\ pc # "idle" => usb_device.sender = "main" /\ sent < MaxSends
  /\ transfer.token = "OUT" => usb_device.sender = "recv"
  /\ ctrl.T_RES = "NAK"
  /\ Busy => ready_to_send /\ ep_buffer = sent + 1
  /\ pc \in {"load", "store"} => UEP_T_LEN = 1
  /\ pc = "store" =>
       UIF_BUS_RST \/ ctrl.T_TOG = UEP_CTRL.T_TOG \/ sent + 1 \in dropped
  /\ ~ready_to_send => ep_buffer = sent /\ UEP_T_LEN = 1 /\ sent > 0

PacketInv ==
  /\ Packets \subseteq 1..sent /\ 1..(sent - 1) \subseteq Done
  /\ \A i, j \in 1..Len(received) : i < j => received[i] < received[j]
  /\ transfer.token = "IN" => ~ready_to_send /\ sent \in Done
  /\ ready_to_send => 1..sent \subseteq Done
  /\ \/ UIF_BUS_RST \/ UEP_CTRL.T_TOG = host.tog
     \/ ~ready_to_send /\ transfer.token # "IN" /\ sent \in Done
  /\ (/\ ~UIF_BUS_RST /\ ~ready_to_send /\ transfer.token # "IN"
      /\ UEP_CTRL.T_TOG = host.tog) => sent \notin Packets

TypeInv == DeviceTypes /\ EndpointTypes /\ BusTypes
DeviceInv == /\ TypeInv /\ SetupInv /\ OutInv /\ AddressInv
             /\ DataInv /\ SenderInv /\ PacketInv

\* An echo finds the endpoint free.
EchoInv ==
  /\ handler # "spin"
  /\ transfer.token = "OUT" => ready_to_send

-----------------------------------------------------------------------------
(* Requests and packets *)

\* What a request of the host looks like.
LEMMA RequestFacts ==
  ASSUME DeviceTypes, NEW req \in Requests
  PROVE  /\ req.dir \in {"IN", "OUT"} /\ req.wLength \in Nat /\ req.value \in Nat
         /\ req.dir = "IN" => Total(req) \in 1..req.wLength
         /\ req.dir = "OUT" =>
              /\ req.bRequest # "GET_DESCRIPTOR"
              /\ req.wLength # 0 =>
                   /\ req.bRequest = "SET_LINE_CODING" /\ req.type = "class"
                   /\ req.value \in 0..2 /\ usb_device.driver = "cdc"
         /\ req.bRequest = "SET_ADDRESS" =>
              req.value = 1 /\ req.dir = "OUT" /\ req.wLength = 0
         /\ req.bRequest # "none" \/ req = NoRequest
<1>1. CASE req \in StandardRequests
  <2>1. CASE req.bRequest = "GET_DESCRIPTOR"
    <3>1. PICK len \in WLengths \ {0}, size \in Sizes :
            req = Request("GET_DESCRIPTOR", "IN", "standard", len, size)
      BY <1>1, <2>1 DEF StandardRequests, Request
    <3> QED BY <3>1, UsbDeviceAssumption DEF Request, Total, Smaller
  <2> QED BY <1>1, <2>1 DEF StandardRequests, Request, Total
<1>2. CASE req \in ClassRequests
  BY <1>2 DEF ClassRequests, Request, Total, DeviceTypes
<1>3. CASE req \in UnknownRequests \union {NoRequest}
  BY <1>3 DEF UnknownRequests, NoRequest, Request, Total
<1> QED BY <1>1, <1>2, <1>3 DEF Requests, HostRequests

\* What the device answers to an IN request.
LEMMA AskedFacts ==
  ASSUME DeviceTypes, NEW req \in Requests, req.dir = "IN"
  PROVE  /\ Asked(req) \in Seq(Nat) /\ Len(Asked(req)) = Total(req)
         /\ \A i \in 1..Total(req) :
              Asked(req)[i] = CASE req.bRequest = "GET_DESCRIPTOR" -> i
                                [] req.bRequest = "GET_LINE_CODING" -> line_coding
                                [] OTHER -> 0
<1>1. line_coding \in Nat /\ Total(req) \in Nat
  BY RequestFacts DEF DeviceTypes
<1>2. CASE req.bRequest = "GET_DESCRIPTOR"
  <2>1. Asked(req) = [i \in 1..Total(req) |-> i]
    BY <1>2 DEF Asked, Total
  <2>2. Asked(req) \in Seq(Nat)
    BY <2>1, <1>1, IsASeq
  <2>3. Len(Asked(req)) = Total(req)
    BY <2>1, <2>2, <1>1, LenProperties
  <2> QED BY <1>2, <2>1, <2>2, <2>3
<1>3. CASE req.bRequest = "GET_LINE_CODING"
  BY <1>1, <1>3 DEF Asked, Total
<1>4. CASE req.bRequest \notin {"GET_DESCRIPTOR", "GET_LINE_CODING"}
  BY <1>4 DEF Asked, Total
<1> QED BY <1>2, <1>3, <1>4

\* How data is cut into the first packet and what is left.
LEMMA CutFacts ==
  ASSUME NEW data \in Seq(Nat), NEW n, n = Smaller(Len(data), EP0_SIZE)
  PROVE  /\ n \in 0..EP0_SIZE /\ n \in 0..Len(data)
         /\ SubSeq(data, 1, n) \in Seq(Nat) /\ Len(SubSeq(data, 1, n)) = n
         /\ \A i \in 1..n : SubSeq(data, 1, n)[i] = data[i]
         /\ SubSeq(data, n + 1, Len(data)) \in Seq(Nat)
         /\ Len(SubSeq(data, n + 1, Len(data))) = Len(data) - n
         /\ \A i \in 1..(Len(data) - n) :
              SubSeq(data, n + 1, Len(data))[i] = data[n + i]
         /\ SubSeq(data, n + 1, Len(data)) # <<>> => n = EP0_SIZE
<1>1. Len(data) \in Nat /\ EP0_SIZE \in Nat /\ \A i \in 1..Len(data) : data[i] \in Nat
  BY LenProperties, ElementOfSeq, UsbDeviceAssumption
<1>2. n \in 0..EP0_SIZE /\ n \in 0..Len(data) /\ (n = EP0_SIZE \/ n = Len(data))
  BY <1>1 DEF Smaller
<1>3. /\ SubSeq(data, 1, n) \in Seq(Nat) /\ Len(SubSeq(data, 1, n)) = n
      /\ \A i \in 1..n : SubSeq(data, 1, n)[i] = data[i]
  <2>1. \A i \in 1..n : data[i] \in Nat
    BY <1>1, <1>2
  <2>2. /\ SubSeq(data, 1, n) \in Seq(Nat)
        /\ Len(SubSeq(data, 1, n)) = IF 1 <= n THEN n - 1 + 1 ELSE 0
        /\ \A i \in 1..(n - 1 + 1) : SubSeq(data, 1, n)[i] = data[1 + i - 1]
    BY <1>2, <2>1, SubSeqProperties
  <2>3. n - 1 + 1 = n /\ \A i \in 1..n : 1 + i - 1 = i
    BY <1>2
  <2> QED BY <1>2, <2>2, <2>3
<1>4. /\ SubSeq(data, n + 1, Len(data)) \in Seq(Nat)
      /\ Len(SubSeq(data, n + 1, Len(data))) = Len(data) - n
      /\ \A i \in 1..(Len(data) - n) :
           SubSeq(data, n + 1, Len(data))[i] = data[n + i]
  <2>1. \A i \in (n + 1)..Len(data) : data[i] \in Nat
    BY <1>1, <1>2
  <2>2. /\ SubSeq(data, n + 1, Len(data)) \in Seq(Nat)
        /\ Len(SubSeq(data, n + 1, Len(data))) =
             IF n + 1 <= Len(data) THEN Len(data) - (n + 1) + 1 ELSE 0
        /\ \A i \in 1..(Len(data) - (n + 1) + 1) :
             SubSeq(data, n + 1, Len(data))[i] = data[n + 1 + i - 1]
    BY <1>1, <1>2, <2>1, SubSeqProperties
  <2>3. /\ Len(data) - (n + 1) + 1 = Len(data) - n
        /\ \A i \in 1..(Len(data) - n) : n + 1 + i - 1 = n + i
    BY <1>1, <1>2
  <2> QED BY <1>1, <1>2, <2>2, <2>3
<1>5. SubSeq(data, n + 1, Len(data)) # <<>> => n = EP0_SIZE
  BY <1>1, <1>2, <1>4, EmptySeq
<1> QED BY <1>1, <1>2, <1>3, <1>4, <1>5

-----------------------------------------------------------------------------
(* The steps *)

OnToken(t) == usb_int_transfer /\ transfer.token = t

\* Next, taken apart.
LEMMA StepCases ==
  ASSUME [Next]_vars, BusTypes
  PROVE  \/ \E t \in {"SETUP", "IN0", "OUT0", "IN", "OUT"} : OnToken(t)
         \/ usb_int_reset
         \/ cdc_device_send \/ send_copy \/ send_len \/ send_load \/ send_store
         \/ \E req \in HostRequests : HostSetup(req)
         \/ \E heard \in BOOLEAN : HostDataIn(heard)
         \/ \E heard \in BOOLEAN : HostIn(heard)
         \/ HostStatusOut \/ HostDataOut \/ HostStatusIn
         \/ HostOut \/ HostResets
         \/ UNCHANGED vars
<1>1. CASE usb_int_transfer
  BY <1>1 DEF usb_int_transfer, OnToken, BusTypes, Tokens
<1>2. CASE HostReads
  BY <1>2 DEF HostReads
<1> QED BY <1>1, <1>2 DEF Next, usb_int, main_send, HostAnswers

\* What the handler leaves alone.
LEMMA HandlerFrame ==
  ASSUME NEW t, OnToken(t)
  PROVE  /\ UNCHANGED <<usb_device, UIF_BUS_RST, host, got, received>>
         /\ handler = "ready" /\ transfer.token = t
         /\ handler' = "ready" => transfer' = NoTransfer
         /\ handler' # "ready" => UNCHANGED transfer
         /\ t \in {"SETUP", "IN0", "OUT0"} => UNCHANGED endpoint
         /\ t \in {"IN", "OUT"} => UNCHANGED device
BY DEF OnToken, usb_int_transfer, device, ep_in, ep_out

\* What usb_int does with a SETUP,
LEMMA SetupEffect ==
  ASSUME OnToken("SETUP")
  PROVE  /\ setup(transfer.request)
         /\ \/ /\ handler' = "ready" /\ transfer' = NoTransfer
               /\ transfer.request.bRequest # "unknown"
            \/ /\ handler' = "halt" /\ UNCHANGED transfer
               /\ transfer.request.bRequest = "unknown"
<1>1. /\ setup(transfer.request)
      /\ \/ UNCHANGED handler /\ transfer.request.bRequest # "unknown"
         \/ handler' = "halt" /\ transfer.request.bRequest = "unknown"
  BY DEF OnToken, usb_int_transfer, setup, answer
<1> QED BY <1>1, HandlerFrame

\* with the end of an IN of endpoint 0,
LEMMA InEffect ==
  ASSUME OnToken("IN0")
  PROVE  in /\ transfer' = NoTransfer /\ handler' = "ready"
<1>1. in /\ handler' = "ready"
  BY DEF OnToken, usb_int_transfer, in
<1> QED BY <1>1, HandlerFrame

\* No OUT reaches NOTREACHED.
LEMMA OutEffect ==
  ASSUME DeviceInv, OnToken("OUT0")
  PROVE  /\ transfer' = NoTransfer /\ handler' = "ready"
         /\ UNCHANGED <<usb_device, state, last_setup_req, USB_DEV_AD>>
         /\ \/ /\ host.request.dir = "IN" /\ ep0_nak
               /\ UNCHANGED <<last_request, line_coding>>
            \/ /\ DataOut /\ class_out(host.request.value)
               /\ line_coding' = host.request.value
<1>1. /\ out(transfer.request.value) /\ transfer.token = "OUT0"
      /\ handler = "ready" /\ last_setup_req = host.request
      /\ UNCHANGED usb_device
  BY DEF OnToken, usb_int_transfer, DeviceInv, SetupInv
<1>2. host.request \in Requests
  BY DEF DeviceInv, TypeInv, BusTypes, Hosts
<1>3. CASE host.request.dir = "IN"
  BY <1>1, <1>3, HandlerFrame DEF out
<1>4. CASE host.request.dir # "IN"
  <2>1. DataOut
    BY <1>1, <1>2, <1>4, RequestFacts DEF DataOut, DeviceInv, TypeInv
  <2>2. /\ last_request = "SET_LINE_CODING" /\ host.request.type = "class"
        /\ usb_device.driver = "cdc" /\ transfer.request = host.request
    BY <2>1, <1>2, RequestFacts DEF DeviceInv, TypeInv, OutInv, DataOut
  <2>3. class_out(host.request.value) /\ UNCHANGED <<handler, state, last_setup_req, USB_DEV_AD>>
    BY <1>1, <1>4, <2>2 DEF out
  <2> QED BY <1>1, <2>1, <2>2, <2>3, HandlerFrame DEF class_out
<1> QED BY <1>3, <1>4

\* with an OUT the application may echo,
LEMMA EchoEffect ==
  ASSUME DeviceInv, OnToken("OUT")
  PROVE  \/ /\ usb_device_send /\ ready_to_send /\ sent < MaxSends
            /\ handler' = "ready" /\ transfer' = NoTransfer
         \/ /\ handler' = "ready" /\ transfer' = NoTransfer
            /\ UNCHANGED endpoint
         \/ /\ handler' = "spin" /\ UNCHANGED <<transfer, endpoint>>
            /\ ~ready_to_send
<1>1. ep_out /\ usb_device.driver = "cdc" /\ handler = "ready"
  BY DEF OnToken, usb_int_transfer, DeviceInv, TypeInv, DeviceTypes, SenderInv
<1> QED BY <1>1, HandlerFrame DEF ep_out, recv

\* and with the end of an IN of endpoint 1.
LEMMA EndpointInEffect ==
  ASSUME OnToken("IN")
  PROVE  ep_in /\ transfer' = NoTransfer /\ handler' = "ready"
<1>1. ep_in /\ handler' = "ready"
  BY DEF OnToken, usb_int_transfer, ep_in
<1> QED BY <1>1, HandlerFrame


-----------------------------------------------------------------------------
(* Types *)

\* The registers of endpoint 0 after a packet was put there.
LEMMA SendTypes ==
  ASSUME NEW data \in Seq(Nat), ep0_send(data)
  PROVE  /\ sending_data' \in Seq(Nat) /\ ep0_buffer' \in Seq(Nat)
         /\ UEP0_T_LEN' \in 0..EP0_SIZE /\ Len(ep0_buffer') = UEP0_T_LEN'
         /\ UEP0_CTRL' \in Registers
         /\ UEP0_T_LEN' + Len(sending_data') = Len(data)
         /\ \A i \in 1..UEP0_T_LEN' : ep0_buffer'[i] = data[i]
         /\ \A i \in 1..Len(sending_data') : sending_data'[i] = data[UEP0_T_LEN' + i]
         /\ sending_data' # <<>> => UEP0_T_LEN' = EP0_SIZE
<1> DEFINE n == Smaller(Len(data), EP0_SIZE)
<1>1. /\ ep0_buffer' = SubSeq(data, 1, n) /\ UEP0_T_LEN' = n
      /\ sending_data' = SubSeq(data, n + 1, Len(data))
      /\ UEP0_CTRL' \in Registers
  BY DEF ep0_send, Control, Registers
<1>2. Len(data) \in Nat /\ n \in Nat /\ n + (Len(data) - n) = Len(data)
  BY CutFacts, LenProperties
<1> HIDE DEF n
<1>3. /\ n \in 0..EP0_SIZE
      /\ SubSeq(data, 1, n) \in Seq(Nat) /\ Len(SubSeq(data, 1, n)) = n
      /\ \A i \in 1..n : SubSeq(data, 1, n)[i] = data[i]
      /\ SubSeq(data, n + 1, Len(data)) \in Seq(Nat)
      /\ Len(SubSeq(data, n + 1, Len(data))) = Len(data) - n
      /\ \A i \in 1..(Len(data) - n) :
           SubSeq(data, n + 1, Len(data))[i] = data[n + i]
      /\ SubSeq(data, n + 1, Len(data)) # <<>> => n = EP0_SIZE
  BY CutFacts DEF n
<1> QED BY <1>1, <1>2, <1>3

\* ep0_cont cuts a packet from the front of what is left to send.
LEMMA ContTypes ==
  ASSUME DeviceTypes, ep0_cont
  PROVE  /\ sending_data' \in Seq(Nat) /\ ep0_buffer' \in Seq(Nat)
         /\ UEP0_T_LEN' \in 0..EP0_SIZE /\ Len(ep0_buffer') = UEP0_T_LEN'
         /\ UEP0_CTRL' \in Registers /\ UEP0_CTRL'.T_TOG = 1 - UEP0_CTRL.T_TOG
         /\ UEP0_T_LEN' + Len(sending_data') = Len(sending_data)
         /\ \A i \in 1..UEP0_T_LEN' : ep0_buffer'[i] = sending_data[i]
         /\ \A i \in 1..Len(sending_data') :
              sending_data'[i] = sending_data[UEP0_T_LEN' + i]
         /\ sending_data' # <<>> => UEP0_T_LEN' = EP0_SIZE
<1> DEFINE data == sending_data
           n == Smaller(Len(data), EP0_SIZE)
<1>1. /\ ep0_buffer' = SubSeq(data, 1, n) /\ UEP0_T_LEN' = n
      /\ sending_data' = SubSeq(data, n + 1, Len(data))
      /\ UEP0_CTRL' \in Registers /\ UEP0_CTRL'.T_TOG = 1 - UEP0_CTRL.T_TOG
  BY DEF ep0_cont, DeviceTypes, Registers
<1>2. data \in Seq(Nat)
  BY DEF DeviceTypes
<1> HIDE DEF data
<1>3. Len(data) \in Nat /\ n \in Nat /\ n + (Len(data) - n) = Len(data)
  BY <1>2, CutFacts, LenProperties
<1> HIDE DEF n
<1>4. /\ n \in 0..EP0_SIZE
      /\ SubSeq(data, 1, n) \in Seq(Nat) /\ Len(SubSeq(data, 1, n)) = n
      /\ \A i \in 1..n : SubSeq(data, 1, n)[i] = data[i]
      /\ SubSeq(data, n + 1, Len(data)) \in Seq(Nat)
      /\ Len(SubSeq(data, n + 1, Len(data))) = Len(data) - n
      /\ \A i \in 1..(Len(data) - n) :
           SubSeq(data, n + 1, Len(data))[i] = data[n + i]
      /\ SubSeq(data, n + 1, Len(data)) # <<>> => n = EP0_SIZE
  BY <1>2, CutFacts DEF n
<1>5. /\ sending_data' \in Seq(Nat) /\ ep0_buffer' \in Seq(Nat)
      /\ UEP0_T_LEN' \in 0..EP0_SIZE /\ Len(ep0_buffer') = UEP0_T_LEN'
      /\ UEP0_T_LEN' + Len(sending_data') = Len(data)
      /\ \A i \in 1..UEP0_T_LEN' : ep0_buffer'[i] = data[i]
      /\ \A i \in 1..Len(sending_data') : sending_data'[i] = data[UEP0_T_LEN' + i]
      /\ sending_data' # <<>> => UEP0_T_LEN' = EP0_SIZE
  BY <1>1, <1>3, <1>4
<1> QED BY <1>1, <1>5 DEF data

\* What the handler answers a SETUP with has the types of the registers.
LEMMA AnswerFacts ==
  ASSUME DeviceTypes, NEW req \in Requests
  PROVE  (IF req.dir = "IN" THEN Asked(req) ELSE <<>>) \in Seq(Nat)
BY AskedFacts, EmptySeq

\* Every step keeps the types of the device,
LEMMA DeviceTypesStep ==
  ASSUME DeviceInv, [Next]_vars
  PROVE  DeviceTypes'
<1> USE DEF DeviceInv, TypeInv
<1>1. CASE UNCHANGED device
  BY <1>1 DEF device, DeviceTypes, Requests, HostRequests, ClassRequests
<1>2. CASE OnToken("SETUP")
  <2>1. /\ setup(transfer.request) /\ transfer.request \in Requests
        /\ UNCHANGED usb_device
    BY <1>2, SetupEffect, HandlerFrame DEF BusTypes
  <2>2. /\ sending_data' \in Seq(Nat) /\ ep0_buffer' \in Seq(Nat)
        /\ UEP0_T_LEN' \in 0..EP0_SIZE /\ Len(ep0_buffer') = UEP0_T_LEN'
        /\ UEP0_CTRL' \in Registers
    <3>1. CASE UNCHANGED <<UEP0_CTRL, UEP0_T_LEN, ep0_buffer, sending_data>>
      BY <3>1 DEF DeviceTypes
    <3>2. CASE ep0_send(IF transfer.request.dir = "IN" THEN Asked(transfer.request)
                        ELSE <<>>)
      BY <2>1, <3>2, AnswerFacts, SendTypes
    <3> QED BY <2>1, <3>1, <3>2 DEF setup, answer
  <2>3. /\ last_setup_req' = transfer.request /\ Requests' = Requests
        /\ state' \in {"IDLE", "READY"} /\ UNCHANGED <<USB_DEV_AD, line_coding>>
    BY <2>1 DEF setup, answer, DeviceTypes, Requests, HostRequests, ClassRequests
  <2> QED BY <2>1, <2>2, <2>3 DEF DeviceTypes
<1>3. CASE OnToken("IN0")
  <2>1. in /\ UNCHANGED <<usb_device, state, last_setup_req, line_coding>>
    BY <1>3, InEffect, HandlerFrame DEF in
  <2>2. /\ sending_data' \in Seq(Nat) /\ ep0_buffer' \in Seq(Nat)
        /\ UEP0_T_LEN' \in 0..EP0_SIZE /\ Len(ep0_buffer') = UEP0_T_LEN'
        /\ UEP0_CTRL' \in Registers
    <3>1. CASE ep0_cont
      BY <3>1, ContTypes
    <3>2. CASE ep0_nak
      BY <3>2 DEF ep0_nak, DeviceTypes, Control, Registers
    <3> QED BY <2>1, <3>1, <3>2 DEF in
  <2>3. USB_DEV_AD' \in {0, 1}
    BY <2>1, RequestFacts DEF in, DeviceTypes
  <2> QED BY <2>1, <2>2, <2>3 DEF DeviceTypes, Requests, HostRequests, ClassRequests
<1>4. CASE OnToken("OUT0")
  <2>1. /\ UNCHANGED <<usb_device, state, last_setup_req, USB_DEV_AD>>
        /\ UNCHANGED <<UEP0_T_LEN, ep0_buffer, sending_data>>
        /\ UEP0_CTRL' \in Registers
    BY <1>4, OutEffect DEF ep0_nak, class_out, DeviceTypes, Control, Registers
  <2>2. line_coding' \in 0..2
    BY <1>4, OutEffect, RequestFacts DEF DeviceTypes, BusTypes, Hosts, OutInv
  <2> QED BY <2>1, <2>2 DEF DeviceTypes, Requests, HostRequests, ClassRequests
<1>5. CASE usb_int_reset
  BY <1>5 DEF usb_int_reset, bus_reset, DeviceTypes, Control, Registers,
          Requests, HostRequests, ClassRequests
<1>6. CASE OnToken("IN") \/ OnToken("OUT")
  BY <1>1, <1>6, HandlerFrame
<1>7. CASE cdc_device_send \/ send_copy \/ send_len \/ send_load \/ send_store
  BY <1>1, <1>7 DEF cdc_device_send, send_copy, send_len, send_load, send_store,
               main_step
<1>8. CASE \/ \E req \in HostRequests : HostSetup(req)
           \/ \E heard \in BOOLEAN : HostDataIn(heard)
           \/ \E heard \in BOOLEAN : HostIn(heard)
           \/ HostStatusOut \/ HostDataOut \/ HostStatusIn
           \/ HostOut \/ HostResets
  BY <1>1, <1>8 DEF HostSetup, HostDataIn, HostIn, HostStatusOut, HostDataOut,
               HostStatusIn, HostOut, HostResets, Answers
<1> QED BY <1>1, <1>2, <1>3, <1>4, <1>5, <1>6, <1>7, <1>8, StepCases DEF vars


\* of its endpoint,
LEMMA EndpointTypesStep ==
  ASSUME DeviceInv, [Next]_vars
  PROVE  EndpointTypes'
<1> USE DEF DeviceInv, TypeInv
<1> MaxSends \in Nat
  BY UsbDeviceAssumption
<1>1. CASE UNCHANGED endpoint
  BY <1>1 DEF endpoint, EndpointTypes
<1>2. CASE \E t \in {"SETUP", "IN0", "OUT0"} : OnToken(t)
  BY <1>1, <1>2, HandlerFrame
<1>3. CASE OnToken("IN")
  BY <1>3, EndpointInEffect DEF ep_in, EndpointTypes, Registers
<1>4. CASE OnToken("OUT")
  <2>1. CASE usb_device_send /\ sent < MaxSends
    BY <2>1 DEF usb_device_send, EndpointTypes, Registers
  <2> QED BY <1>1, <1>4, <2>1, EchoEffect
<1>5. CASE usb_int_reset
  <2>1. /\ bus_reset /\ UEP_CTRL' \in Registers
        /\ UNCHANGED <<ctrl, UEP_T_LEN, ep_buffer, pc, sent>>
    BY <1>5 DEF usb_int_reset, bus_reset, Control, Registers
  <2>2. ~ready_to_send => sent \in 1..MaxSends
    BY DEF SenderInv, EndpointTypes
  <2>3. pc = "store" => sent + 1 \in 1..MaxSends
    BY DEF SenderInv, EndpointTypes
  <2>4. dropped' \subseteq 1..MaxSends
    BY <2>1, <2>2, <2>3 DEF bus_reset, EndpointTypes
  <2> QED BY <2>1, <2>4 DEF EndpointTypes
<1>6. CASE cdc_device_send \/ send_copy \/ send_len \/ send_load
  <2>1. CASE cdc_device_send
    BY <2>1 DEF cdc_device_send, main_step, EndpointTypes
  <2>2. CASE send_copy
    BY <2>2 DEF send_copy, main_step, EndpointTypes
  <2>3. CASE send_len
    BY <2>3 DEF send_len, main_step, EndpointTypes
  <2>4. CASE send_load
    BY <2>4 DEF send_load, main_step, EndpointTypes
  <2> QED BY <1>6, <2>1, <2>2, <2>3, <2>4
<1>7. CASE send_store
  BY <1>7 DEF send_store, main_step, EndpointTypes, SenderInv, Registers, Control
<1>8. CASE \E heard \in BOOLEAN : HostIn(heard)
  BY <1>8 DEF HostIn, EndpointTypes, Registers
<1>9. CASE \/ \E req \in HostRequests : HostSetup(req)
           \/ \E heard \in BOOLEAN : HostDataIn(heard)
           \/ HostStatusOut \/ HostDataOut \/ HostStatusIn
           \/ HostOut \/ HostResets
  BY <1>1, <1>9 DEF HostSetup, HostDataIn, HostStatusOut, HostDataOut,
               HostStatusIn, HostOut, HostResets, Answers
<1> QED BY <1>1, <1>2, <1>3, <1>4, <1>5, <1>6, <1>7, <1>8, <1>9, StepCases
        DEF vars

\* The packet that the host reads on endpoint 0 is the whole of the buffer.
LEMMA PacketFacts ==
  ASSUME DeviceTypes
  PROVE  Packet0 = ep0_buffer
<1>1. ep0_buffer \in Seq(Nat) /\ Len(ep0_buffer) = UEP0_T_LEN
  BY DEF DeviceTypes
<1> QED BY <1>1, SubSeqFull DEF Packet0

\* What the host has read, after it has read another packet.
LEMMA GotFacts ==
  ASSUME DeviceTypes, BusTypes
  PROVE  /\ got \o Packet0 \in Seq(Nat) /\ Len(got) \in Nat
         /\ Len(got \o Packet0) = Len(got) + UEP0_T_LEN
         /\ \A i \in 1..(Len(got) + UEP0_T_LEN) :
              (got \o Packet0)[i] = IF i <= Len(got) THEN got[i]
                                    ELSE ep0_buffer[i - Len(got)]
<1>1. /\ Packet0 = ep0_buffer /\ got \in Seq(Nat) /\ ep0_buffer \in Seq(Nat)
      /\ Len(ep0_buffer) = UEP0_T_LEN
  BY PacketFacts DEF DeviceTypes, BusTypes
<1>2. /\ got \o ep0_buffer \in Seq(Nat)
      /\ Len(got \o ep0_buffer) = Len(got) + Len(ep0_buffer)
      /\ \A i \in 1..(Len(got) + Len(ep0_buffer)) :
           (got \o ep0_buffer)[i] = IF i <= Len(got) THEN got[i]
                                    ELSE ep0_buffer[i - Len(got)]
  BY <1>1, ConcatProperties
<1>3. Len(got) \in Nat
  BY <1>1, LenProperties
<1> QED BY <1>1, <1>2, <1>3

\* One more packet received.
LEMMA ReceivedFacts ==
  ASSUME EndpointTypes, BusTypes, NEW p \in Nat
  PROVE  /\ Append(received, p) \in Seq(Nat) /\ Len(received) \in Nat
         /\ Len(Append(received, p)) = Len(received) + 1
         /\ \A i \in 1..Len(received) : Append(received, p)[i] = received[i]
         /\ Append(received, p)[Len(received) + 1] = p
         /\ Elements(Append(received, p)) = Packets \union {p}
<1>1. received \in Seq(Nat) /\ Len(received) \in Nat
  BY LenProperties DEF BusTypes
<1>2. /\ Append(received, p) \in Seq(Nat)
      /\ Len(Append(received, p)) = Len(received) + 1
      /\ \A i \in 1..Len(received) : Append(received, p)[i] = received[i]
      /\ Append(received, p)[Len(received) + 1] = p
  BY <1>1, AppendProperties
<1>3. Elements(Append(received, p)) = Packets \union {p}
  BY <1>1, <1>2 DEF Elements, Packets
<1> QED BY <1>1, <1>2, <1>3

\* The packet that the host reads on the IN endpoint is the last one.
LEMMA HostInFacts ==
  ASSUME DeviceInv, NEW heard \in BOOLEAN, HostIn(heard)
  PROVE  /\ ~ready_to_send /\ ep_buffer = sent /\ sent \in 1..MaxSends
         /\ transfer = NoTransfer /\ ~UIF_BUS_RST
         /\ UNCHANGED <<device, handler, UIF_BUS_RST, pc, ctrl, sent, dropped,
                        UEP_T_LEN, ep_buffer, got>>
         /\ UEP_CTRL.T_TOG = host.tog =>
              /\ received' = Append(received, sent)
              /\ host' = [host EXCEPT !.tog = 1 - @]
         /\ UEP_CTRL.T_TOG # host.tog => UNCHANGED <<received, host>>
         /\ IF heard
            THEN transfer' = Token("IN") /\ UEP_CTRL' = [UEP_CTRL EXCEPT !.T_TOG = 1 - @]
            ELSE UNCHANGED <<transfer, UEP_CTRL>>
<1>1. ~ready_to_send /\ transfer = NoTransfer /\ ~UIF_BUS_RST
  BY DEF HostIn, Answers, ready_to_send
<1>2. ep_buffer = sent /\ UEP_T_LEN = 1 /\ sent \in 1..MaxSends
  BY <1>1, UsbDeviceAssumption DEF DeviceInv, TypeInv, EndpointTypes, SenderInv
<1> QED BY <1>1, <1>2 DEF HostIn, Answers

\* and of the host and its transfer.
LEMMA BusTypesStep ==
  ASSUME DeviceInv, [Next]_vars
  PROVE  BusTypes'
<1> USE DEF DeviceInv, TypeInv
<1>1. UNCHANGED usb_device
  BY StepCases, HandlerFrame DEF usb_int_reset, bus_reset, cdc_device_send,
     send_copy, send_len, send_load, send_store, main_step, HostSetup,
     HostDataIn, HostIn, HostStatusOut, HostDataOut, HostStatusIn, HostOut,
     HostResets, Answers, device, vars
<1>2. Requests' = Requests /\ NoRequest \in Requests
  BY <1>1 DEF Requests, HostRequests, ClassRequests
<1>3. NoTransfer \in [token : Tokens, request : Requests]
  BY <1>2 DEF NoTransfer, Tokens
<1> USE DEF NoTransfer, Token, Hosts
<1>4. CASE \E t \in {"SETUP", "IN0", "OUT0", "IN", "OUT"} : OnToken(t)
  <2>1. UNCHANGED <<UIF_BUS_RST, host, got, received>> /\ transfer' \in {transfer, NoTransfer}
    BY <1>4, HandlerFrame
  <2>2. handler' \in {"ready", "spin", "halt"}
    BY <1>4, SetupEffect, InEffect, OutEffect, EchoEffect, EndpointInEffect
  <2> QED BY <1>2, <1>3, <2>1, <2>2 DEF BusTypes
<1>5. CASE UNCHANGED <<bus, handler>>
  BY <1>2, <1>5 DEF bus, BusTypes
<1>6. CASE usb_int_reset
  BY <1>2, <1>6 DEF usb_int_reset, bus_reset, BusTypes
<1>7. CASE cdc_device_send \/ send_copy \/ send_len \/ send_load \/ send_store
  BY <1>5, <1>7 DEF cdc_device_send, send_copy, send_len, send_load, send_store,
               main_step
<1>8. CASE \E req \in HostRequests : HostSetup(req)
  <2>1. PICK req \in Requests : HostSetup(req)
    BY <1>8 DEF Requests
  <2>2. /\ transfer' = [token |-> "SETUP", request |-> req] /\ got' = <<>>
        /\ UNCHANGED <<handler, UIF_BUS_RST, received>>
    BY <2>1 DEF HostSetup, Answers
  <2>3. host' \in Hosts
    BY <2>1 DEF HostSetup, BusTypes, Stages
  <2> QED BY <1>2, <2>2, <2>3, EmptySeq DEF BusTypes, Tokens
<1>9. ASSUME NEW heard \in BOOLEAN, HostDataIn(heard) PROVE BusTypes'
  <2>1. /\ transfer' \in {NoTransfer, Token("IN0")}
        /\ UNCHANGED <<handler, UIF_BUS_RST, received>>
    BY <1>9 DEF HostDataIn, Answers
  <2>2. got' \in Seq(Nat)
    BY <1>9, GotFacts DEF HostDataIn, BusTypes
  <2>3. host' \in Hosts
    <3>1. \E s \in {"status_out", host.stage} :
            host' \in {host, [host EXCEPT !.tog0 = 1 - @, !.stage = s]}
      BY <1>9 DEF HostDataIn, BusTypes
    <3>2. host.tog0 \in {0, 1} /\ 1 - host.tog0 \in {0, 1} /\ host.stage \in Stages
      BY DEF BusTypes, Hosts
    <3>3. ASSUME NEW s \in Stages, host' = [host EXCEPT !.tog0 = 1 - @, !.stage = s]
          PROVE  host' \in Hosts
      BY <3>2, <3>3 DEF BusTypes, Hosts
    <3> QED BY <3>1, <3>2, <3>3 DEF BusTypes, Hosts, Stages
  <2> QED BY <1>2, <2>1, <2>2, <2>3 DEF BusTypes, Tokens
<1>10. ASSUME NEW heard \in BOOLEAN, HostIn(heard) PROVE BusTypes'
  <2>1. received' \in Seq(Nat)
    <3>1. sent \in Nat
      BY DEF EndpointTypes
    <3>2. received' \in {received, Append(received, sent)}
      BY <1>10, HostInFacts
    <3> QED BY <3>1, <3>2, ReceivedFacts DEF BusTypes
  <2>2. /\ host' \in Hosts
        /\ UNCHANGED <<handler, UIF_BUS_RST, got>>
    <3>1. host' \in {host, [host EXCEPT !.tog = 1 - @]}
      BY <1>10, HostInFacts
    <3>2. UNCHANGED <<handler, UIF_BUS_RST, got>>
      BY <1>10, HostInFacts
    <3>3. host.tog \in {0, 1} /\ 1 - host.tog \in {0, 1}
      BY DEF BusTypes
    <3>4. CASE host' = [host EXCEPT !.tog = 1 - @]
      BY <3>2, <3>3, <3>4 DEF BusTypes
    <3> QED BY <3>1, <3>2, <3>4 DEF BusTypes
  <2>3. transfer' \in {transfer, Token("IN")}
    BY <1>10, HostInFacts
  <2> QED BY <1>2, <2>1, <2>2, <2>3 DEF BusTypes, Tokens
<1>11. CASE HostStatusOut
  BY <1>2, <1>11 DEF HostStatusOut, Answers, endpoint, BusTypes, Tokens, Stages
<1>12. CASE HostDataOut
  BY <1>2, <1>12, RequestFacts DEF HostDataOut, Answers, endpoint, BusTypes, Tokens,
                              Stages, SetupInv
<1>13. CASE HostStatusIn
  BY <1>2, <1>13, RequestFacts DEF HostStatusIn, Answers, endpoint, BusTypes, Tokens,
                              Stages
<1>14. CASE HostOut
  BY <1>2, <1>14 DEF HostOut, Answers, endpoint, BusTypes, Tokens
<1>15. CASE HostResets
  BY <1>2, <1>15 DEF HostResets, endpoint, BusTypes, Stages
<1> QED BY <1>4, <1>5, <1>6, <1>7, <1>8, <1>9, <1>10, <1>11, <1>12, <1>13, <1>14,
           <1>15, StepCases DEF vars


-----------------------------------------------------------------------------
(* Requests *)

\* What reading a data stage does to the host, and what stays.
LEMMA HostDataInFacts ==
  ASSUME DeviceInv, NEW heard \in BOOLEAN, HostDataIn(heard)
  PROVE  /\ transfer = NoTransfer /\ ~UIF_BUS_RST /\ host.stage = "data_in"
         /\ transfer' \in {NoTransfer, Token("IN0")}
         /\ UNCHANGED <<device, endpoint, handler, UIF_BUS_RST, received>>
         /\ host'.stage \in {"data_in", "status_out"}
         /\ host'.request = host.request /\ host'.address = host.address
         /\ host'.line_coding = host.line_coding /\ host'.tog = host.tog
         /\ host'.configured = host.configured
BY DEF HostDataIn, Answers, DeviceInv, TypeInv, BusTypes, Hosts

\* Reading a packet changes nothing else of the host than its toggle.
LEMMA HostInKeeps ==
  ASSUME DeviceInv, NEW heard \in BOOLEAN, HostIn(heard)
  PROVE  /\ transfer = NoTransfer /\ ~UIF_BUS_RST
         /\ transfer' \in {NoTransfer, Token("IN")}
         /\ UNCHANGED <<device, handler, UIF_BUS_RST, got>>
         /\ host'.stage = host.stage /\ host'.tog0 = host.tog0
         /\ host'.request = host.request /\ host'.address = host.address
         /\ host'.line_coding = host.line_coding
BY DEF HostIn, Answers, DeviceInv, TypeInv, BusTypes, Hosts

\* The main loop changes the IN endpoint only.
LEMMA MainFrame ==
  ASSUME cdc_device_send \/ send_copy \/ send_len \/ send_load \/ send_store
  PROVE  UNCHANGED <<device, bus, handler>>
BY DEF cdc_device_send, send_copy, send_len, send_load, send_store, main_step

\* Every step keeps SetupInv,
LEMMA SetupStep ==
  ASSUME DeviceInv, [Next]_vars
  PROVE  SetupInv'
<1> USE DEF DeviceInv, TypeInv, SetupInv
<1>1. CASE /\ UNCHANGED <<transfer, last_setup_req, host>>
           /\ UIF_BUS_RST' => UIF_BUS_RST
  BY <1>1
<1>2. CASE OnToken("SETUP")
  BY <1>2, SetupEffect, HandlerFrame DEF setup, NoTransfer
<1>3. CASE \E t \in {"IN0", "OUT0", "IN", "OUT"} : OnToken(t)
  <2>1. /\ UNCHANGED <<last_setup_req, host, UIF_BUS_RST>>
        /\ transfer.token # "SETUP" /\ transfer' \in {transfer, NoTransfer}
    BY <1>3, HandlerFrame, InEffect, OutEffect DEF in, device
  <2> QED BY <2>1 DEF NoTransfer
<1>4. CASE usb_int_reset
  BY <1>1, <1>4 DEF usb_int_reset, bus_reset
<1>5. CASE cdc_device_send \/ send_copy \/ send_len \/ send_load \/ send_store
  BY <1>1, <1>5, MainFrame DEF device, bus
<1>6. ASSUME NEW req \in HostRequests, HostSetup(req)
      PROVE  SetupInv'
  <2>1. /\ ~UIF_BUS_RST' /\ host'.request = req
        /\ transfer' = [token |-> "SETUP", request |-> req]
        /\ host'.stage = IF req.wLength = 0 THEN "status_in"
                         ELSE IF req.dir = "IN" THEN "data_in" ELSE "data_out"
    BY <1>6 DEF HostSetup, Answers, BusTypes, Hosts
  <2>2. /\ req.dir \in {"IN", "OUT"} /\ req.wLength \in Nat
        /\ req.dir = "IN" => req.wLength # 0
    BY RequestFacts DEF Requests
  <2> QED BY <2>1, <2>2
<1>7. ASSUME NEW heard \in BOOLEAN, HostDataIn(heard) PROVE SetupInv'
  BY <1>7, HostDataInFacts DEF device, NoTransfer, Token
<1>8. ASSUME NEW heard \in BOOLEAN, HostIn(heard) PROVE SetupInv'
  BY <1>8, HostInKeeps DEF device, NoTransfer, Token
<1>9. CASE HostStatusOut \/ HostDataOut
  <2>1. CASE HostStatusOut
    BY <2>1 DEF HostStatusOut, Answers, device, NoTransfer, Token, BusTypes, Hosts
  <2>2. CASE HostDataOut
    BY <2>2 DEF HostDataOut, Answers, device, NoTransfer, BusTypes, Hosts
  <2> QED BY <1>9, <2>1, <2>2
<1>10. CASE HostStatusIn
  BY <1>10 DEF HostStatusIn, Answers, device, NoTransfer, Token, BusTypes, Hosts
<1>11. CASE HostOut
  BY <1>11 DEF HostOut, Answers, device, NoTransfer, Token
<1>12. CASE HostResets
  BY <1>12 DEF HostResets, device, BusTypes, Hosts
<1> QED BY <1>1, <1>2, <1>3, <1>4, <1>5, <1>6, <1>7, <1>8, <1>9, <1>10, <1>11,
           <1>12, StepCases DEF vars, device, bus

\* OutInv,
LEMMA OutStep ==
  ASSUME DeviceInv, [Next]_vars
  PROVE  OutInv'
<1> USE DEF DeviceInv, TypeInv, OutInv, DataOut, HaltedByRequest
<1>1. CASE UNCHANGED <<transfer, last_request, line_coding, handler, host>>
  BY <1>1
<1>2. CASE OnToken("SETUP")
  <2>1. /\ setup(transfer.request) /\ transfer.request = host.request
        /\ transfer.token = "SETUP"
        /\ \/ transfer' = NoTransfer /\ handler' = "ready"
           \/ /\ UNCHANGED transfer /\ handler' = "halt"
              /\ transfer.request.bRequest = "unknown"
        /\ UNCHANGED <<host, usb_device, line_coding>>
    BY <1>2, SetupEffect, HandlerFrame DEF SetupInv, setup
  <2>2. host.stage = "data_out" => last_request' = host.request.bRequest
    <3>1. host.stage = "data_out" =>
            host.request.type = "class" /\ usb_device.driver = "cdc"
      BY RequestFacts DEF SetupInv, BusTypes, Hosts
    <3> QED BY <2>1, <3>1 DEF setup, answer, class_setup
  <2> QED BY <1>2, <2>1, <2>2, HandlerFrame DEF NoTransfer
<1>3. CASE OnToken("IN0")
  BY <1>3, InEffect, HandlerFrame DEF in, NoTransfer
<1>4. CASE OnToken("OUT0")
  <2>1. /\ transfer' = NoTransfer /\ handler' = "ready" /\ UNCHANGED host
        /\ \/ host.request.dir = "IN" /\ UNCHANGED <<last_request, line_coding>>
           \/ DataOut /\ line_coding' = host.request.value
    BY <1>4, OutEffect, HandlerFrame
  <2> QED BY <2>1 DEF NoTransfer, SetupInv
<1>5. CASE OnToken("IN") \/ OnToken("OUT")
  <2>1. /\ transfer.token \in {"IN", "OUT"} /\ handler' \in {"ready", "spin"}
        /\ UNCHANGED <<host, last_request, line_coding>>
        /\ transfer' \in {transfer, NoTransfer}
        /\ handler' = "spin" => transfer' = transfer /\ transfer.token = "OUT"
    BY <1>5, EndpointInEffect, EchoEffect, HandlerFrame DEF device
  <2> QED BY <2>1 DEF NoTransfer
<1>6. CASE usb_int_reset
  BY <1>1, <1>6 DEF usb_int_reset, bus_reset
<1>7. CASE cdc_device_send \/ send_copy \/ send_len \/ send_load \/ send_store
  BY <1>1, <1>7, MainFrame DEF device, bus
<1>8. ASSUME NEW req \in HostRequests, HostSetup(req)
      PROVE  OutInv'
  <2>1. /\ transfer'.token = "SETUP" /\ host'.line_coding = host.line_coding
        /\ transfer.token = "none" /\ UNCHANGED <<handler, line_coding>>
    BY <1>8 DEF HostSetup, Answers, device, BusTypes, Hosts, NoTransfer
  <2> QED BY <2>1
<1>9. ASSUME NEW heard \in BOOLEAN, HostDataIn(heard) PROVE OutInv'
  BY <1>9, HostDataInFacts DEF device, NoTransfer, Token
<1>10. ASSUME NEW heard \in BOOLEAN, HostIn(heard) PROVE OutInv'
  BY <1>10, HostInKeeps DEF device, NoTransfer, Token
<1>11. CASE HostStatusOut
  BY <1>11 DEF HostStatusOut, Answers, device, NoTransfer, Token, BusTypes, Hosts,
     SetupInv
<1>12. CASE HostDataOut
  BY <1>12 DEF HostDataOut, Answers, device, NoTransfer, BusTypes, Hosts, SetupInv
<1>13. CASE HostStatusIn
  BY <1>13 DEF HostStatusIn, Answers, device, NoTransfer, Token, BusTypes, Hosts
<1>14. CASE HostOut
  BY <1>14 DEF HostOut, Answers, device, NoTransfer, Token
<1>15. CASE HostResets
  BY <1>15 DEF HostResets, device, BusTypes, Hosts
<1> QED BY <1>1, <1>2, <1>3, <1>4, <1>5, <1>6, <1>7, <1>8, <1>9, <1>10, <1>11,
           <1>12, <1>13, <1>14, <1>15, StepCases DEF vars, device, bus

\* and AddressInv.
LEMMA AddressStep ==
  ASSUME DeviceInv, [Next]_vars
  PROVE  AddressInv'
<1> USE DEF DeviceInv, TypeInv, AddressInv, AddressOnItsWay
<1>1. CASE UNCHANGED <<transfer, UIF_BUS_RST, host, USB_DEV_AD>>
  BY <1>1
<1>2. CASE \E t \in {"SETUP", "OUT0", "IN", "OUT"} : OnToken(t)
  <2>1. /\ UNCHANGED <<UIF_BUS_RST, host, USB_DEV_AD>> /\ transfer.token # "IN0"
        /\ transfer' \in {transfer, NoTransfer}
    BY <1>2, HandlerFrame, SetupEffect, OutEffect DEF setup, device
  <2> QED BY <2>1 DEF NoTransfer
<1>3. CASE OnToken("IN0")
  <2>1. /\ in /\ transfer' = NoTransfer /\ last_setup_req = host.request
        /\ UNCHANGED <<UIF_BUS_RST, host>> /\ transfer.token = "IN0"
    BY <1>3, InEffect, HandlerFrame DEF SetupInv
  <2> QED BY <2>1 DEF in, NoTransfer
<1>4. CASE usb_int_reset
  BY <1>4 DEF usb_int_reset, bus_reset, NoTransfer
<1>5. CASE cdc_device_send \/ send_copy \/ send_len \/ send_load \/ send_store
  BY <1>1, <1>5, MainFrame DEF device, bus
<1>6. ASSUME NEW req \in HostRequests, HostSetup(req)
      PROVE  AddressInv'
  BY <1>6 DEF HostSetup, Answers, device, BusTypes, Hosts
<1>7. ASSUME NEW heard \in BOOLEAN, HostDataIn(heard) PROVE AddressInv'
  <2>1. host.request.bRequest # "SET_ADDRESS" /\ USB_DEV_AD = host.address
    BY <1>7, RequestFacts DEF HostDataIn, Answers, SetupInv, BusTypes, Hosts
  <2> QED BY <1>7, <2>1, HostDataInFacts DEF device, NoTransfer, Token
<1>8. ASSUME NEW heard \in BOOLEAN, HostIn(heard) PROVE AddressInv'
  <2>1. USB_DEV_AD = host.address
    BY <1>8 DEF HostIn, Answers
  <2>2. ~UIF_BUS_RST' /\ USB_DEV_AD' = host'.address /\ transfer'.token # "IN0"
    BY <1>8, <2>1, HostInKeeps DEF device, NoTransfer, Token
  <2> QED BY <2>2
<1>9. CASE HostStatusOut \/ HostDataOut
  <2>1. CASE HostStatusOut
    BY <2>1 DEF HostStatusOut, Answers, device, NoTransfer, Token, BusTypes, Hosts
  <2>2. CASE HostDataOut
    BY <2>2 DEF HostDataOut, Answers, device, NoTransfer, BusTypes, Hosts
  <2> QED BY <1>9, <2>1, <2>2
<1>10. CASE HostStatusIn
  BY <1>10 DEF HostStatusIn, Answers, device, NoTransfer, Token, BusTypes, Hosts
<1>11. CASE HostOut
  BY <1>11 DEF HostOut, Answers, device, NoTransfer, Token
<1>12. CASE HostResets
  BY <1>12 DEF HostResets, device, BusTypes, Hosts
<1> QED BY <1>1, <1>2, <1>3, <1>4, <1>5, <1>6, <1>7, <1>8, <1>9, <1>10, <1>11,
           <1>12, StepCases DEF vars, device, bus


-----------------------------------------------------------------------------
(* Control data *)

\* What a host wants depends on its request only while it asks for data.
LEMMA WantedFacts ==
  ASSUME host'.request = host.request, host'.line_coding = host.line_coding
  PROVE  /\ \A i : Wanted(i)' = Wanted(i)
         /\ Total(host.request)' = Total(host.request)
BY DEF Wanted, Total

\* The steps that touch no control data.
LEMMA DataKept ==
  ASSUME DeviceInv,
         UNCHANGED <<got, UEP0_CTRL, UEP0_T_LEN, ep0_buffer, sending_data>>,
         host'.request = host.request, host'.line_coding = host.line_coding,
         host'.tog0 = host.tog0, host'.stage \in {host.stage, "idle"},
         transfer'.token = transfer.token \/ transfer'.token \notin {"SETUP", "IN0"},
         transfer.token = "SETUP" => transfer'.token = "SETUP"
  PROVE  DataInv'
<1>1. From' = From /\ (Ahead' <=> Ahead)
  BY DEF From, Ahead
<1>2. StageInv /\ (transfer'.token = "IN0" => transfer.token = "IN0") => StageInv'
  BY <1>1, WantedFacts DEF StageInv
<1> QED BY <1>2, WantedFacts DEF DeviceInv, DataInv


\* Arithmetic of a sequence that continues another.
LEMMA Shift ==
  ASSUME NEW a \in Nat, NEW b \in Nat, NEW i \in 1..b
  PROVE  a + i \in 1..(a + b)
OBVIOUS

\* The answer to a SETUP starts the data stage.
LEMMA DataSetup ==
  ASSUME DeviceInv, OnToken("SETUP")
  PROVE  DataInv'
<1> USE DEF DeviceInv, TypeInv
<1>1. /\ setup(host.request)
      /\ UNCHANGED <<host, got>> /\ transfer.token = "SETUP"
      /\ host.request \in Requests /\ line_coding = host.line_coding
      /\ \/ transfer' = NoTransfer /\ host.request.bRequest # "unknown"
         \/ UNCHANGED transfer
  BY SetupEffect, HandlerFrame DEF SetupInv, OutInv, DataOut, BusTypes, Hosts
<1>2. SUFFICES ASSUME host.stage = "data_in", transfer' = NoTransfer,
                      host.request.bRequest # "unknown"
               PROVE  StageInv'
  BY <1>1, WantedFacts DEF DataInv
<1> DEFINE data == Asked(host.request)
<1>3. /\ data \in Seq(Nat) /\ Len(data) = Total(host.request)
      /\ \A i \in 1..Len(data) : data[i] = Wanted(i)
  BY <1>1, <1>2, AskedFacts DEF SetupInv, Wanted
<1>4. ep0_send(data) /\ UEP0_CTRL' = Control(1, "ACK")
  BY <1>1, <1>2 DEF setup, answer, ep0_send, SetupInv
<1>5. got = <<>> /\ host.tog0 = 1 /\ Len(got) = 0
  BY <1>1, <1>2, EmptySeq DEF DataInv
<1>6. Ahead' /\ From' = UEP0_T_LEN' /\ UEP0_T_LEN' \in Nat
  <2>1. UEP0_T_LEN' \in 0..EP0_SIZE
    BY <1>3, <1>4, SendTypes
  <2>2. UEP0_T_LEN' \in Nat
    BY <2>1, UsbDeviceAssumption
  <2>3. Ahead'
    BY <1>1, <1>4, <1>5 DEF Ahead, Control
  <2>4. From' = 0 + UEP0_T_LEN'
    BY <1>1, <1>5, <2>3 DEF From
  <2>5. \A n \in Nat : 0 + n = n
    OBVIOUS
  <2> QED BY <2>2, <2>3, <2>4, <2>5
<1> HIDE DEF data
<1>7. /\ UEP0_T_LEN' + Len(sending_data') = Len(data)
      /\ \A i \in 1..UEP0_T_LEN' : ep0_buffer'[i] = data[i]
      /\ \A i \in 1..Len(sending_data') : sending_data'[i] = data[UEP0_T_LEN' + i]
      /\ sending_data' # <<>> => UEP0_T_LEN' = EP0_SIZE
      /\ Len(sending_data') \in Nat
  BY <1>3, <1>4, SendTypes, LenProperties
<1>8. /\ \A i \in 1..UEP0_T_LEN' : ep0_buffer'[i] = Wanted(i)
      /\ \A i \in 1..Len(sending_data') : sending_data'[i] = Wanted(From' + i)
  <2>1. \A i \in 1..UEP0_T_LEN' : i \in 1..Len(data)
    BY <1>6, <1>7
  <2>2. \A i \in 1..Len(sending_data') : UEP0_T_LEN' + i \in 1..Len(data)
    BY <1>6, <1>7, Shift
  <2> QED BY <1>3, <1>6, <1>7, <2>1, <2>2
<1>9. /\ \A i : Wanted(i)' = Wanted(i)
      /\ Total(host.request)' = Total(host.request)
  BY <1>1, WantedFacts
<1>10. transfer'.token # "IN0" /\ Len(got') = 0
  BY <1>1, <1>5 DEF NoTransfer
<1> QED BY <1>3, <1>6, <1>7, <1>8, <1>9, <1>10 DEF StageInv

\* The next packet goes ahead of what the host has read.
LEMMA DataNext ==
  ASSUME DeviceInv, OnToken("IN0")
  PROVE  DataInv'
<1> USE DEF DeviceInv, TypeInv
<1>1. /\ in /\ transfer' = NoTransfer /\ transfer.token = "IN0"
      /\ UNCHANGED <<host, got>> /\ last_setup_req = host.request
      /\ host.request \in Requests
  BY InEffect, HandlerFrame DEF SetupInv, BusTypes, Hosts
<1>2. SUFFICES ASSUME host.stage = "data_in" PROVE StageInv'
  BY <1>1, WantedFacts DEF DataInv, NoTransfer
<1>3. ep0_cont
  BY <1>1, <1>2, RequestFacts DEF in, SetupInv
<1>4. ~Ahead /\ StageInv /\ From = Len(got)
  BY <1>1, <1>2 DEF DataInv, StageInv, From
<1>5. /\ UEP0_T_LEN' \in Nat /\ Len(sending_data') \in Nat
      /\ UEP0_CTRL'.T_TOG = 1 - UEP0_CTRL.T_TOG
      /\ UEP0_T_LEN' + Len(sending_data') = Len(sending_data)
      /\ \A i \in 1..UEP0_T_LEN' : ep0_buffer'[i] = sending_data[i]
      /\ \A i \in 1..Len(sending_data') :
           sending_data'[i] = sending_data[UEP0_T_LEN' + i]
      /\ sending_data' # <<>> => UEP0_T_LEN' = EP0_SIZE
  <2>1. UEP0_T_LEN' \in 0..EP0_SIZE
    BY <1>3, ContTypes
  <2>2. UEP0_T_LEN' \in Nat
    BY <2>1, UsbDeviceAssumption
  <2> QED BY <1>3, <2>2, ContTypes, LenProperties
<1>6. /\ Ahead' /\ From' = Len(got) + UEP0_T_LEN' /\ Len(got) \in Nat
  <2>1. UEP0_CTRL.T_TOG \in {0, 1} /\ host.tog0 \in {0, 1} /\ Len(got) \in Nat
    BY LenProperties DEF DeviceTypes, BusTypes, Registers, Hosts
  <2> QED BY <1>1, <1>4, <1>5, <2>1 DEF Ahead, From
<1>7. /\ \A i \in 1..UEP0_T_LEN' : ep0_buffer'[i] = Wanted(Len(got) + i)
      /\ \A i \in 1..Len(sending_data') : sending_data'[i] = Wanted(From' + i)
      /\ From' + Len(sending_data') = Total(host.request)
  <2>1. \A i \in 1..Len(sending_data) : sending_data[i] = Wanted(Len(got) + i)
    BY <1>4 DEF StageInv
  <2>2. ASSUME NEW i \in 1..UEP0_T_LEN'
        PROVE  ep0_buffer'[i] = Wanted(Len(got) + i)
    BY <1>5, <2>1
  <2>3. ASSUME NEW i \in 1..Len(sending_data')
        PROVE  sending_data'[i] = Wanted(From' + i)
    <3>1. UEP0_T_LEN' + i \in 1..Len(sending_data)
      BY <1>5, Shift
    <3>2. sending_data[UEP0_T_LEN' + i] = Wanted(Len(got) + (UEP0_T_LEN' + i))
      BY <2>1, <3>1
    <3>3. Len(got) + (UEP0_T_LEN' + i) = From' + i
      BY <1>5, <1>6
    <3> QED BY <1>5, <3>2, <3>3
  <2>4. From' + Len(sending_data') = Total(host.request)
    BY <1>4, <1>5, <1>6 DEF StageInv
  <2> QED BY <2>2, <2>3, <2>4
<1>8. /\ \A i : Wanted(i)' = Wanted(i)
      /\ Total(host.request)' = Total(host.request)
  BY <1>1, WantedFacts
<1>9. transfer'.token # "IN0" /\ Len(got') = Len(got)
  BY <1>1 DEF NoTransfer
<1> QED BY <1>5, <1>6, <1>7, <1>8, <1>9 DEF StageInv


\* A packet that the host has read belongs to what it has; the data stage ends
\* with the last one.
LEMMA DataRead ==
  ASSUME DeviceInv, NEW heard \in BOOLEAN, HostDataIn(heard)
  PROVE  DataInv'
<1> USE DEF DeviceInv, TypeInv
<1>1. /\ StageInv /\ host.request.dir = "IN" /\ host.stage = "data_in"
      /\ transfer'.token # "SETUP" /\ host.request \in Requests
      /\ \A i \in 1..Len(got) : got[i] = Wanted(i)
  BY HostDataInFacts DEF DataInv, SetupInv, NoTransfer, Token, BusTypes, Hosts
<1>2. /\ UNCHANGED <<UEP0_CTRL, UEP0_T_LEN, ep0_buffer, sending_data>>
      /\ \A i : Wanted(i)' = Wanted(i)
      /\ Total(host.request)' = Total(host.request) /\ host'.request.dir = "IN"
  BY <1>1, HostDataInFacts, WantedFacts DEF device
<1>3. /\ UEP0_T_LEN \in Nat /\ Len(got) \in Nat /\ Len(sending_data) \in Nat
      /\ UEP0_CTRL.T_TOG \in {0, 1} /\ host.tog0 \in {0, 1}
  BY LenProperties, UsbDeviceAssumption DEF DeviceTypes, BusTypes, Registers, Hosts
<1>4. CASE Ahead
  <2>1. /\ got' = got \o Packet0 /\ host'.tog0 = 1 - host.tog0
        /\ host'.stage = "status_out" =>
             UEP0_T_LEN < EP0_SIZE \/ Len(got') >= host.request.wLength
    BY <1>1, <1>4 DEF HostDataIn, Ahead, BusTypes, Hosts
  <2>2. ~Ahead'
    BY <1>2, <1>3, <1>4, <2>1 DEF Ahead
  <2>3. Len(got') = From /\ From = Len(got) + UEP0_T_LEN /\ From' = From
    BY <1>4, <2>1, <2>2, GotFacts DEF From
  <2>4. \A i \in 1..Len(got') : got'[i] = Wanted(i)
    <3>1. SUFFICES ASSUME NEW i \in 1..(Len(got) + UEP0_T_LEN)
                   PROVE  (got \o Packet0)[i] = Wanted(i)
      BY <2>1, <2>3
    <3>2. CASE i <= Len(got)
      BY <1>1, <1>3, <3>2, GotFacts
    <3>3. CASE ~(i <= Len(got))
      <4>1. i - Len(got) \in 1..UEP0_T_LEN /\ Len(got) + (i - Len(got)) = i
        BY <1>3, <3>3
      <4>2. ep0_buffer[i - Len(got)] = Wanted(Len(got) + (i - Len(got)))
        BY <1>1, <1>4, <4>1 DEF StageInv
      <4> QED BY <3>3, <4>1, <4>2, GotFacts
    <3> QED BY <3>2, <3>3
  <2>5. host'.stage = "status_out" => Len(got') = Total(host.request)
    <3>1. From + Len(sending_data) = Total(host.request) /\ From \in Nat
      BY <1>1, <1>3, <2>3 DEF StageInv
    <3>2. CASE UEP0_T_LEN < EP0_SIZE
      <4>1. sending_data = <<>>
        BY <1>1, <1>3, <3>2, UsbDeviceAssumption DEF StageInv
      <4> QED BY <2>3, <3>1, <4>1, EmptySeq
    <3>3. CASE Len(got') >= host.request.wLength
      <4>1. From >= host.request.wLength /\ Total(host.request) \in 1..host.request.wLength
            /\ host.request.wLength \in Nat
        BY <1>1, <2>3, <3>3, RequestFacts
      <4>2. From = Total(host.request)
        BY <1>3, <3>1, <4>1
      <4> QED BY <2>3, <4>2
    <3> QED BY <2>1, <3>2, <3>3
  <2>6. StageInv'
    <3>1. \A i \in 1..Len(sending_data) : sending_data[i] = Wanted(From + i)
      BY <1>1 DEF StageInv
    <3>2. /\ From + Len(sending_data) = Total(host.request)
          /\ sending_data # <<>> => UEP0_T_LEN = EP0_SIZE
      BY <1>1 DEF StageInv
    <3> QED BY <1>2, <2>2, <2>3, <3>1, <3>2 DEF StageInv
  <2> QED BY <1>1, <1>2, <2>4, <2>5, <2>6 DEF DataInv
<1>5. CASE ~Ahead
  <2>1. UNCHANGED <<got, host>>
    BY <1>5 DEF HostDataIn, Ahead
  <2>2. StageInv'
    BY <1>1, <1>2, <1>5, <2>1 DEF StageInv, Ahead, From
  <2> QED BY <1>1, <1>2, <2>1, <2>2 DEF DataInv
<1> QED BY <1>4, <1>5

\* Every step keeps DataInv: what is left to send follows what was read.
LEMMA DataStep ==
  ASSUME DeviceInv, [Next]_vars
  PROVE  DataInv'
<1> USE DEF DeviceInv, TypeInv
<1>1. CASE OnToken("OUT0")
  <2>1. /\ UNCHANGED <<host, got>> /\ transfer' = NoTransfer
        /\ host.stage # "data_in" /\ transfer.token # "SETUP"
    BY <1>1, OutEffect, HandlerFrame DEF SetupInv
  <2> QED BY <2>1, WantedFacts DEF DataInv, NoTransfer
<1>2. CASE \E t \in {"IN", "OUT"} : OnToken(t)
  <2>1. /\ UNCHANGED <<device, host, got>> /\ transfer.token \in {"IN", "OUT"}
        /\ transfer' \in {transfer, NoTransfer}
    BY <1>2, HandlerFrame
  <2> QED BY <2>1, DataKept DEF device, NoTransfer
<1>3. CASE usb_int_reset
  <2>1. UNCHANGED <<host, got, transfer>> /\ host.stage = "idle"
    BY <1>3 DEF usb_int_reset, bus_reset, SetupInv
  <2> QED BY <2>1, WantedFacts DEF DataInv
<1>4. CASE cdc_device_send \/ send_copy \/ send_len \/ send_load \/ send_store
  BY <1>4, MainFrame, DataKept DEF device, bus
<1>5. ASSUME NEW req \in HostRequests, HostSetup(req)
      PROVE  DataInv'
  <2>1. /\ transfer'.token = "SETUP" /\ got' = <<>> /\ host'.tog0 = 1
        /\ host'.stage # "status_out"
    BY <1>5 DEF HostSetup, BusTypes, Hosts
  <2> QED BY <2>1, EmptySeq DEF DataInv
<1>6. ASSUME NEW heard \in BOOLEAN, HostDataIn(heard) PROVE DataInv'
  BY <1>6, DataRead
<1>7. ASSUME NEW heard \in BOOLEAN, HostIn(heard) PROVE DataInv'
  BY <1>7, HostInKeeps, DataKept DEF device, NoTransfer, Token
<1>8. CASE HostStatusOut \/ HostStatusIn
  <2>1. /\ host'.request = host.request /\ host'.line_coding = host.line_coding
        /\ host'.tog0 = host.tog0 /\ host'.stage = "idle" /\ UNCHANGED got
        /\ transfer'.token # "SETUP"
    BY <1>8 DEF HostStatusOut, HostStatusIn, Token, NoTransfer, BusTypes, Hosts
  <2> QED BY <2>1, WantedFacts DEF DataInv
<1>9. CASE HostDataOut
  <2>1. /\ host'.request = host.request /\ UNCHANGED got
        /\ host'.stage = "status_in" /\ transfer'.token = "OUT0"
        /\ host.request.dir = "OUT"
    BY <1>9 DEF HostDataOut, BusTypes, Hosts, SetupInv
  <2> QED BY <2>1, EmptySeq DEF DataInv
<1>10. CASE HostOut
  BY <1>10, DataKept DEF HostOut, Answers, device, Token, NoTransfer
<1>11. CASE HostResets
  <2>1. /\ host'.request = host.request /\ host'.line_coding = host.line_coding
        /\ host'.stage = "idle" /\ UNCHANGED <<got, transfer>>
    BY <1>11 DEF HostResets, BusTypes, Hosts
  <2> QED BY <2>1, WantedFacts DEF DataInv
<1>12. CASE UNCHANGED vars
  BY <1>12, DataKept DEF vars, device, bus
<1> QED BY <1>1, <1>2, <1>3, <1>4, <1>5, <1>6, <1>7, <1>8, <1>9, <1>10, <1>11,
           <1>12, DataSetup, DataNext, StepCases


-----------------------------------------------------------------------------
(* Packets *)

\* The requests of the host and their status stages leave the packets alone.
ControlStep ==
  \/ \E req \in HostRequests : HostSetup(req)
  \/ HostStatusOut \/ HostDataOut \/ HostStatusIn

\* A step of a control transfer leaves endpoint 1 alone.
LEMMA ControlFrame ==
  ASSUME BusTypes, ControlStep
  PROVE  /\ transfer.token # "IN" /\ transfer'.token \notin {"IN", "OUT"}
         /\ ~UIF_BUS_RST /\ host'.tog = host.tog
         /\ UNCHANGED <<endpoint, received, UIF_BUS_RST, usb_device>>
<1> USE DEF Answers, NoTransfer, Token, device, BusTypes, Hosts
<1>1. ASSUME NEW req \in HostRequests, HostSetup(req)
      PROVE  /\ transfer.token # "IN" /\ transfer'.token \notin {"IN", "OUT"}
             /\ ~UIF_BUS_RST /\ host'.tog = host.tog
             /\ UNCHANGED <<endpoint, received, UIF_BUS_RST, usb_device>>
  BY <1>1 DEF HostSetup
<1>2. CASE HostStatusOut
  BY <1>2 DEF HostStatusOut
<1>3. CASE HostDataOut
  BY <1>3 DEF HostDataOut
<1>4. CASE HostStatusIn
  BY <1>4 DEF HostStatusIn
<1> QED BY <1>1, <1>2, <1>3, <1>4 DEF ControlStep

\* The interrupt handler sends only when the main loop does not.
LEMMA SenderStep ==
  ASSUME DeviceInv, [Next]_vars
  PROVE  SenderInv'
<1> USE DEF DeviceInv, TypeInv, SenderInv, Busy, ready_to_send
<1>1. CASE /\ UNCHANGED <<endpoint, usb_device>> /\ (UIF_BUS_RST => UIF_BUS_RST')
           /\ transfer'.token = "OUT" => usb_device.sender = "recv"
  BY <1>1 DEF endpoint
<1>2. CASE \E t \in {"SETUP", "IN0", "OUT0"} : OnToken(t)
  BY <1>1, <1>2, HandlerFrame DEF NoTransfer
<1>3. CASE OnToken("IN")
  <2>1. /\ UEP_CTRL'.T_RES = "NAK" /\ transfer' = NoTransfer
        /\ UNCHANGED <<usb_device, UIF_BUS_RST, ep_buffer, pc, ctrl, sent, dropped>>
    BY <1>3, EndpointInEffect, HandlerFrame DEF ep_in, EndpointTypes, Registers
  <2>2. ~Busy
    BY <1>3, HandlerFrame DEF PacketInv
  <2> QED BY <2>1, <2>2 DEF NoTransfer
<1>4. CASE OnToken("OUT")
  <2>1. pc = "idle" /\ UNCHANGED <<usb_device, UIF_BUS_RST>> /\ usb_device.sender = "recv"
    BY <1>4, HandlerFrame DEF device
  <2>2. CASE usb_device_send
    BY <2>1, <2>2 DEF usb_device_send, EndpointTypes
  <2>3. CASE UNCHANGED endpoint
    BY <1>1, <2>1, <2>3
  <2> QED BY <1>4, <2>2, <2>3, EchoEffect
<1>5. CASE usb_int_reset
  BY <1>5 DEF usb_int_reset, bus_reset, Control, NoTransfer
<1>6. CASE cdc_device_send
  BY <1>6 DEF cdc_device_send, main_step, device, bus
<1>7. CASE send_copy
  BY <1>7 DEF send_copy, main_step, device, bus
<1>8. CASE send_len
  BY <1>8 DEF send_len, main_step, device, bus
<1>9. CASE send_load
  BY <1>9 DEF send_load, main_step, device, bus, EndpointTypes, Registers
<1>10. CASE send_store
  BY <1>10 DEF send_store, main_step, device, bus, Control, EndpointTypes
<1>11. ASSUME NEW heard \in BOOLEAN, HostIn(heard) PROVE SenderInv'
  <2>1. /\ ~ready_to_send /\ ep_buffer = sent /\ UEP_CTRL'.T_RES = UEP_CTRL.T_RES
        /\ UNCHANGED <<usb_device, UIF_BUS_RST, ep_buffer, pc, ctrl, sent, dropped,
                       UEP_T_LEN>>
    BY <1>11, HostInFacts DEF device, EndpointTypes, Registers
  <2>2. transfer'.token # "OUT"
    BY <1>11, HostInFacts DEF NoTransfer, Token
  <2> QED BY <2>1, <2>2
<1>12. CASE ControlStep
  BY <1>1, <1>12, ControlFrame
<1>13. ASSUME NEW heard \in BOOLEAN, HostDataIn(heard) PROVE SenderInv'
  BY <1>1, <1>13, HostDataInFacts DEF device, Token, NoTransfer
<1>14. CASE HostOut
  BY <1>1, <1>14 DEF HostOut, Answers, device
<1>15. CASE HostResets
  BY <1>1, <1>15 DEF HostResets, device
<1> QED BY <1>1, <1>2, <1>3, <1>4, <1>5, <1>6, <1>7, <1>8, <1>9, <1>10, <1>11,
           <1>12, <1>13, <1>14, <1>15, StepCases DEF vars, device, bus, ControlStep

\* Every packet but the last one is done with.
LEMMA Numbers ==
  ASSUME NEW n \in Nat
  PROVE  /\ n > 0 => 1..n = 1..(n - 1) \union {n}
         /\ 1..(n + 1) = 1..n \union {n + 1} /\ n + 1 - 1 = n
         /\ 1..n \subseteq 1..(n + 1)
OBVIOUS

\* What the host has received does not change, nor what is done with.
LEMMA PacketKept ==
  ASSUME DeviceInv, UNCHANGED <<received, sent, dropped, UEP_CTRL>>,
         UIF_BUS_RST' \/ (~UIF_BUS_RST /\ host'.tog = host.tog),
         transfer'.token = "IN" <=> transfer.token = "IN"
  PROVE  PacketInv'
BY DEF DeviceInv, PacketInv, ready_to_send, Packets, Elements, Done

\* Every step keeps PacketInv: toggles and pc say which packet is where.
LEMMA PacketStep ==
  ASSUME DeviceInv, [Next]_vars
  PROVE  PacketInv'
<1> USE DEF DeviceInv, TypeInv
<1>1. sent \in Nat
  BY DEF EndpointTypes
<1>2. CASE \E t \in {"SETUP", "IN0", "OUT0"} : OnToken(t)
  <2>1. /\ UNCHANGED <<received, sent, dropped, UEP_CTRL, host, UIF_BUS_RST>>
        /\ transfer.token # "IN" /\ transfer'.token # "IN"
    BY <1>2, HandlerFrame DEF endpoint, NoTransfer
  <2> QED BY <2>1, PacketKept DEF BusTypes
<1>3. CASE OnToken("IN")
  <2>1. /\ ready_to_send' /\ UEP_CTRL'.T_TOG = UEP_CTRL.T_TOG
        /\ UNCHANGED <<received, sent, dropped, host, UIF_BUS_RST>>
        /\ transfer.token = "IN" /\ transfer'.token # "IN"
    BY <1>3, EndpointInEffect, HandlerFrame
       DEF ep_in, EndpointTypes, Registers, ready_to_send, NoTransfer
  <2>2. 1..sent \subseteq Done
    BY <1>1, <2>1, Numbers DEF PacketInv, SenderInv
  <2> QED BY <2>1, <2>2 DEF PacketInv, Packets, Done, Elements
<1>4. CASE OnToken("OUT")
  <2>1. /\ UNCHANGED <<received, host, UIF_BUS_RST>> /\ transfer.token = "OUT"
    BY <1>4, HandlerFrame
  <2>2. CASE usb_device_send /\ ready_to_send /\ transfer' = NoTransfer
    <3>1. /\ ~ready_to_send' /\ UEP_CTRL'.T_TOG = UEP_CTRL.T_TOG
          /\ sent' = sent + 1 /\ UNCHANGED dropped /\ transfer'.token # "IN"
      BY <2>2 DEF usb_device_send, ready_to_send, EndpointTypes, Registers, NoTransfer
    <3>2. 1..sent \subseteq Done /\ (UIF_BUS_RST \/ UEP_CTRL.T_TOG = host.tog)
          /\ sent + 1 \notin Packets
      BY <1>1, <2>2 DEF PacketInv
    <3> QED BY <1>1, <2>1, <3>1, <3>2, Numbers DEF PacketInv, Packets, Done, Elements
  <2>3. CASE UNCHANGED endpoint /\ transfer' \in {transfer, NoTransfer}
    BY <2>1, <2>3, PacketKept DEF endpoint, NoTransfer, BusTypes
  <2> QED BY <1>4, <2>2, <2>3, EchoEffect
<1>5. CASE usb_int_reset
  <2>1. /\ ready_to_send' /\ UEP_CTRL'.T_TOG = 0 /\ host.tog = 0
        /\ UNCHANGED <<received, sent, host, transfer>> /\ transfer.token # "IN"
        /\ dropped \subseteq dropped'
        /\ ~ready_to_send /\ sent \notin Packets => sent \in dropped'
    BY <1>5 DEF usb_int_reset, bus_reset, ready_to_send, Control, AddressInv,
       NoTransfer, Packets
  <2>2. 1..sent \subseteq Packets \union dropped'
    <3>1. CASE ready_to_send
      BY <2>1, <3>1 DEF PacketInv, Done
    <3>2. CASE ~ready_to_send
      <4>1. 1..sent = 1..(sent - 1) \union {sent}
        BY <1>1, <3>2, Numbers DEF SenderInv
      <4> QED BY <2>1, <3>2, <4>1 DEF PacketInv, Done
    <3> QED BY <3>1, <3>2
  <2>3. 1..(sent - 1) \subseteq 1..sent
    BY <1>1
  <2> QED BY <2>1, <2>2, <2>3 DEF PacketInv, Packets, Done, Elements
<1>6. CASE cdc_device_send \/ send_copy \/ send_len \/ send_load
  <2>1. UNCHANGED <<received, sent, dropped, UEP_CTRL, host, UIF_BUS_RST, transfer>>
    BY <1>6, MainFrame DEF cdc_device_send, send_copy, send_len, send_load, bus
  <2> QED BY <2>1, PacketKept DEF BusTypes
<1>7. CASE send_store
  <2>1. /\ ~ready_to_send' /\ UEP_CTRL'.T_TOG = ctrl.T_TOG /\ sent' = sent + 1
        /\ UNCHANGED <<received, dropped, host, UIF_BUS_RST, transfer>>
    BY <1>7, MainFrame DEF send_store, ready_to_send, EndpointTypes, Registers, bus
  <2>2. /\ ready_to_send /\ transfer.token # "IN" /\ 1..sent \subseteq Done
        /\ UIF_BUS_RST \/ UEP_CTRL.T_TOG = host.tog
        /\ UIF_BUS_RST \/ ctrl.T_TOG = UEP_CTRL.T_TOG \/ sent + 1 \in dropped
    BY <1>7 DEF send_store, main_step, SenderInv, Busy, PacketInv
  <2>3. sent + 1 \notin Packets
    BY <1>1 DEF PacketInv
  <2> QED BY <1>1, <2>1, <2>2, <2>3, Numbers DEF PacketInv, Packets, Done, Elements
<1>8. ASSUME NEW heard \in BOOLEAN, HostIn(heard) PROVE PacketInv'
  <2>1. /\ ~ready_to_send /\ sent > 0 /\ transfer = NoTransfer /\ ~UIF_BUS_RST
        /\ UNCHANGED <<UIF_BUS_RST, sent, dropped>> /\ ~ready_to_send'
    BY <1>8, HostInFacts DEF SenderInv, EndpointTypes, Registers, ready_to_send
  <2>2. /\ sent \in Packets' \union dropped /\ Packets \subseteq Packets'
        /\ Packets' \subseteq 1..sent
        /\ \A i, j \in 1..Len(received') : i < j => received'[i] < received'[j]
        /\ UEP_CTRL.T_TOG # host'.tog
    <3>1. CASE UEP_CTRL.T_TOG = host.tog
      <4>1. /\ received' = Append(received, sent) /\ host'.tog = 1 - host.tog
            /\ host.tog \in {0, 1}
        BY <1>8, <3>1, HostInFacts DEF BusTypes, Hosts
      <4>2. Packets' = Packets \union {sent}
        BY <1>1, <4>1, ReceivedFacts DEF Packets
      <4>3. \A i \in 1..Len(received) : received[i] \in 1..sent /\ received[i] # sent
        BY <2>1, <3>1 DEF PacketInv, Packets, Elements, NoTransfer
      <4>4. /\ Len(received') = Len(received) + 1 /\ Len(received) \in Nat
            /\ \A i \in 1..Len(received) : received'[i] = received[i]
            /\ received'[Len(received) + 1] = sent
        BY <1>1, <4>1, ReceivedFacts
      <4>5. ASSUME NEW i \in 1..Len(received'), NEW j \in 1..Len(received'), i < j
            PROVE  received'[i] < received'[j]
        <5>1. i \in 1..Len(received) /\ (j \in 1..Len(received) \/ j = Len(received) + 1)
          BY <4>4, <4>5
        <5>2. received[i] < sent
          BY <1>1, <4>3, <5>1
        <5> QED BY <4>4, <4>5, <5>1, <5>2 DEF PacketInv
      <4>6. sent \in 1..sent
        BY <1>1, <2>1
      <4>7. Packets' \subseteq 1..sent
        BY <4>2, <4>6 DEF PacketInv
      <4>8. UEP_CTRL.T_TOG # host'.tog
        BY <3>1, <4>1
      <4> QED BY <4>2, <4>5, <4>7, <4>8
    <3>2. CASE UEP_CTRL.T_TOG # host.tog
      <4>1. UNCHANGED <<received, host>>
        BY <1>8, <3>2, HostInFacts
      <4> QED BY <2>1, <3>2, <4>1 DEF PacketInv, Packets, Elements, Done
    <3> QED BY <3>1, <3>2
  <2>3. /\ transfer'.token = "IN" => UEP_CTRL'.T_TOG = host'.tog
        /\ UEP_CTRL'.T_TOG = host'.tog => transfer'.token = "IN"
    <3>1. UEP_CTRL.T_TOG \in {0, 1} /\ host'.tog \in {0, 1}
      BY BusTypesStep DEF EndpointTypes, Registers, BusTypes, Hosts
    <3>2. CASE heard
      <4>1. transfer'.token = "IN" /\ UEP_CTRL'.T_TOG = 1 - UEP_CTRL.T_TOG
        BY <1>8, <3>2, HostInFacts DEF Token, NoTransfer, EndpointTypes, Registers
      <4> QED BY <2>2, <3>1, <4>1
    <3>3. CASE ~heard
      <4>1. transfer'.token # "IN" /\ UEP_CTRL' = UEP_CTRL
        BY <1>8, <2>1, <3>3, HostInFacts DEF NoTransfer
      <4> QED BY <2>2, <4>1
    <3> QED BY <3>2, <3>3
  <2> QED BY <2>1, <2>2, <2>3 DEF PacketInv, Done
<1>9. CASE ControlStep
  BY <1>9, ControlFrame, PacketKept DEF endpoint
<1>13. CASE HostOut
  BY <1>13, PacketKept DEF HostOut, Answers, Token, NoTransfer, endpoint
<1>10. ASSUME NEW heard \in BOOLEAN, HostDataIn(heard) PROVE PacketInv'
  <2>1. transfer.token # "IN" /\ transfer'.token # "IN"
    BY <1>10, HostDataInFacts DEF NoTransfer, Token
  <2> QED BY <1>10, <2>1, HostDataInFacts, PacketKept DEF endpoint
<1>11. CASE HostResets
  <2>1. UNCHANGED <<received, sent, dropped, UEP_CTRL, transfer>> /\ UIF_BUS_RST'
    BY <1>11 DEF HostResets, endpoint
  <2> QED BY <2>1, PacketKept
<1>12. CASE UNCHANGED vars
  <2>1. UNCHANGED <<received, sent, dropped, UEP_CTRL, host, UIF_BUS_RST, transfer>>
    BY <1>12 DEF vars, endpoint, bus
  <2> QED BY <2>1, PacketKept DEF BusTypes
<1> QED BY <1>2, <1>3, <1>4, <1>5, <1>6, <1>7, <1>8, <1>9, <1>10, <1>11, <1>12,
           <1>13, StepCases DEF ControlStep


-----------------------------------------------------------------------------
(* The theorems *)

\* The invariant holds at the start,
LEMMA InitInv == Init => DeviceInv
<1> SUFFICES ASSUME Init PROVE DeviceInv
  OBVIOUS
<1> USE UsbDeviceAssumption, EmptySeq DEF Init, Control, Registers
<1>1. DeviceTypes
  <2>1. /\ usb_device \in [driver : {"cdc", "hid"}, sender : {"main", "recv"}]
        /\ usb_device.sender = "recv" => usb_device.driver = "cdc"
    OBVIOUS
  <2>2. EP0_SIZE \in Nat /\ 0 \in 0..EP0_SIZE /\ 0 \in 0..2
    OBVIOUS
  <2> QED BY <2>1, <2>2 DEF DeviceTypes, Requests
<1>2. EndpointTypes
  BY DEF EndpointTypes
<1>3. BusTypes
  <2>1. NoRequest \in Requests /\ 0 \in 0..2
    BY DEF Requests
  <2>2. host \in Hosts
    BY <2>1 DEF Hosts, Stages
  <2>3. transfer \in [token : Tokens, request : Requests]
    BY <2>1 DEF NoTransfer, Tokens
  <2> QED BY <2>2, <2>3 DEF BusTypes
<1>4. SetupInv /\ OutInv /\ AddressInv /\ DataInv
  BY DEF SetupInv, OutInv, AddressInv, DataInv, NoTransfer, NoRequest, Request,
         DataOut, AddressOnItsWay
<1>5. Packets = {}
  BY DEF Packets, Elements
<1>6. SenderInv /\ PacketInv
  BY <1>5 DEF SenderInv, PacketInv, Busy, ready_to_send, NoTransfer
<1> QED BY <1>1, <1>2, <1>3, <1>4, <1>6 DEF DeviceInv, TypeInv

\* and every step keeps all of it.
LEMMA NextInv == DeviceInv /\ [Next]_vars => DeviceInv'
<1> SUFFICES ASSUME DeviceInv, [Next]_vars PROVE DeviceInv'
  OBVIOUS
<1> QED BY DeviceTypesStep, EndpointTypesStep, BusTypesStep, SetupStep, OutStep,
           AddressStep, DataStep, SenderStep, PacketStep DEF DeviceInv, TypeInv

\* DeviceInv holds in every state, whatever the host abandons, does not
\* acknowledge or resets.
THEOREM DeviceInvariant == Spec => []DeviceInv
BY InitInv, NextInv, PTL DEF Spec

\* The variables of usb_device.c, cdc_device.c and the registers have their
\* types: no packet is longer than endpoint 0, no address but the host's.
THEOREM TypesOK == Spec => []TypeOK
<1>1. DeviceInv => TypeOK
  BY DEF DeviceInv, TypeInv, DeviceTypes, EndpointTypes, BusTypes, Registers, TypeOK
<1> QED BY <1>1, DeviceInvariant, PTL

\* setup, ep0_send and ep0_cont give the host what it asks for, in order and
\* to the end, however the data is cut into packets and whichever of them
\* are read again.
THEOREM DataArrivesInOrder == Spec => []ControlDataInOrder
<1>1. DeviceInv => ControlDataInOrder
  BY DEF DeviceInv, DataInv, ControlDataInOrder, Total
<1> QED BY <1>1, DeviceInvariant, PTL

\* A packet given to usb_device_send reaches the host once and in order, or is
\* taken by a bus reset: also when the interrupt handler or the reset runs
\* between the accesses of cdc_device_send to the control register.
THEOREM PacketsArrive == Spec => []EveryPacketArrives
<1>1. DeviceInv => EveryPacketArrives
  <2> SUFFICES ASSUME DeviceInv PROVE EveryPacketArrives
    OBVIOUS
  <2> USE DEF DeviceInv, TypeInv
  <2>1. sent \in Nat
    BY DEF EndpointTypes
  <2>2. 1..sent \subseteq Packets \union dropped \union Waiting
    <3>1. CASE ready_to_send
      BY <3>1 DEF PacketInv, Done
    <3>2. CASE ~ready_to_send
      <4>1. /\ 1..sent = 1..(sent - 1) \union {sent}
            /\ ep_buffer = sent /\ UEP_T_LEN = 1
        BY <2>1, <3>2, Numbers DEF SenderInv
      <4>2. sent \in Done \union Waiting
        BY <3>2, <4>1 DEF PacketInv, Waiting
      <4> QED BY <4>1, <4>2 DEF PacketInv, Done
    <3> QED BY <3>1, <3>2
  <2>3. Packets \union Waiting \subseteq 1..sent
    <3>1. ~ready_to_send => ep_buffer \in 1..sent
      BY <2>1 DEF SenderInv
    <3> QED BY <3>1 DEF PacketInv, Waiting
  <2> QED BY <2>2, <2>3 DEF EveryPacketArrives, PacketInv, Packets
<1> QED BY <1>1, DeviceInvariant, PTL

\* Device and host agree on the address and the line coding, but while the
\* status stage or the data is being handled.
THEOREM DeviceAgrees == Spec => []AgreesWithHost
<1>1. DeviceInv => AgreesWithHost
  BY DEF DeviceInv, SetupInv, OutInv, AddressInv, AddressOnItsWay, DataOut,
         AgreesWithHost, AddressAgreement, LineCodingAgreement, NoTransfer
<1> QED BY <1>1, DeviceInvariant, PTL

\* Nothing but a request that neither usb_device.c nor the class driver knows
\* reaches NOTREACHED, whichever requests the host abandons: no OUT does.
THEOREM NeverHalts == Spec => [](handler = "halt" => HaltedByRequest)
<1>1. DeviceInv => (handler = "halt" => HaltedByRequest)
  BY DEF DeviceInv, OutInv
<1> QED BY <1>1, DeviceInvariant, PTL

\* A host that reads an echo before it sends again finds the endpoint free.
LEMMA EchoStep ==
  ASSUME HostReadsFirst, DeviceInv, EchoInv, [Next]_vars
  PROVE  EchoInv'
<1> USE DEF DeviceInv, TypeInv, EchoInv
<1>1. CASE UNCHANGED <<handler, transfer, UEP_CTRL>>
  BY <1>1 DEF ready_to_send
<1>2. CASE \E t \in {"SETUP", "IN0", "OUT0", "IN", "OUT"} : OnToken(t)
  <2>1. \/ handler' = "ready" /\ transfer' = NoTransfer
        \/ handler' = "halt" /\ UNCHANGED transfer /\ transfer.token = "SETUP"
    BY <1>2, SetupEffect, InEffect, OutEffect, EndpointInEffect, EchoEffect,
       HandlerFrame
  <2> QED BY <2>1 DEF NoTransfer
<1>3. CASE usb_int_reset
  BY <1>3 DEF usb_int_reset, bus_reset, ready_to_send, Control
<1>4. CASE cdc_device_send \/ send_copy \/ send_len \/ send_load
  BY <1>1, <1>4, MainFrame DEF cdc_device_send, send_copy, send_len, send_load, bus
<1>5. CASE send_store
  BY <1>5, MainFrame DEF send_store, main_step, SenderInv, bus
<1>6. CASE ControlStep
  <2>1. UNCHANGED handler
    BY <1>6 DEF ControlStep, HostSetup, HostStatusOut, HostDataOut, HostStatusIn,
           Answers
  <2> QED BY <1>6, <2>1, ControlFrame
<1>7. ASSUME NEW heard \in BOOLEAN, HostDataIn(heard) PROVE EchoInv'
  BY <1>7, HostDataInFacts DEF NoTransfer, Token
<1>8. ASSUME NEW heard \in BOOLEAN, HostIn(heard) PROVE EchoInv'
  BY <1>8, HostInKeeps DEF NoTransfer, Token
<1>9. CASE HostOut
  BY <1>9 DEF HostOut, Answers, endpoint, ready_to_send
<1>10. CASE HostResets
  BY <1>1, <1>10 DEF HostResets, endpoint
<1>11. CASE UNCHANGED vars
  BY <1>1, <1>11 DEF vars, bus, endpoint
<1> QED BY <1>2, <1>3, <1>4, <1>5, <1>6, <1>7, <1>8, <1>9, <1>10, <1>11, StepCases
        DEF ControlStep

\* When the host reads an echo before it sends the next packet
\* (HostReadsFirst), the interrupt handler returns from everything but a
\* request the device does not know.  NeverHalts is all that is left without
\* that, since recv then spins on an endpoint that is not free.
THEOREM AlwaysReturns == HostReadsFirst => (Spec => []HandlerReturns)
<1> SUFFICES ASSUME HostReadsFirst PROVE Spec => []HandlerReturns
  OBVIOUS
<1>1. Init => EchoInv
  BY DEF Init, EchoInv, NoTransfer
<1>2. DeviceInv /\ EchoInv /\ [Next]_vars => EchoInv'
  BY EchoStep
<1>3. DeviceInv /\ EchoInv => HandlerReturns
  BY DEF DeviceInv, TypeInv, BusTypes, OutInv, EchoInv, HandlerReturns
<1> QED BY <1>1, <1>2, <1>3, DeviceInvariant, PTL DEF Spec


=============================================================================
