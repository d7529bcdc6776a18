--------------------------- MODULE BlePeripheral ---------------------------
(***************************************************************************)
(* The BLE peripheral on a dongle behind the USB host:                     *)
(* src/usb/ble/ble_peripheral.c with the security manager (module Smp) and *)
(* the application's layer src/usb/ble/ble_hid_peripheral.c on top.        *)
(*                                                                         *)
(* One transfer of the USB host is under way at a time: `usb' is the       *)
(* transfer, its end is a step that for an IN calls in_cb.  ble_peripheral_*)
(* poll and the callbacks below it run without interruption; between two   *)
(* polls the application's main loop may send a report.  The dongle, the   *)
(* central and the application are external: the dongle answers every      *)
(* command, keeps the order within each of its two pipes and none between  *)
(* them; the central pairs as the specification says.  A PDU is opcode, TK *)
(* and bond (module Smp); lengths, handles of attributes and the parsing   *)
(* and building of packets are left out.                                   *)
(***************************************************************************)
EXTENDS Smp, Sequences

CONSTANTS
  SendFrom,         \* where the application sends reports: from on_sent
                    \* ("sent"), from its main loop at any time ("loop"), or
                    \* from there with no transfer under way ("quiet")
  PairsAgain,       \* whether a central may pair again once it is bonded, or
                    \* with another method, on the same connection
  MaxConnections,   \* bound: connections in all
  MaxPairings,      \* bound: pairings in all
  MaxRequests,      \* bound: ATT requests in all
  MaxReports,       \* bound: reports in all
  MaxFaults         \* bound: times the dongle is unplugged or the CPU reset

ASSUME BleAssumption ==
  /\ SendFrom \subseteq {"loop", "quiet", "sent"} /\ PairsAgain \in BOOLEAN
  /\ {MaxConnections, MaxPairings, MaxRequests, MaxReports, MaxFaults}
       \subseteq Nat

BRINGUP_IDLE == 0
BRINGUP_RESET == 1
BRINGUP_ADV_ENABLE == 8
BRINGUP_DONE == 9

Polling == {"POLL_EVENT", "POLL_ACL"}

VARIABLES
  state, bringup_step,
  hci_pkt,                 \* the command, bring-up step or answer, last built
  acl_tx_buf,              \* the PDU last built, with its connection's handle
  conn_handle, encrypted_state, smp_phase3_pending, smp,
  hid,                     \* ble_hid_peripheral.c: encrypted, notify, cccd
  saved,                   \* the application's persistent bond
  usb,                     \* the transfer under way: pipe and data
  dongle,                  \* its pipes and link
  central,
  count,                   \* what the bounds count
  staged,                  \* history: the PDU acl_tx_buf was staged with
  sent                     \* history: the keys handed to usb_host_out

peripheralVars ==
  <<state, bringup_step, hci_pkt, acl_tx_buf, conn_handle, encrypted_state,
    smp_phase3_pending, smp, hid, saved, staged>>
vars == <<peripheralVars, usb, dongle, central, count, sent>>

-----------------------------------------------------------------------------
(* Packets *)

NoAnswer == [op |-> "none", step |-> BRINGUP_IDLE, bond |-> NoKey]
Bringup(step) == [NoAnswer EXCEPT !.op = "bringup", !.step = step]
LtkReply(op, bond) == [NoAnswer EXCEPT !.op = op, !.bond = bond]

\* What l2cap_build makes of a PDU.
Packet(handle, pdu) == [handle |-> handle, pdu |-> pdu]

\* Events of the dongle: command complete, connection, LTK request with the
\* bond it names (NoKey: the STK), encryption change, disconnection.
Event(op, value) == [op |-> op, value |-> value]

Idle == [pipe |-> "none", packet |-> Packet(0, NoPdu), command |-> NoAnswer]

NewDongle(present) ==
  [present |-> present, events |-> <<>>, acl |-> <<>>, adv |-> FALSE,
   link |-> FALSE, encrypted |-> FALSE]

Unpaired(bond) ==
  [pairing |-> "idle", tk |-> "none", enc_info |-> NoKey, bond |-> bond,
   ltk |-> "none", waits |-> FALSE]

Init ==
  /\ state = "DISCONNECTED" /\ bringup_step = BRINGUP_IDLE
  /\ hci_pkt = NoAnswer /\ acl_tx_buf = Packet(0, NoPdu)
  /\ conn_handle = 0 /\ encrypted_state = FALSE /\ smp_phase3_pending = FALSE
  /\ smp = Blank
  /\ hid = [encrypted |-> FALSE, notify |-> FALSE, cccd |-> FALSE]
  /\ saved = NoKey
  /\ usb = Idle /\ dongle = NewDongle(TRUE) /\ central = Unpaired(NoKey)
  /\ count = [connections |-> 0, pairings |-> 0, requests |-> 0,
              reports |-> 0, faults |-> 0, keys |-> 0]
  /\ staged = Packet(0, NoPdu) /\ sent = {}

-----------------------------------------------------------------------------
(* Sending.  s is the value of state when the function is called. *)

stage_tx(s, next) == IF s \in Polling THEN next ELSE s

ble_send_hci_cmd(s, cmd) ==
  /\ hci_pkt' = cmd /\ state' = stage_tx(s, "SEND_HCI")
  /\ UNCHANGED <<acl_tx_buf, staged>>

\* l2cap_build into acl_tx_buf, then ble_send_acl.
ble_send_acl(s, handle, pdu) ==
  /\ acl_tx_buf' = Packet(handle, pdu) /\ state' = stage_tx(s, "SEND_ACL")
  /\ staged' = IF s \in Polling THEN acl_tx_buf' ELSE staged
  /\ UNCHANGED hci_pkt

no_send(s) == state' = s /\ UNCHANGED <<hci_pkt, acl_tx_buf, staged>>

send_bringup_step(s, step) == ble_send_hci_cmd(s, Bringup(step))

send_security_request(s, handle) ==
  ble_send_acl(s, handle, Plain("security_request"))

\* The layer of ble_hid_peripheral.c.
on_ble_connected == hid' = [hid EXCEPT !.encrypted = FALSE, !.notify = FALSE]
on_ble_disconnected == on_ble_connected

on_ble_encrypted(on) ==
  hid' = [hid EXCEPT !.encrypted = on, !.notify = on /\ (@ \/ hid.cccd)]

on_ble_attr_write == hid' = [hid EXCEPT !.cccd = TRUE, !.notify = TRUE]

\* Mutant: the end of the distribution is not waited for.
pump_saves_early(s) ==
  LET r == smp_next_phase3_pdu(smp, count.keys + 1)
  IN  /\ ble_send_acl(s, conn_handle, r.pdu)
      /\ smp' = r.session
      /\ saved' = smp_get_bond(r.session)
      /\ count' = [count EXCEPT !.keys = IF smp.bond = NoKey THEN @ + 1 ELSE @]
      /\ smp_phase3_pending' = FALSE /\ on_ble_encrypted(TRUE)

\* Mutant: the application is not told when the distribution is over.
pump_without_report(s) ==
  LET r == smp_next_phase3_pdu(smp, count.keys + 1)
      done == r.pdu = NoPdu
  IN  /\ count' = [count EXCEPT !.keys = IF smp.bond = NoKey THEN @ + 1 ELSE @]
      /\ smp' = IF done THEN [r.session EXCEPT !.state = "IDLE"] ELSE r.session
      /\ smp_phase3_pending' = ~done
      /\ \/ /\ done /\ no_send(s)
            /\ saved' = smp_get_bond(r.session) /\ UNCHANGED hid
         \/ /\ ~done /\ ble_send_acl(s, conn_handle, r.pdu)
            /\ UNCHANGED <<saved, hid>>

pump_phase3(s) ==
  LET r == smp_next_phase3_pdu(smp, count.keys + 1)
      done == r.pdu = NoPdu
  IN  /\ count' = [count EXCEPT !.keys = IF smp.bond = NoKey THEN @ + 1 ELSE @]
      /\ smp' = IF done THEN [r.session EXCEPT !.state = "IDLE"] ELSE r.session
      /\ smp_phase3_pending' = ~done
      /\ \/ /\ done /\ no_send(s)
            /\ saved' = smp_get_bond(r.session) /\ on_ble_encrypted(TRUE)
         \/ /\ ~done /\ ble_send_acl(s, conn_handle, r.pdu)
            /\ UNCHANGED <<saved, hid>>

\* Mutant: a report is built while a packet waits to be sent.
send_report_over(s) ==
  /\ hid.encrypted /\ hid.notify /\ ~smp_phase3_pending
  /\ count.reports < MaxReports
  /\ count' = [count EXCEPT !.reports = @ + 1]
  /\ ble_send_acl(s, conn_handle, Plain("notification"))
  /\ UNCHANGED <<smp_phase3_pending, smp, hid, saved>>

\* ble_hid_peripheral_send_report on ble_peripheral_send_notification.
send_report(s) ==
  /\ hid.encrypted /\ hid.notify
  /\ ~smp_phase3_pending /\ s \in Polling
  /\ count.reports < MaxReports
  /\ count' = [count EXCEPT !.reports = @ + 1]
  /\ ble_send_acl(s, conn_handle, Plain("notification"))
  /\ UNCHANGED <<smp_phase3_pending, smp, hid, saved>>

on_internal_sent(s) ==
  IF smp_phase3_pending /\ encrypted_state THEN pump_phase3(s)
  ELSE \/ "sent" \in SendFrom /\ send_report(s)
       \/ /\ no_send(s)
          /\ UNCHANGED <<smp_phase3_pending, smp, hid, saved, count>>

-----------------------------------------------------------------------------
(* ble_peripheral_poll *)

Detect ==
  /\ dongle.present /\ state = "DISCONNECTED"
  /\ state' = "DETECTED"
  /\ UNCHANGED <<bringup_step, hci_pkt, acl_tx_buf, conn_handle,
                 encrypted_state, smp_phase3_pending, smp, hid, saved, staged,
                 usb, dongle, central, count, sent>>

poll_detected ==
  /\ state = "DETECTED" /\ usb = Idle
  /\ bringup_step' = BRINGUP_RESET
  /\ send_bringup_step("POLL_EVENT", BRINGUP_RESET)
  /\ UNCHANGED <<conn_handle, encrypted_state, smp_phase3_pending, smp, hid,
                 saved, usb, dongle, central, count, sent>>

poll_in(from, pipe, to) ==
  /\ state = from /\ usb = Idle
  /\ usb' = [usb EXCEPT !.pipe = pipe] /\ state' = to
  /\ UNCHANGED <<bringup_step, hci_pkt, acl_tx_buf, conn_handle,
                 encrypted_state, smp_phase3_pending, smp, hid, saved, staged,
                 dongle, central, count, sent>>

\* Mutant: only events are polled.
poll_event_only == poll_in("POLL_EVENT", "event", "POLL_EVENT")

poll_event == poll_in("POLL_EVENT", "event", "POLL_ACL")

poll_acl == poll_in("POLL_ACL", "acl", "POLL_EVENT")

poll_send_hci ==
  /\ state = "SEND_HCI" /\ usb = Idle
  /\ usb' = [usb EXCEPT !.pipe = "setup", !.command = hci_pkt]
  /\ on_internal_sent("POLL_EVENT")
  /\ UNCHANGED <<bringup_step, conn_handle, encrypted_state, dongle, central,
                 sent>>

poll_send_acl ==
  /\ state = "SEND_ACL" /\ usb = Idle
  /\ usb' = [usb EXCEPT !.pipe = "out", !.packet = acl_tx_buf]
  /\ sent' = sent \union {acl_tx_buf.pdu}
  /\ on_internal_sent("POLL_EVENT")
  /\ UNCHANGED <<bringup_step, conn_handle, encrypted_state, dongle, central>>

ble_peripheral_poll ==
  poll_detected \/ poll_event \/ poll_acl \/ poll_send_hci \/ poll_send_acl

-----------------------------------------------------------------------------
(* in_cb *)

command_complete(step) ==
  /\ bringup_step' = IF bringup_step = step THEN step + 1 ELSE bringup_step
  /\ IF bringup_step = step /\ step # BRINGUP_ADV_ENABLE
     THEN send_bringup_step(state, step + 1) ELSE no_send(state)
  /\ UNCHANGED <<conn_handle, encrypted_state, smp_phase3_pending, smp, hid,
                 saved, count>>

on_le_connection_complete(handle) ==
  /\ conn_handle' = handle
  /\ encrypted_state' = FALSE /\ smp_phase3_pending' = FALSE
  /\ smp' = smp_init(smp)
  /\ on_ble_connected
  /\ send_security_request(state, handle)
  /\ UNCHANGED <<bringup_step, saved, count>>

\* The bond of an LTK request is NoKey when EDIV and RAND are zero.
handle_le_ltk_request(bond) ==
  /\ ble_send_hci_cmd(state,
       IF bond = NoKey /\ smp.state = "STK_READY" THEN LtkReply("stk", NoKey)
       ELSE IF smp_lookup_ltk(smp, bond) THEN LtkReply("ltk", smp.bond)
       ELSE LtkReply("negative", NoKey))
  /\ UNCHANGED <<bringup_step, conn_handle, encrypted_state,
                 smp_phase3_pending, smp, hid, saved, count>>

handle_encryption_change(on) ==
  /\ encrypted_state' = on
  /\ IF on /\ smp.state = "STK_READY" THEN pump_phase3(state)
     ELSE /\ on_ble_encrypted(on) /\ no_send(state)
          /\ UNCHANGED <<smp_phase3_pending, smp, saved, count>>
  /\ UNCHANGED <<bringup_step, conn_handle>>

\* Mutants: what an ended connection leaves behind.
disconnection_without_adv ==
  /\ encrypted_state' = FALSE /\ smp_phase3_pending' = FALSE
  /\ on_ble_disconnected /\ no_send(state)
  /\ UNCHANGED <<bringup_step, conn_handle, smp, saved, count>>

disconnection_keeps_encrypted ==
  /\ UNCHANGED encrypted_state /\ smp_phase3_pending' = FALSE
  /\ bringup_step' = BRINGUP_ADV_ENABLE
  /\ send_bringup_step(state, BRINGUP_ADV_ENABLE)
  /\ on_ble_disconnected
  /\ UNCHANGED <<conn_handle, smp, saved, count>>

handle_disconnection_complete ==
  /\ encrypted_state' = FALSE /\ smp_phase3_pending' = FALSE
  /\ bringup_step' = BRINGUP_ADV_ENABLE
  /\ send_bringup_step(state, BRINGUP_ADV_ENABLE)
  /\ on_ble_disconnected
  /\ UNCHANGED <<conn_handle, smp, saved, count>>

handle_event(e) ==
  \/ e.op = "command_complete" /\ command_complete(e.value)
  \/ e.op = "connection" /\ on_le_connection_complete(e.value)
  \/ e.op = "ltk_request" /\ handle_le_ltk_request(e.value)
  \/ e.op = "encryption_change" /\ handle_encryption_change(e.value = 1)
  \/ e.op = "disconnection" /\ handle_disconnection_complete

\* A response is built in acl_tx_buf before it is known whether it is staged.
respond(pdu) ==
  IF pdu = NoPdu THEN no_send(state) ELSE ble_send_acl(state, conn_handle, pdu)

dispatch_smp(pdu) ==
  LET r == smp_handle_pdu(smp, pdu)
  IN  smp' = r.session /\ respond(r.pdu) /\ UNCHANGED hid

\* The central reads, or writes 1 to the CCCD of the report, which is an
\* encrypted attribute; attr_write is called for every write command.
AttOps == {"att_read", "att_write_req", "att_write_cmd"}

dispatch_att(pdu) ==
  LET written == pdu.op = "att_write_req" /\ encrypted_state
  IN  /\ respond(IF pdu.op = "att_write_cmd" THEN NoPdu
                 ELSE Plain("att_response"))
      /\ IF written \/ pdu.op = "att_write_cmd" THEN on_ble_attr_write
         ELSE UNCHANGED hid
      /\ UNCHANGED smp

handle_acl(pdu) ==
  /\ IF pdu.op \in AttOps THEN dispatch_att(pdu) ELSE dispatch_smp(pdu)
  /\ UNCHANGED <<bringup_step, conn_handle, encrypted_state,
                 smp_phase3_pending, saved, count>>

\* An IN ends: NAK, or the next packet of its pipe, which in_cb handles.
in_event ==
  /\ usb.pipe = "event" /\ usb' = Idle
  /\ \/ dongle.events = <<>> /\ UNCHANGED <<peripheralVars, dongle, count>>
     \/ /\ dongle.events # <<>> /\ handle_event(Head(dongle.events))
        /\ dongle' = [dongle EXCEPT !.events = Tail(@)]
  /\ UNCHANGED <<central, sent>>

in_acl ==
  /\ usb.pipe = "acl" /\ usb' = Idle
  /\ \/ dongle.acl = <<>> /\ UNCHANGED <<peripheralVars, dongle, count>>
     \/ /\ dongle.acl # <<>> /\ handle_acl(Head(dongle.acl))
        /\ dongle' = [dongle EXCEPT !.acl = Tail(@)]
  /\ UNCHANGED <<central, sent>>

-----------------------------------------------------------------------------
(* The dongle and the central *)

\* The dongle after event e.
With(d, e) == [d EXCEPT !.events = Append(@, e)]

\* A command has arrived: bring-up commands are completed, an LTK answer is
\* taken if the central still waits for it.
setup_done ==
  LET cmd == usb.command
      d == IF cmd.step = BRINGUP_RESET THEN NewDongle(TRUE)
           ELSE IF cmd.step = BRINGUP_ADV_ENABLE
           THEN [dongle EXCEPT !.adv = TRUE]
           ELSE dongle
  IN  /\ usb.pipe = "setup" /\ usb' = Idle
      /\ \/ /\ cmd.op = "bringup"
            /\ dongle' = With(d, Event("command_complete", cmd.step))
            /\ central' = IF d.link THEN central ELSE Unpaired(central.bond)
         \/ /\ cmd.op \in {"stk", "ltk"} /\ dongle.link /\ central.ltk = cmd.op
            /\ dongle' = With([dongle EXCEPT !.encrypted = TRUE],
                              Event("encryption_change", 1))
            /\ central' = [central EXCEPT !.ltk = "none",
                             !.pairing = IF cmd.op = "stk" THEN "keys" ELSE @]
         \/ /\ cmd.op = "negative" /\ dongle.link /\ central.ltk # "none"
            /\ central' = [central EXCEPT !.ltk = "none", !.bond = NoKey,
                             !.pairing = IF central.ltk = "stk" THEN "failed"
                                         ELSE @]
            /\ UNCHANGED dongle
         \/ /\ cmd.op # "bringup"
            /\ \/ ~dongle.link \/ central.ltk = "none"
               \/ cmd.op \notin {central.ltk, "negative"}
            /\ UNCHANGED <<dongle, central>>
      /\ UNCHANGED <<peripheralVars, count, sent>>


\* The two pipes have no order; a packet of a connection comes a connection
\* interval after its event, and the event has been polled by then.
Settled == \A i \in 1..Len(dongle.events) : dongle.events[i].op # "connection"

\* What the central waits for in each state of a pairing.
Expected(pdu) ==
  \/ pdu.op = "att_response"
  \/ /\ pdu.op = "pairing_failed"
     /\ central.pairing \in {"request", "confirm", "random"}
  \/ pdu.op = "pairing_response" /\ central.pairing = "request"
  \/ pdu.op = "pairing_confirm" /\ central.pairing = "confirm"
  \/ pdu.op = "pairing_random" /\ central.pairing = "random"
  \/ pdu.op = "encryption_info" /\ central.pairing = "keys"
  \/ /\ pdu.op = "master_identification" /\ central.pairing = "keys"
     /\ central.enc_info # NoKey

CentralAfter(pdu) ==
  CASE pdu.op = "att_response" -> [central EXCEPT !.waits = FALSE]
    [] pdu.op = "pairing_failed" -> [central EXCEPT !.pairing = "failed"]
    [] pdu.op = "pairing_response" -> [central EXCEPT !.pairing = "confirm"]
    [] pdu.op = "pairing_confirm" -> [central EXCEPT !.pairing = "random"]
    [] pdu.op = "pairing_random" ->
         [central EXCEPT !.pairing = "stk", !.ltk = "stk"]
    [] pdu.op = "encryption_info" -> [central EXCEPT !.enc_info = pdu.bond]
    [] pdu.op = "master_identification" ->
         [central EXCEPT !.pairing = "bonded", !.bond = pdu.bond]

DongleAfter(pdu) ==
  CASE pdu.op = "pairing_response" ->
         [dongle EXCEPT
            !.acl = Append(@, Pdu("pairing_confirm", central.tk, NoKey))]
    [] pdu.op = "pairing_confirm" ->
         [dongle EXCEPT !.acl = Append(@, Plain("pairing_random"))]
    [] pdu.op = "pairing_random" -> With(dongle, Event("ltk_request", NoKey))
    [] OTHER -> dongle

out_done ==
  /\ usb.pipe = "out" /\ usb' = Idle
  /\ IF /\ dongle.link /\ usb.packet.handle = count.connections
        /\ Expected(usb.packet.pdu)
     THEN /\ central' = CentralAfter(usb.packet.pdu)
          /\ dongle' = DongleAfter(usb.packet.pdu)
     ELSE UNCHANGED <<dongle, central>>
  /\ UNCHANGED <<peripheralVars, count, sent>>

\* What is left of the last connection is dropped: two links have no packets
\* in the dongle at a time.
CentralConnects ==
  /\ dongle.adv /\ ~dongle.link /\ count.connections < MaxConnections
  /\ count' = [count EXCEPT !.connections = @ + 1]
  /\ dongle' = With([dongle EXCEPT !.adv = FALSE, !.link = TRUE, !.acl = <<>>],
                    Event("connection", count'.connections))
  /\ UNCHANGED <<peripheralVars, usb, central, sent>>

CentralDisconnects ==
  /\ dongle.link
  /\ dongle' = With([dongle EXCEPT !.link = FALSE, !.encrypted = FALSE],
                    Event("disconnection", 0))
  /\ central' = Unpaired(central.bond)
  /\ UNCHANGED <<peripheralVars, usb, count, sent>>

\* A central that pairs forgets its bond.  After a failure it asks its user for
\* the passkey again.
CentralPairs(tk) ==
  /\ dongle.link /\ Settled /\ dongle.acl = <<>> /\ central.ltk = "none"
  /\ Passkey \/ tk = "just_works"
  /\ \/ central.pairing = "idle" /\ ~dongle.encrypted
     \/ /\ central.pairing = "failed"
        /\ (tk = "just_works") = (central.tk = "just_works")
     \/ PairsAgain /\ central.pairing \in {"idle", "failed", "bonded"}
  /\ count.pairings < MaxPairings
  /\ count' = [count EXCEPT !.pairings = @ + 1]
  /\ central' = [central EXCEPT !.pairing = "request", !.tk = tk,
                                !.bond = NoKey, !.enc_info = NoKey]
  /\ dongle' = [dongle EXCEPT !.acl = <<Pdu("pairing_request", tk, NoKey)>>]
  /\ UNCHANGED <<peripheralVars, usb, sent>>

CentralEncrypts ==
  /\ dongle.link /\ ~dongle.encrypted /\ central.bond # NoKey
  /\ central.pairing = "idle" /\ central.ltk = "none"
  /\ central' = [central EXCEPT !.ltk = "ltk"]
  /\ dongle' = With(dongle, Event("ltk_request", central.bond))
  /\ UNCHANGED <<peripheralVars, usb, count, sent>>

CentralRequests(op) ==
  /\ dongle.link /\ Settled /\ dongle.acl = <<>> /\ ~central.waits
  /\ count.requests < MaxRequests
  /\ count' = [count EXCEPT !.requests = @ + 1]
  /\ central' = [central EXCEPT !.waits = op # "att_write_cmd"]
  /\ dongle' = [dongle EXCEPT !.acl = <<Plain(op)>>]
  /\ UNCHANGED <<peripheralVars, usb, sent>>

Central ==
  \/ CentralConnects \/ CentralDisconnects \/ CentralEncrypts
  \/ \E tk \in TKs : CentralPairs(tk)
  \/ \E op \in AttOps : CentralRequests(op)

-----------------------------------------------------------------------------
(* The application, and what can happen to the dongle and the CPU *)

Application ==
  /\ "loop" \in SendFrom \/ ("quiet" \in SendFrom /\ usb = Idle)
  /\ send_report(state)
  /\ UNCHANGED <<bringup_step, conn_handle, encrypted_state, usb, dongle,
                 central, sent>>

\* The dongle is unplugged, the transfer under way is lost, and the USB host
\* calls on_usb_disconnected.
on_usb_disconnected ==
  /\ dongle.present /\ state # "DISCONNECTED" /\ count.faults < MaxFaults
  /\ count' = [count EXCEPT !.faults = @ + 1]
  /\ state' = "DISCONNECTED" /\ bringup_step' = BRINGUP_IDLE
  /\ encrypted_state' = FALSE /\ smp_phase3_pending' = FALSE
  /\ on_ble_disconnected
  /\ usb' = Idle /\ dongle' = NewDongle(FALSE)
  /\ central' = Unpaired(central.bond)
  /\ UNCHANGED <<hci_pkt, acl_tx_buf, staged, conn_handle, smp, saved, sent>>

Plug ==
  /\ ~dongle.present /\ dongle' = NewDongle(TRUE)
  /\ UNCHANGED <<peripheralVars, usb, central, count, sent>>

\* Mutant: the stored bond is not loaded.
init_without_bond ==
  /\ count.faults < MaxFaults
  /\ count' = [count EXCEPT !.faults = @ + 1]
  /\ state' = "DISCONNECTED" /\ bringup_step' = BRINGUP_IDLE
  /\ encrypted_state' = FALSE /\ smp_phase3_pending' = FALSE
  /\ smp' = Blank
  /\ hid' = [encrypted |-> FALSE, notify |-> FALSE, cccd |-> saved # NoKey]
  /\ hci_pkt' = NoAnswer /\ acl_tx_buf' = Packet(0, NoPdu) /\ conn_handle' = 0
  /\ usb' = Idle /\ dongle' = NewDongle(dongle.present)
  /\ central' = Unpaired(central.bond)
  /\ UNCHANGED <<saved, staged, sent>>

\* The CPU starts again; the bus reset that follows resets the dongle.
ble_peripheral_init ==
  /\ count.faults < MaxFaults
  /\ count' = [count EXCEPT !.faults = @ + 1]
  /\ state' = "DISCONNECTED" /\ bringup_step' = BRINGUP_IDLE
  /\ encrypted_state' = FALSE /\ smp_phase3_pending' = FALSE
  /\ smp' = IF saved = NoKey THEN Blank ELSE smp_set_bond(Blank, saved)
  /\ hid' = [encrypted |-> FALSE, notify |-> FALSE, cccd |-> saved # NoKey]
  /\ hci_pkt' = NoAnswer /\ acl_tx_buf' = Packet(0, NoPdu) /\ conn_handle' = 0
  /\ usb' = Idle /\ dongle' = NewDongle(dongle.present)
  /\ central' = Unpaired(central.bond)
  /\ UNCHANGED <<saved, staged, sent>>

Progress ==
  Detect \/ ble_peripheral_poll \/ in_event \/ in_acl \/ setup_done \/ out_done

Next ==
  \/ Progress \/ Central \/ Application
  \/ on_usb_disconnected \/ Plug \/ ble_peripheral_init

Spec == Init /\ [][Next]_vars

\* The main loop polls for ever, and a transfer ends.
FairSpec == Spec /\ WF_vars(Progress)

-----------------------------------------------------------------------------
(* Properties *)

Pdus == [op : STRING, tk : {"none"} \union TKs, bond : Nat]

(* A PDU that was staged is sent as it was built: "Bail out before touching  *)
(* acl_tx_buf if a previous staged ACL is still referencing it"              *)
(* (ble_peripheral_send_notification).                                       *)
StagedPacketIntact == state = "SEND_ACL" => acl_tx_buf = staged

(* save_bond is called with a bond whose two keys were sent to the central    *)
(* (smp_next_phase3_pdu returns "0 once all Phase 3 PDUs have been emitted"), *)
(* and a central that received both keys is known to the peripheral, now and *)
(* after a restart.                                                          *)
BondAgreement ==
  /\ saved # NoKey =>
       \A op \in {"encryption_info", "master_identification"} :
         Pdu(op, "none", saved) \in sent
  /\ central.bond # NoKey => smp.bond = central.bond /\ saved = central.bond

(* Encrypted attributes are served, and reports are sent, only while the     *)
(* link is encrypted or the event of its end waits in the dongle.            *)
EncryptedLink ==
  encrypted_state \/ hid.encrypted =>
    \/ dongle.encrypted
    \/ \E i \in 1..Len(dongle.events) : dongle.events[i].op = "disconnection"

(* A pairing fails only if the user typed the wrong passkey.                 *)
FailsForAReason ==
  [][central'.pairing = "failed" /\ central.pairing # "failed"
       => central.tk = "wrong"]_vars

(* A pairing ends: with the keys, with a failure, or with the connection.    *)
PairingEnds ==
  central.pairing \in {"request", "confirm", "random", "stk", "keys"}
    ~> central.pairing \in {"idle", "failed", "bonded"}

(* Every ATT request is answered while the connection lasts.                 *)
RequestsAnswered == central.waits ~> ~central.waits

(* A dongle that is not connected is made to advertise, again after every    *)
(* connection, restart and replacement.                                      *)
Advertises == dongle.present ~> dongle.adv \/ dongle.link \/ ~dongle.present

(* The application learns that the link is encrypted.                        *)
EncryptionReported == dongle.encrypted ~> hid.encrypted \/ ~dongle.encrypted

=============================================================================
