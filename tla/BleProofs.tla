----------------------------- MODULE BleProofs -----------------------------
(***************************************************************************)
(* Proofs about BlePeripheral for any number of connections, pairings,     *)
(* requests, reports and faults: the types, the packet that waits to be    *)
(* sent, and the encrypted link.                                           *)
(***************************************************************************)
EXTENDS BlePeripheral, SequenceTheorems, TLAPS

PeripheralStates ==
  {"DISCONNECTED", "DETECTED", "POLL_EVENT", "POLL_ACL", "SEND_HCI", "SEND_ACL"}

Operations ==
  {"none", "security_request", "notification", "att_response",
   "pairing_request", "pairing_response", "pairing_confirm", "pairing_random",
   "pairing_failed", "encryption_info", "master_identification"} \union AttOps
PduSet == [op : Operations, tk : {"none"} \union TKs, bond : Nat]
PacketSet == [handle : Nat, pdu : PduSet]

\* A bring-up command has a step, an answer to an LTK request has none.
CommandSet ==
  {c \in [op : {"none", "bringup", "stk", "ltk", "negative"}, step : 0..8,
          bond : Nat] : c.op = "bringup" <=> c.step # BRINGUP_IDLE}

\* The step of a completed command, and whether the link is encrypted.
EventSet ==
  {e \in [op : {"command_complete", "connection", "ltk_request",
                "encryption_change", "disconnection"}, value : Nat] :
     /\ e.op = "command_complete" => e.value \in 1..8
     /\ e.op = "encryption_change" => e.value = 1}

UsbSet ==
  [pipe : {"none", "event", "acl", "setup", "out"}, packet : PacketSet,
   command : CommandSet]
DongleSet ==
  [present : BOOLEAN, events : Seq(EventSet), acl : Seq(PduSet), adv : BOOLEAN,
   link : BOOLEAN, encrypted : BOOLEAN]
CentralSet ==
  [pairing : {"idle", "request", "confirm", "random", "stk", "keys", "bonded",
              "failed"},
   tk : {"none"} \union TKs, enc_info : Nat, bond : Nat,
   ltk : {"none", "stk", "ltk"}, waits : BOOLEAN]
CountSet ==
  [connections : Nat, pairings : Nat, requests : Nat, reports : Nat,
   faults : Nat, keys : Nat]

(* The types of the variables, in groups.                                    *)
SendTypes ==
  /\ state \in PeripheralStates
  /\ hci_pkt \in CommandSet /\ acl_tx_buf \in PacketSet /\ staged \in PacketSet
SessionTypes ==
  /\ bringup_step \in 0..9 /\ conn_handle \in Nat
  /\ encrypted_state \in BOOLEAN /\ smp_phase3_pending \in BOOLEAN
  /\ smp \in smp_session
  /\ hid \in [encrypted : BOOLEAN, notify : BOOLEAN, cccd : BOOLEAN]
  /\ saved \in Nat
LinkTypes ==
  /\ usb \in UsbSet /\ dongle \in DongleSet /\ central \in CentralSet
  /\ count \in CountSet

TypeInv == SendTypes /\ SessionTypes /\ LinkTypes

\* A packet that waits to be sent waits for no IN.
InPending == usb.pipe \in {"event", "acl"}
StagedInv ==
  /\ InPending => state \in Polling
  /\ state = "SEND_ACL" => acl_tx_buf = staged

\* Until the dongle was reset, nothing has happened.
Starting ==
  \/ state \in {"DISCONNECTED", "DETECTED"}
  \/ state = "SEND_HCI" /\ hci_pkt.step = BRINGUP_RESET
ResetPending ==
  Starting \/ (usb.pipe = "setup" /\ usb.command.step = BRINGUP_RESET)
Quiet ==
  /\ ~encrypted_state /\ ~hid.encrypted
  /\ dongle.events = <<>> /\ dongle.acl = <<>>
  /\ ~dongle.link /\ ~dongle.adv /\ ~dongle.encrypted

ResetInv ==
  /\ ResetPending => Quiet
  /\ Starting => usb = Idle
  /\ ~dongle.present => state = "DISCONNECTED"

\* The link is encrypted, or an event after i tells that it has ended.
Ends(events, i) ==
  \E j \in 1..Len(events) : i < j /\ events[j].op = "disconnection"

EncryptedInv ==
  /\ \A i \in 1..Len(dongle.events) :
       dongle.events[i].op = "encryption_change" =>
         dongle.encrypted \/ Ends(dongle.events, i)
  /\ encrypted_state \/ hid.encrypted =>
       dongle.encrypted \/ Ends(dongle.events, 0)

-----------------------------------------------------------------------------
(* The steps *)

\* The actions of Next, one by one.
LEMMA StepCases ==
  ASSUME [Next]_vars
  PROVE  \/ Detect \/ poll_detected \/ poll_event \/ poll_acl
         \/ poll_send_hci \/ poll_send_acl
         \/ in_event \/ in_acl \/ setup_done \/ out_done
         \/ CentralConnects \/ CentralDisconnects \/ CentralEncrypts
         \/ \E tk \in TKs : CentralPairs(tk)
         \/ \E op \in AttOps : CentralRequests(op)
         \/ Application \/ on_usb_disconnected \/ Plug \/ ble_peripheral_init
         \/ UNCHANGED vars
BY DEF Next, Progress, ble_peripheral_poll, Central

-----------------------------------------------------------------------------
(* Types *)

\* The records everything starts with have their types.
LEMMA BlankTypes ==
  /\ NoPdu \in PduSet /\ Packet(0, NoPdu) \in PacketSet /\ NoAnswer \in CommandSet
  /\ Idle \in UsbSet /\ Blank \in smp_session
  /\ \A p \in BOOLEAN : NewDongle(p) \in DongleSet
  /\ \A bond \in Nat : Unpaired(bond) \in CentralSet
<1> USE DEF NoPdu, Plain, Pdu, NoKey, Packet, NoAnswer, BRINGUP_IDLE
<1>1. /\ NoPdu \in PduSet /\ Packet(0, NoPdu) \in PacketSet
      /\ NoAnswer \in CommandSet
  BY DEF Operations, PduSet, PacketSet, CommandSet
<1>2. Idle \in UsbSet
  BY <1>1 DEF Idle, UsbSet
<1>3. Blank \in smp_session
  BY DEF Blank, smp_session, States
<1>4. \A p \in BOOLEAN : NewDongle(p) \in DongleSet
  BY EmptySeq DEF NewDongle, DongleSet
<1>5. \A bond \in Nat : Unpaired(bond) \in CentralSet
  BY DEF Unpaired, CentralSet
<1> QED BY <1>1, <1>2, <1>3, <1>4, <1>5

\* The PDUs and commands that the peripheral and the central build.
LEMMA PduTypes ==
  ASSUME NEW op \in Operations, NEW tk \in {"none"} \union TKs, NEW bond \in Nat
  PROVE  Pdu(op, tk, bond) \in PduSet /\ Plain(op) \in PduSet
BY DEF Pdu, Plain, PduSet, NoKey

\* So have the commands of the bring-up and the replies to an LTK request.
LEMMA CommandTypes ==
  /\ \A step \in 1..8 : Bringup(step) \in CommandSet
  /\ \A op \in {"stk", "ltk", "negative"}, bond \in Nat :
       LtkReply(op, bond) \in CommandSet
<1>1. ASSUME NEW step \in 1..8 PROVE Bringup(step) \in CommandSet
  <2>1. step \in 0..8 /\ step # 0
    OBVIOUS
  <2>2. /\ Bringup(step) \in [op : {"none", "bringup", "stk", "ltk", "negative"},
                              step : 0..8, bond : Nat]
        /\ Bringup(step).op = "bringup" /\ Bringup(step).step = step
    BY <2>1 DEF Bringup, NoAnswer, NoKey
  <2> QED BY <2>1, <2>2 DEF CommandSet, BRINGUP_IDLE
<1>2. ASSUME NEW op \in {"stk", "ltk", "negative"}, NEW bond \in Nat
      PROVE  LtkReply(op, bond) \in CommandSet
  <2>1. NoAnswer \in CommandSet /\ NoAnswer.step = 0
    BY BlankTypes DEF NoAnswer, BRINGUP_IDLE
  <2> QED BY <2>1 DEF LtkReply, CommandSet, BRINGUP_IDLE
<1> QED BY <1>1, <1>2

\* The security manager keeps its session and its PDUs in their types.
LEMMA SmpTypes ==
  ASSUME NEW s \in smp_session, NEW pdu \in PduSet
  PROVE  /\ smp_handle_pdu(s, pdu).session \in smp_session
         /\ smp_handle_pdu(s, pdu).pdu \in PduSet
<1> DEFINE Typed(a) == a.session \in smp_session /\ a.pdu \in PduSet
<1>1. /\ {"pairing_failed", "pairing_response", "pairing_confirm",
          "pairing_random"} \subseteq Operations
      /\ "none" \in {"none"} \union TKs /\ 0 \in Nat
  BY DEF Operations
<1>2. /\ Plain("pairing_failed") \in PduSet /\ Plain("pairing_response") \in PduSet
      /\ Plain("pairing_confirm") \in PduSet /\ Plain("pairing_random") \in PduSet
      /\ NoPdu \in PduSet
  BY <1>1, BlankTypes DEF Plain, Pdu, PduSet, NoKey
<1>3. ASSUME NEW t \in smp_session PROVE Typed(fail(t))
  BY <1>2 DEF fail, Answer
<1>4. ASSUME NEW t \in smp_session, NEW x \in States
      PROVE  [t EXCEPT !.state = x] \in smp_session
  BY DEF smp_session
<1>5. Typed(on_pairing_request(s, pdu))
  <2>1. [s EXCEPT !.bond = NoKey, !.jw_mode = ~(pdu.tk # "just_works" /\ Passkey),
                  !.state = "AWAITING_CONFIRM"] \in smp_session
    BY DEF smp_session, States, NoKey
  <2> QED BY <1>2, <2>1 DEF on_pairing_request, Answer
<1>6. Typed(on_pairing_confirm(s, pdu))
  <2>1. ensure_tk_keys(s) \in smp_session
    BY DEF ensure_tk_keys, smp_session
  <2>2. [ensure_tk_keys(s) EXCEPT !.mconfirm = pdu.tk, !.state = "AWAITING_RANDOM"]
          \in smp_session
    BY <2>1 DEF smp_session, States, PduSet
  <2> QED BY <1>2, <1>3, <2>2 DEF on_pairing_confirm, Answer
<1>7. Typed(on_pairing_random(s, pdu))
  <2>1. /\ [s EXCEPT !.state = "FAILED"] \in smp_session
        /\ [s EXCEPT !.state = "STK_READY"] \in smp_session
    BY <1>4 DEF States
  <2> QED BY <1>2, <1>3, <2>1 DEF on_pairing_random, Answer
<1>8. Typed(Answer([s EXCEPT !.state = "FAILED"], NoPdu))
  BY <1>2, <1>4 DEF Answer, States
<1> QED BY <1>3, <1>5, <1>6, <1>7, <1>8 DEF smp_handle_pdu

\* smp_next_phase3_pdu answers a session, a PDU and a bond.
LEMMA Phase3Types ==
  ASSUME NEW s \in smp_session, NEW fresh \in Nat
  PROVE  /\ smp_next_phase3_pdu(s, fresh).session \in smp_session
         /\ smp_next_phase3_pdu(s, fresh).pdu \in PduSet
         /\ [smp_next_phase3_pdu(s, fresh).session EXCEPT !.state = "IDLE"]
              \in smp_session
         /\ smp_get_bond(smp_next_phase3_pdu(s, fresh).session) \in Nat
<1> DEFINE t == IF s.bond = NoKey THEN [s EXCEPT !.bond = fresh] ELSE s
           r == smp_next_phase3_pdu(s, fresh)
<1>1. t \in smp_session
  BY DEF smp_session
<1> HIDE DEF t
<1>2. /\ [t EXCEPT !.phase3_index = 1] \in smp_session
      /\ [t EXCEPT !.phase3_index = 2] \in smp_session
      /\ t.bond \in Nat
  BY <1>1 DEF smp_session
<1>3. /\ Pdu("encryption_info", "none", t.bond) \in PduSet
      /\ Pdu("master_identification", "none", t.bond) \in PduSet
  BY <1>2, PduTypes DEF Operations
<1>4. \/ r = Answer([t EXCEPT !.phase3_index = 1],
                    Pdu("encryption_info", "none", t.bond))
      \/ r = Answer([t EXCEPT !.phase3_index = 2],
                    Pdu("master_identification", "none", t.bond))
      \/ r = Answer(t, NoPdu)
  BY DEF smp_next_phase3_pdu, t
<1>5. r.session \in smp_session /\ r.pdu \in PduSet
  BY <1>1, <1>2, <1>3, <1>4, BlankTypes DEF Answer
<1> HIDE DEF r
<1>6. [r.session EXCEPT !.state = "IDLE"] \in smp_session /\ r.session.bond \in Nat
  BY <1>5 DEF smp_session, States
<1> QED BY <1>5, <1>6 DEF r, smp_get_bond

-----------------------------------------------------------------------------
(* What is sent, and by whom *)

\* stage_tx keeps the types, whether or not it finds the slot free.
LEMMA SendFacts ==
  ASSUME SendTypes, NEW s \in PeripheralStates
  PROVE  /\ \A cmd \in CommandSet : ble_send_hci_cmd(s, cmd) => SendTypes'
         /\ \A handle \in Nat, pdu \in PduSet :
              ble_send_acl(s, handle, pdu) => SendTypes'
         /\ no_send(s) => SendTypes'
<1>1. ASSUME NEW cmd \in CommandSet, ble_send_hci_cmd(s, cmd) PROVE SendTypes'
  BY <1>1 DEF ble_send_hci_cmd, stage_tx, SendTypes, PeripheralStates
<1>2. ASSUME NEW handle \in Nat, NEW pdu \in PduSet, ble_send_acl(s, handle, pdu)
      PROVE  SendTypes'
  <2>1. Packet(handle, pdu) \in PacketSet
    BY DEF Packet, PacketSet
  <2> QED BY <1>2, <2>1 DEF ble_send_acl, stage_tx, SendTypes, PeripheralStates
<1>3. no_send(s) => SendTypes'
  BY DEF no_send, SendTypes
<1> QED BY <1>1, <1>2, <1>3

\* The callbacks of BLE HID write Booleans.
LEMMA HidTypes ==
  ASSUME SessionTypes
  PROVE  /\ \A on \in BOOLEAN : on_ble_encrypted(on) =>
              hid' \in [encrypted : BOOLEAN, notify : BOOLEAN, cccd : BOOLEAN]
         /\ on_ble_connected \/ on_ble_disconnected \/ on_ble_attr_write =>
              hid' \in [encrypted : BOOLEAN, notify : BOOLEAN, cccd : BOOLEAN]
BY DEF SessionTypes, on_ble_encrypted, on_ble_connected, on_ble_disconnected,
       on_ble_attr_write

\* The types of what the functions that send change besides.
Changed ==
  /\ SendTypes' /\ smp_phase3_pending' \in BOOLEAN /\ smp' \in smp_session
  /\ hid' \in [encrypted : BOOLEAN, notify : BOOLEAN, cccd : BOOLEAN]
  /\ saved' \in Nat /\ count' \in CountSet

\* pump_phase3 keeps the types,
LEMMA PumpTypes ==
  ASSUME TypeInv, NEW s \in PeripheralStates, pump_phase3(s)
  PROVE  Changed
<1> USE DEF TypeInv, SendTypes, SessionTypes, LinkTypes
<1> DEFINE r == smp_next_phase3_pdu(smp, count.keys + 1)
<1>1. count.keys + 1 \in Nat
  BY DEF CountSet
<1>2. /\ r.session \in smp_session /\ r.pdu \in PduSet
      /\ [r.session EXCEPT !.state = "IDLE"] \in smp_session
      /\ smp_get_bond(r.session) \in Nat
  BY <1>1, Phase3Types
<1>3. count' \in CountSet
  BY <1>1 DEF pump_phase3, CountSet
<1> HIDE DEF r
<1>4. /\ smp' \in {[r.session EXCEPT !.state = "IDLE"], r.session}
      /\ smp_phase3_pending' \in BOOLEAN
      /\ \/ no_send(s) /\ saved' = smp_get_bond(r.session) /\ on_ble_encrypted(TRUE)
         \/ ble_send_acl(s, conn_handle, r.pdu) /\ UNCHANGED <<saved, hid>>
  BY DEF pump_phase3, r
<1>5. SendTypes'
  BY <1>2, <1>4, SendFacts
<1> QED BY <1>2, <1>3, <1>4, <1>5, HidTypes DEF Changed

\* so does the application's report,
LEMMA ReportTypes ==
  ASSUME TypeInv, NEW s \in PeripheralStates, send_report(s)
  PROVE  Changed
<1> USE DEF TypeInv, SendTypes, SessionTypes, LinkTypes
<1>1. count' \in CountSet
  BY DEF send_report, CountSet
<1>2. SendTypes'
  BY SendFacts, PduTypes DEF send_report, Operations
<1> QED BY <1>1, <1>2 DEF send_report, Changed

\* and on_internal_sent, which calls one of them.
LEMMA InternalTypes ==
  ASSUME TypeInv, NEW s \in PeripheralStates, on_internal_sent(s)
  PROVE  Changed
<1>1. CASE no_send(s) /\ UNCHANGED <<smp_phase3_pending, smp, hid, saved, count>>
  BY <1>1, SendFacts DEF TypeInv, SessionTypes, LinkTypes, Changed
<1> QED BY <1>1, PumpTypes, ReportTypes DEF on_internal_sent

\* smp_init makes a session of a session.
LEMMA SmpInitTypes ==
  ASSUME NEW s \in smp_session
  PROVE  smp_init(s) \in smp_session
<1>1. "IDLE" \in States /\ 0 \in 0..2
  BY DEF States
<1> QED BY <1>1 DEF smp_init, smp_session

\* The events and the packets of the central, as in_cb handles them.
LEMMA EventTypes ==
  ASSUME TypeInv, NEW e \in EventSet, handle_event(e)
  PROVE  SendTypes' /\ SessionTypes' /\ count' \in CountSet
<1> USE DEF TypeInv, EventSet
<1>1. state \in PeripheralStates /\ count \in CountSet
  BY DEF SendTypes, LinkTypes
<1>2. CASE e.op = "command_complete" /\ command_complete(e.value)
  <2>1. bringup_step' \in 0..9
    BY <1>2 DEF command_complete, SessionTypes
  <2>2. SendTypes'
    <3>1. CASE send_bringup_step(state, e.value + 1) /\ e.value # BRINGUP_ADV_ENABLE
      <4>1. e.value + 1 \in 1..8
        BY <1>2, <3>1 DEF BRINGUP_ADV_ENABLE
      <4> QED BY <1>1, <3>1, <4>1, SendFacts, CommandTypes DEF send_bringup_step
    <3>2. CASE no_send(state)
      BY <1>1, <3>2, SendFacts
    <3> QED BY <1>2, <3>1, <3>2 DEF command_complete
  <2> QED BY <1>1, <1>2, <2>1, <2>2 DEF command_complete, SessionTypes
<1>3. CASE e.op = "connection" /\ on_le_connection_complete(e.value)
  <2>1. SendTypes'
    BY <1>1, <1>3, SendFacts, PduTypes
       DEF on_le_connection_complete, send_security_request, Operations
  <2>2. hid' \in [encrypted : BOOLEAN, notify : BOOLEAN, cccd : BOOLEAN]
    BY <1>3, HidTypes DEF on_le_connection_complete
  <2> QED BY <1>1, <1>3, <2>1, <2>2, SmpInitTypes
          DEF on_le_connection_complete, SessionTypes
<1>4. CASE e.op = "ltk_request" /\ handle_le_ltk_request(e.value)
  <2>1. /\ LtkReply("stk", NoKey) \in CommandSet /\ LtkReply("ltk", smp.bond) \in CommandSet
        /\ LtkReply("negative", NoKey) \in CommandSet
    BY CommandTypes DEF SessionTypes, smp_session, NoKey
  <2>2. SendTypes'
    BY <1>1, <1>4, <2>1, SendFacts DEF handle_le_ltk_request
  <2> QED BY <1>1, <1>4, <2>2 DEF handle_le_ltk_request, SessionTypes
<1>5. CASE e.op = "encryption_change" /\ handle_encryption_change(e.value = 1)
  <2>1. /\ encrypted_state' \in BOOLEAN /\ UNCHANGED <<bringup_step, conn_handle>>
    BY <1>5 DEF handle_encryption_change
  <2>2. CASE pump_phase3(state)
    BY <1>1, <2>1, <2>2, PumpTypes DEF Changed, SessionTypes
  <2>3. CASE /\ on_ble_encrypted(e.value = 1) /\ no_send(state)
             /\ UNCHANGED <<smp_phase3_pending, smp, saved, count>>
    <3>1. (e.value = 1) \in BOOLEAN
      OBVIOUS
    <3>2. hid' \in [encrypted : BOOLEAN, notify : BOOLEAN, cccd : BOOLEAN]
      BY <2>3, <3>1, HidTypes
    <3>3. SendTypes'
      BY <1>1, <2>3, SendFacts
    <3> QED BY <1>1, <2>1, <2>3, <3>2, <3>3 DEF SessionTypes
  <2> QED BY <1>5, <2>2, <2>3 DEF handle_encryption_change
<1>6. CASE e.op = "disconnection" /\ handle_disconnection_complete
  <2>1. SendTypes' /\ bringup_step' \in 0..9
    BY <1>1, <1>6, SendFacts, CommandTypes
       DEF handle_disconnection_complete, send_bringup_step, BRINGUP_ADV_ENABLE
  <2>2. hid' \in [encrypted : BOOLEAN, notify : BOOLEAN, cccd : BOOLEAN]
    BY <1>6, HidTypes DEF handle_disconnection_complete
  <2> QED BY <1>1, <1>6, <2>1, <2>2 DEF handle_disconnection_complete, SessionTypes
<1> QED BY <1>2, <1>3, <1>4, <1>5, <1>6 DEF handle_event

\* An answer of the ATT server is staged like any other packet.
LEMMA RespondTypes ==
  ASSUME TypeInv, NEW pdu \in PduSet, respond(pdu)
  PROVE  SendTypes'
BY SendFacts DEF TypeInv, SendTypes, SessionTypes, respond

\* The whole handler of an ACL packet keeps the types.
LEMMA AclTypes ==
  ASSUME TypeInv, NEW pdu \in PduSet, handle_acl(pdu)
  PROVE  SendTypes' /\ SessionTypes' /\ count' \in CountSet
<1>1. CASE dispatch_att(pdu)
  <2>1. SendTypes'
    BY <1>1, RespondTypes, BlankTypes, PduTypes DEF dispatch_att, Operations
  <2>2. hid' \in [encrypted : BOOLEAN, notify : BOOLEAN, cccd : BOOLEAN]
        /\ UNCHANGED smp
    BY <1>1, HidTypes DEF TypeInv, dispatch_att, SessionTypes
  <2> QED BY <2>1, <2>2 DEF handle_acl, TypeInv, SessionTypes, LinkTypes
<1>2. CASE dispatch_smp(pdu)
  <2>1. smp' \in smp_session /\ SendTypes' /\ UNCHANGED hid
    BY <1>2, SmpTypes, RespondTypes DEF dispatch_smp, TypeInv, SessionTypes
  <2> QED BY <2>1 DEF handle_acl, TypeInv, SessionTypes, LinkTypes
<1> QED BY <1>1, <1>2 DEF handle_acl

\* What does not touch the peripheral keeps its types.
LEMMA PeripheralTypesKept ==
  ASSUME TypeInv, UNCHANGED peripheralVars
  PROVE  SendTypes' /\ SessionTypes'
BY DEF TypeInv, peripheralVars, SendTypes, SessionTypes


\* The dongle's pipes.
LEMMA WithTypes ==
  ASSUME NEW d \in DongleSet, NEW e \in EventSet
  PROVE  With(d, e) \in DongleSet
<1>1. Append(d.events, e) \in Seq(EventSet)
  BY AppendProperties DEF DongleSet
<1> QED BY <1>1 DEF With, DongleSet

\* A packet more in the pipe of the dongle.
LEMMA AclPipeTypes ==
  ASSUME NEW d \in DongleSet, NEW pdu \in PduSet
  PROVE  /\ [d EXCEPT !.acl = Append(@, pdu)] \in DongleSet
         /\ [d EXCEPT !.acl = <<pdu>>] \in DongleSet
<1>1. Append(d.acl, pdu) \in Seq(PduSet) /\ <<pdu>> \in Seq(PduSet)
  BY AppendProperties DEF DongleSet
<1> QED BY <1>1 DEF DongleSet

\* The first event or packet of a pipe, and what is left behind it.
LEMMA HeadTypes ==
  ASSUME NEW d \in DongleSet
  PROVE  /\ d.events # <<>> => /\ Head(d.events) \in EventSet
                               /\ [d EXCEPT !.events = Tail(@)] \in DongleSet
         /\ d.acl # <<>> => /\ Head(d.acl) \in PduSet
                            /\ [d EXCEPT !.acl = Tail(@)] \in DongleSet
<1>1. ASSUME d.events # <<>>
      PROVE  /\ Head(d.events) \in EventSet
             /\ [d EXCEPT !.events = Tail(@)] \in DongleSet
  <2>1. Head(d.events) \in EventSet /\ Tail(d.events) \in Seq(EventSet)
    BY <1>1, HeadTailProperties DEF DongleSet
  <2>2. [d EXCEPT !.events = Tail(@)] \in DongleSet
    BY <2>1 DEF DongleSet
  <2> QED BY <2>1, <2>2
<1>2. ASSUME d.acl # <<>>
      PROVE  /\ Head(d.acl) \in PduSet
             /\ [d EXCEPT !.acl = Tail(@)] \in DongleSet
  <2>1. Head(d.acl) \in PduSet /\ Tail(d.acl) \in Seq(PduSet)
    BY <1>2, HeadTailProperties DEF DongleSet
  <2>2. [d EXCEPT !.acl = Tail(@)] \in DongleSet
    BY <2>1 DEF DongleSet
  <2> QED BY <2>1, <2>2
<1> QED BY <1>1, <1>2

\* The events the dongle makes are events.
LEMMA EventFacts ==
  /\ \A step \in 1..8 : Event("command_complete", step) \in EventSet
  /\ \A n \in Nat : /\ Event("connection", n) \in EventSet
                    /\ Event("ltk_request", n) \in EventSet
  /\ Event("encryption_change", 1) \in EventSet
  /\ Event("disconnection", 0) \in EventSet
BY DEF Event, EventSet

\* The dongle after a command has arrived.
LEMMA SetupDoneTypes ==
  ASSUME TypeInv, setup_done
  PROVE  usb' \in UsbSet /\ dongle' \in DongleSet /\ central' \in CentralSet
<1> USE DEF TypeInv, LinkTypes
<1> DEFINE cmd == usb.command
           d == IF cmd.step = BRINGUP_RESET THEN NewDongle(TRUE)
                ELSE IF cmd.step = BRINGUP_ADV_ENABLE
                THEN [dongle EXCEPT !.adv = TRUE]
                ELSE dongle
<1>1. /\ usb' = Idle
      /\ \/ /\ cmd.op = "bringup"
            /\ dongle' = With(d, Event("command_complete", cmd.step))
            /\ central' = IF d.link THEN central ELSE Unpaired(central.bond)
         \/ /\ dongle' = With([dongle EXCEPT !.encrypted = TRUE],
                              Event("encryption_change", 1))
            /\ central' = [central EXCEPT !.ltk = "none",
                             !.pairing = IF cmd.op = "stk" THEN "keys" ELSE @]
         \/ /\ central' = [central EXCEPT !.ltk = "none", !.bond = NoKey,
                             !.pairing = IF central.ltk = "stk" THEN "failed"
                                         ELSE @]
            /\ UNCHANGED dongle
         \/ UNCHANGED <<dongle, central>>
  BY DEF setup_done
<1>2. d \in DongleSet /\ [dongle EXCEPT !.encrypted = TRUE] \in DongleSet
  BY BlankTypes DEF DongleSet
<1>3. cmd.op = "bringup" => cmd.step \in 1..8
  BY DEF UsbSet, CommandSet, BRINGUP_IDLE
<1> HIDE DEF d, cmd
<1>4. dongle' \in DongleSet
  BY <1>1, <1>2, <1>3, WithTypes, EventFacts
<1>5. central.bond \in Nat /\ Unpaired(central.bond) \in CentralSet
  BY BlankTypes DEF CentralSet
<1>6. /\ \A p \in {"keys", central.pairing} :
           [central EXCEPT !.ltk = "none", !.pairing = p] \in CentralSet
      /\ \A p \in {"failed", central.pairing} :
           [central EXCEPT !.ltk = "none", !.bond = NoKey, !.pairing = p]
             \in CentralSet
  BY DEF CentralSet, NoKey
<1>7. central' \in CentralSet
  BY <1>1, <1>5, <1>6
<1> QED BY <1>1, <1>4, <1>7, BlankTypes

\* A packet taken by the dongle and answered by the central.
LEMMA OutDoneTypes ==
  ASSUME TypeInv, out_done
  PROVE  usb' \in UsbSet /\ dongle' \in DongleSet /\ central' \in CentralSet
<1> USE DEF TypeInv, LinkTypes
<1>1. usb' = Idle
  BY DEF out_done
<1>2. CASE UNCHANGED <<dongle, central>>
  BY <1>1, <1>2, BlankTypes
<1>3. CASE /\ Expected(usb.packet.pdu) /\ central' = CentralAfter(usb.packet.pdu)
           /\ dongle' = DongleAfter(usb.packet.pdu)
  <2>1. usb.packet.pdu.bond \in Nat
    BY DEF UsbSet, PacketSet, PduSet
  <2>2. central' \in CentralSet
    BY <1>3, <2>1 DEF Expected, CentralAfter, CentralSet
  <2>3. /\ Pdu("pairing_confirm", central.tk, NoKey) \in PduSet
        /\ Plain("pairing_random") \in PduSet
    BY PduTypes DEF Operations, CentralSet, NoKey
  <2>4. With(dongle, Event("ltk_request", NoKey)) \in DongleSet
    BY WithTypes, EventFacts DEF NoKey
  <2>5. dongle' \in DongleSet
    BY <1>3, <2>3, <2>4, AclPipeTypes DEF DongleAfter
  <2> QED BY <1>1, <2>2, <2>5, BlankTypes
<1> QED BY <1>2, <1>3 DEF out_done

\* Every step keeps the types.
LEMMA TypeStep ==
  ASSUME TypeInv, [Next]_vars
  PROVE  TypeInv'
<1> USE DEF TypeInv
<1>1. CASE Detect
  BY <1>1 DEF Detect, SendTypes, PeripheralStates, SessionTypes, LinkTypes
<1>2. CASE poll_detected
  <2>1. SendTypes' /\ bringup_step' \in 0..9
    BY <1>2, SendFacts, CommandTypes
       DEF poll_detected, send_bringup_step, PeripheralStates, BRINGUP_RESET
  <2> QED BY <1>2, <2>1 DEF poll_detected, SessionTypes, LinkTypes
<1>3. CASE poll_event \/ poll_acl
  <2>1. usb' \in UsbSet /\ state' \in PeripheralStates
    BY <1>3 DEF poll_event, poll_acl, poll_in, LinkTypes, UsbSet, PeripheralStates
  <2> QED BY <1>3, <2>1 DEF poll_event, poll_acl, poll_in, SendTypes, SessionTypes,
                        LinkTypes
<1>4. CASE poll_send_hci
  <2>1. usb' \in UsbSet
    BY <1>4 DEF poll_send_hci, SendTypes, LinkTypes, UsbSet
  <2>2. Changed
    BY <1>4, InternalTypes DEF poll_send_hci, PeripheralStates
  <2> QED BY <1>4, <2>1, <2>2 DEF poll_send_hci, Changed, SessionTypes, LinkTypes
<1>5. CASE poll_send_acl
  <2>1. usb' \in UsbSet
    BY <1>5 DEF poll_send_acl, SendTypes, LinkTypes, UsbSet
  <2>2. Changed
    BY <1>5, InternalTypes DEF poll_send_acl, PeripheralStates
  <2> QED BY <1>5, <2>1, <2>2 DEF poll_send_acl, Changed, SessionTypes, LinkTypes
<1>6. CASE in_event
  <2>1. usb' \in UsbSet /\ central' \in CentralSet
    BY <1>6, BlankTypes DEF in_event, LinkTypes
  <2>2. CASE UNCHANGED <<peripheralVars, dongle, count>>
    BY <2>1, <2>2, PeripheralTypesKept DEF LinkTypes
  <2>3. CASE /\ dongle.events # <<>> /\ handle_event(Head(dongle.events))
             /\ dongle' = [dongle EXCEPT !.events = Tail(@)]
    BY <2>1, <2>3, HeadTypes, EventTypes DEF LinkTypes
  <2> QED BY <1>6, <2>2, <2>3 DEF in_event
<1>7. CASE in_acl
  <2>1. usb' \in UsbSet /\ central' \in CentralSet
    BY <1>7, BlankTypes DEF in_acl, LinkTypes
  <2>2. CASE UNCHANGED <<peripheralVars, dongle, count>>
    BY <2>1, <2>2, PeripheralTypesKept DEF LinkTypes
  <2>3. CASE /\ dongle.acl # <<>> /\ handle_acl(Head(dongle.acl))
             /\ dongle' = [dongle EXCEPT !.acl = Tail(@)]
    BY <2>1, <2>3, HeadTypes, AclTypes DEF LinkTypes
  <2> QED BY <1>7, <2>2, <2>3 DEF in_acl
<1>8. CASE setup_done
  BY <1>8, SetupDoneTypes, PeripheralTypesKept DEF setup_done, LinkTypes
<1>9. CASE out_done
  BY <1>9, OutDoneTypes, PeripheralTypesKept DEF out_done, LinkTypes
<1>10. CASE CentralConnects
  <2>1. count' \in CountSet /\ count'.connections \in Nat
    BY <1>10 DEF CentralConnects, LinkTypes, CountSet
  <2>2. [dongle EXCEPT !.adv = FALSE, !.link = TRUE, !.acl = <<>>] \in DongleSet
    BY EmptySeq DEF LinkTypes, DongleSet
  <2> QED BY <1>10, <2>1, <2>2, WithTypes, EventFacts, PeripheralTypesKept
          DEF CentralConnects, LinkTypes
<1>11. CASE CentralDisconnects
  <2>1. [dongle EXCEPT !.link = FALSE, !.encrypted = FALSE] \in DongleSet
    BY DEF LinkTypes, DongleSet
  <2>2. Unpaired(central.bond) \in CentralSet
    BY BlankTypes DEF LinkTypes, CentralSet
  <2> QED BY <1>11, <2>1, <2>2, WithTypes, EventFacts, PeripheralTypesKept
          DEF CentralDisconnects, LinkTypes
<1>12. CASE CentralEncrypts
  <2>1. central.bond \in Nat /\ central' \in CentralSet
    BY <1>12 DEF CentralEncrypts, LinkTypes, CentralSet
  <2> QED BY <1>12, <2>1, WithTypes, EventFacts, PeripheralTypesKept
          DEF CentralEncrypts, LinkTypes
<1>13. ASSUME NEW tk \in TKs, CentralPairs(tk) PROVE TypeInv'
  <2>1. Pdu("pairing_request", tk, NoKey) \in PduSet
    BY PduTypes DEF Operations, NoKey
  <2>2. central' \in CentralSet
    BY <1>13 DEF CentralPairs, LinkTypes, CentralSet, NoKey
  <2>3. count' \in CountSet
    BY <1>13 DEF CentralPairs, LinkTypes, CountSet
  <2> QED BY <1>13, <2>1, <2>2, <2>3, AclPipeTypes, PeripheralTypesKept
          DEF CentralPairs, LinkTypes
<1>14. ASSUME NEW op \in AttOps, CentralRequests(op) PROVE TypeInv'
  <2>1. Plain(op) \in PduSet
    BY PduTypes, BlankTypes DEF Operations
  <2>2. (op # "att_write_cmd") \in BOOLEAN
    OBVIOUS
  <2>3. central' \in CentralSet
    BY <1>14, <2>2 DEF CentralRequests, LinkTypes, CentralSet
  <2>4. count' \in CountSet
    BY <1>14 DEF CentralRequests, LinkTypes, CountSet
  <2> QED BY <1>14, <2>1, <2>3, <2>4, AclPipeTypes, PeripheralTypesKept
          DEF CentralRequests, LinkTypes
<1>15. CASE Application
  <2>1. Changed
    BY <1>15, ReportTypes DEF Application, SendTypes
  <2> QED BY <1>15, <2>1 DEF Application, Changed, SessionTypes, LinkTypes
<1>16. CASE on_usb_disconnected
  <2>1. usb' \in UsbSet /\ dongle' \in DongleSet
    BY <1>16, BlankTypes DEF on_usb_disconnected
  <2>2. central.bond \in Nat
    BY DEF LinkTypes, CentralSet
  <2>3. central' \in CentralSet
    BY <1>16, <2>2, BlankTypes DEF on_usb_disconnected
  <2>4. count' \in CountSet
    BY <1>16 DEF on_usb_disconnected, LinkTypes, CountSet
  <2>5. hid' \in [encrypted : BOOLEAN, notify : BOOLEAN, cccd : BOOLEAN]
    BY <1>16, HidTypes DEF on_usb_disconnected
  <2>6. SendTypes'
    BY <1>16 DEF on_usb_disconnected, SendTypes, PeripheralStates
  <2>7. bringup_step' \in 0..9
    BY <1>16 DEF on_usb_disconnected, BRINGUP_IDLE
  <2>8. encrypted_state' \in BOOLEAN /\ smp_phase3_pending' \in BOOLEAN
    BY <1>16 DEF on_usb_disconnected
  <2>9. SessionTypes'
    BY <1>16, <2>5, <2>7, <2>8 DEF on_usb_disconnected, SessionTypes
  <2> QED BY <2>1, <2>3, <2>4, <2>6, <2>9 DEF LinkTypes
<1>17. CASE Plug
  <2>1. NewDongle(TRUE) \in DongleSet
    BY BlankTypes
  <2> QED BY <1>17, <2>1, PeripheralTypesKept DEF Plug, LinkTypes
<1>18. CASE ble_peripheral_init
  <2>1. dongle.present \in BOOLEAN /\ central.bond \in Nat
    BY DEF LinkTypes, DongleSet, CentralSet
  <2>2. usb' \in UsbSet /\ dongle' \in DongleSet /\ central' \in CentralSet
    BY <1>18, <2>1, BlankTypes DEF ble_peripheral_init
  <2>3. count' \in CountSet
    BY <1>18 DEF ble_peripheral_init, LinkTypes, CountSet
  <2>4. smp' \in smp_session
    BY <1>18, BlankTypes DEF ble_peripheral_init, SessionTypes, smp_set_bond,
       smp_session
  <2>5. (saved # NoKey) \in BOOLEAN
    OBVIOUS
  <2>6. SendTypes'
    BY <1>18, BlankTypes DEF ble_peripheral_init, SendTypes, PeripheralStates
  <2>7. bringup_step' \in 0..9 /\ conn_handle' \in Nat
    BY <1>18 DEF ble_peripheral_init, BRINGUP_IDLE
  <2>8. encrypted_state' \in BOOLEAN /\ smp_phase3_pending' \in BOOLEAN
    BY <1>18 DEF ble_peripheral_init
  <2>9. hid' \in [encrypted : BOOLEAN, notify : BOOLEAN, cccd : BOOLEAN]
    BY <1>18, <2>5 DEF ble_peripheral_init
  <2>10. SessionTypes'
    BY <1>18, <2>4, <2>7, <2>8, <2>9 DEF ble_peripheral_init, SessionTypes
  <2> QED BY <2>2, <2>3, <2>6, <2>10 DEF LinkTypes
<1>19. CASE UNCHANGED vars
  BY <1>19, PeripheralTypesKept DEF vars, LinkTypes
<1> QED BY <1>1, <1>2, <1>3, <1>4, <1>5, <1>6, <1>7, <1>8, <1>9, <1>10, <1>11,
           <1>12, <1>13, <1>14, <1>15, <1>16, <1>17, <1>18, <1>19, StepCases


\* They hold at the start.
LEMMA InitTypes ==
  ASSUME Init
  PROVE  TypeInv
<1>1. SendTypes
  BY BlankTypes DEF Init, SendTypes, PeripheralStates
<1>2. count \in CountSet
  BY DEF Init, CountSet
<1>3. dongle \in DongleSet /\ usb \in UsbSet /\ central \in CentralSet
  BY BlankTypes DEF Init, NoKey
<1>4. bringup_step \in 0..9 /\ conn_handle \in Nat /\ saved \in Nat
  BY DEF Init, NoKey, BRINGUP_IDLE
<1>5. /\ encrypted_state \in BOOLEAN /\ smp_phase3_pending \in BOOLEAN
      /\ hid \in [encrypted : BOOLEAN, notify : BOOLEAN, cccd : BOOLEAN]
  BY DEF Init
<1>6. SessionTypes
  BY <1>4, <1>5, BlankTypes DEF Init, SessionTypes
<1> QED BY <1>1, <1>2, <1>3, <1>6 DEF TypeInv, LinkTypes

(* The variables keep their types.                                           *)
THEOREM TypesOK == Spec => []TypeInv
<1>1. TypeInv /\ [Next]_vars => TypeInv'
  BY TypeStep
<1> QED BY InitTypes, <1>1, PTL DEF Spec

-----------------------------------------------------------------------------
(* The packet that waits *)

\* What in_cb, which runs in one of the two polling states, sends.
LEMMA InSends ==
  ASSUME state \in Polling, StagedInv
  PROVE  /\ \A cmd : ble_send_hci_cmd(state, cmd) => state' = "SEND_HCI"
         /\ \A handle, pdu : ble_send_acl(state, handle, pdu) =>
              state' = "SEND_ACL" /\ acl_tx_buf' = staged'
         /\ no_send(state) => state' = state /\ UNCHANGED <<acl_tx_buf, staged>>
BY DEF ble_send_hci_cmd, ble_send_acl, no_send, stage_tx

\* After a poll has sent what was staged, the state is POLL_EVENT.
LEMMA InternalSends ==
  ASSUME NEW s \in Polling, on_internal_sent(s)
  PROVE  /\ UNCHANGED hci_pkt
         /\ \/ state' = s
            \/ state' = "SEND_ACL" /\ acl_tx_buf' = staged'
         /\ hid'.encrypted => hid.encrypted \/ encrypted_state
         /\ ~encrypted_state /\ ~hid.encrypted => state' = s /\ UNCHANGED hid
<1>1. CASE pump_phase3(s) /\ encrypted_state
  BY <1>1 DEF pump_phase3, ble_send_acl, no_send, stage_tx
<1>2. CASE send_report(s)
  BY <1>2 DEF send_report, ble_send_acl, stage_tx
<1>3. CASE no_send(s) /\ UNCHANGED hid
  BY <1>3 DEF no_send
<1> QED BY <1>1, <1>2, <1>3 DEF on_internal_sent

\* No event that comes in overwrites a packet that waits to be sent,
LEMMA StagedEvent ==
  ASSUME state \in Polling, StagedInv, NEW e, handle_event(e)
  PROVE  state' = "SEND_ACL" => acl_tx_buf' = staged'
<1>1. \/ \E cmd : ble_send_hci_cmd(state, cmd)
      \/ \E handle, pdu : ble_send_acl(state, handle, pdu)
      \/ no_send(state)
  BY DEF handle_event, command_complete, send_bringup_step,
         on_le_connection_complete, send_security_request, handle_le_ltk_request,
         handle_encryption_change, pump_phase3, handle_disconnection_complete
<1> QED BY <1>1, InSends DEF Polling

\* and no ACL packet does.
LEMMA StagedAcl ==
  ASSUME state \in Polling, StagedInv, NEW pdu, handle_acl(pdu)
  PROVE  state' = "SEND_ACL" => acl_tx_buf' = staged'
<1>1. \E answer : respond(answer)
  BY DEF handle_acl, dispatch_att, dispatch_smp
<1>2. (\E handle, answer : ble_send_acl(state, handle, answer)) \/ no_send(state)
  BY <1>1 DEF respond
<1> QED BY <1>2, InSends DEF Polling

\* An application that sends only with no transfer under way stages no packet
\* that an IN, which ends later, could overwrite.
LEMMA StagedStep ==
  ASSUME "loop" \notin SendFrom, TypeInv, StagedInv, [Next]_vars
  PROVE  StagedInv'
<1> USE DEF StagedInv, InPending
<1>1. CASE Detect \/ poll_event \/ poll_acl
  BY <1>1 DEF Detect, poll_event, poll_acl, poll_in, Polling, Idle
<1>2. CASE poll_detected
  BY <1>2 DEF poll_detected, send_bringup_step, ble_send_hci_cmd, stage_tx, Idle,
     Polling
<1>3. CASE poll_send_hci \/ poll_send_acl
  <2>1. on_internal_sent("POLL_EVENT") /\ usb'.pipe \notin {"event", "acl"}
    BY <1>3 DEF poll_send_hci, poll_send_acl, TypeInv, LinkTypes, UsbSet
  <2>2. \/ state' = "POLL_EVENT"
        \/ state' = "SEND_ACL" /\ acl_tx_buf' = staged'
    BY <2>1, InternalSends DEF Polling
  <2> QED BY <2>1, <2>2
<1>4. CASE in_event
  <2>1. state \in Polling /\ usb'.pipe = "none"
    BY <1>4 DEF in_event, Idle
  <2>2. CASE UNCHANGED peripheralVars
    BY <2>1, <2>2 DEF peripheralVars
  <2> QED BY <1>4, <2>1, <2>2, StagedEvent DEF in_event
<1>5. CASE in_acl
  <2>1. state \in Polling /\ usb'.pipe = "none"
    BY <1>5 DEF in_acl, Idle
  <2>2. CASE UNCHANGED peripheralVars
    BY <2>1, <2>2 DEF peripheralVars
  <2> QED BY <1>5, <2>1, <2>2, StagedAcl DEF in_acl
<1>6. CASE setup_done \/ out_done
  <2>1. usb' = Idle /\ UNCHANGED peripheralVars
    BY <1>6 DEF setup_done, out_done
  <2> QED BY <2>1 DEF Idle, peripheralVars
<1>7. CASE CentralConnects \/ CentralDisconnects \/ CentralEncrypts \/ Plug
  BY <1>7 DEF CentralConnects, CentralDisconnects, CentralEncrypts, Plug,
     peripheralVars
<1>8. CASE \/ \E tk \in TKs : CentralPairs(tk)
           \/ \E op \in AttOps : CentralRequests(op)
  BY <1>8 DEF CentralPairs, CentralRequests, peripheralVars
<1>9. CASE Application
  <2>1. usb = Idle /\ UNCHANGED usb /\ state \in Polling
    BY <1>9 DEF Application, send_report
  <2>2. acl_tx_buf' = staged'
    BY <1>9, <2>1 DEF Application, send_report, ble_send_acl
  <2> QED BY <2>1, <2>2 DEF Idle
<1>10. CASE on_usb_disconnected \/ ble_peripheral_init
  <2>1. usb' = Idle /\ state' = "DISCONNECTED"
    BY <1>10 DEF on_usb_disconnected, ble_peripheral_init
  <2> QED BY <2>1 DEF Idle
<1>11. CASE UNCHANGED vars
  BY <1>11 DEF vars, peripheralVars
<1> QED BY <1>1, <1>2, <1>3, <1>4, <1>5, <1>6, <1>7, <1>8, <1>9, <1>10, <1>11,
           StepCases

(* If the application sends from on_sent, or from its main loop only with no *)
(* transfer under way, a PDU that was staged is sent as it was built: the    *)
(* bail-out of ble_peripheral_send_notification and the order of the poll    *)
(* states keep every other PDU out of acl_tx_buf until then.                 *)
THEOREM PacketKept == "loop" \notin SendFrom => (Spec => []StagedPacketIntact)
<1> SUFFICES ASSUME "loop" \notin SendFrom PROVE Spec => []StagedPacketIntact
  OBVIOUS
<1>1. Init => StagedInv
  BY DEF Init, StagedInv, InPending, Idle
<1>2. TypeInv /\ StagedInv /\ [Next]_vars => StagedInv'
  BY StagedStep
<1>3. StagedInv => StagedPacketIntact
  BY DEF StagedInv, StagedPacketIntact
<1> QED BY TypesOK, <1>1, <1>2, <1>3, PTL DEF Spec


-----------------------------------------------------------------------------
(* The dongle's reset, and the encrypted link *)

\* A step of dongle or central needs a peripheral that is up.
LEMMA ResetStays ==
  ASSUME ResetInv, UNCHANGED <<peripheralVars, usb>>, ~ResetPending,
         dongle'.present = dongle.present
  PROVE  ResetInv'
BY DEF ResetInv, ResetPending, Starting, peripheralVars

\* What a callback sends is not the command that resets the dongle.
LEMMA SendKeepsReset ==
  ASSUME ~Starting, state \in PeripheralStates
  PROVE  /\ \A cmd : ble_send_hci_cmd(state, cmd) /\ cmd.step # BRINGUP_RESET
              => ~Starting'
         /\ \A handle, pdu : ble_send_acl(state, handle, pdu) => ~Starting'
         /\ no_send(state) => ~Starting'
BY DEF Starting, ble_send_hci_cmd, ble_send_acl, no_send, stage_tx,
       PeripheralStates, Polling

\* pump_phase3 stages no command of the bring-up.
LEMMA PumpKeepsReset ==
  ASSUME ~Starting, state \in PeripheralStates, pump_phase3(state)
  PROVE  ~Starting'
<1>1. (\E handle, pdu : ble_send_acl(state, handle, pdu)) \/ no_send(state)
  BY DEF pump_phase3
<1> QED BY <1>1, SendKeepsReset

\* After an event the link is taken to be encrypted only if it was before, or
\* the event says so.
LEMMA EventEffect ==
  ASSUME TypeInv, ~Starting, NEW e \in EventSet, handle_event(e)
  PROVE  /\ ~Starting'
         /\ encrypted_state' \/ hid'.encrypted =>
              /\ e.op # "disconnection"
              /\ e.op = "encryption_change" \/ encrypted_state \/ hid.encrypted
<1>1. state \in PeripheralStates
  BY DEF TypeInv, SendTypes
<1>2. CASE e.op = "command_complete" /\ command_complete(e.value)
  <2>1. UNCHANGED <<encrypted_state, hid>>
    BY <1>2 DEF command_complete
  <2>2. CASE send_bringup_step(state, e.value + 1)
    <3>1. e.value + 1 # BRINGUP_RESET
      BY <1>2 DEF EventSet, BRINGUP_RESET
    <3>2. Bringup(e.value + 1).step = e.value + 1
      BY DEF Bringup, NoAnswer
    <3> QED BY <1>1, <1>2, <2>1, <2>2, <3>1, <3>2, SendKeepsReset
            DEF send_bringup_step
  <2>3. CASE no_send(state)
    BY <1>1, <1>2, <2>1, <2>3, SendKeepsReset
  <2> QED BY <1>2, <2>2, <2>3 DEF command_complete
<1>3. CASE e.op = "connection" /\ on_le_connection_complete(e.value)
  <2>1. ~Starting'
    BY <1>1, <1>3, SendKeepsReset DEF on_le_connection_complete,
       send_security_request
  <2>2. ~encrypted_state' /\ ~hid'.encrypted
    BY <1>3 DEF on_le_connection_complete, on_ble_connected, TypeInv, SessionTypes
  <2> QED BY <2>1, <2>2
<1>4. CASE e.op = "ltk_request" /\ handle_le_ltk_request(e.value)
  <2>1. PICK cmd : /\ ble_send_hci_cmd(state, cmd)
                   /\ \E op, bond : cmd = LtkReply(op, bond)
    BY <1>4 DEF handle_le_ltk_request
  <2>2. cmd.step # BRINGUP_RESET
    BY <2>1 DEF LtkReply, NoAnswer, BRINGUP_IDLE, BRINGUP_RESET
  <2> QED BY <1>1, <1>4, <2>1, <2>2, SendKeepsReset DEF handle_le_ltk_request
<1>5. CASE e.op = "encryption_change" /\ handle_encryption_change(e.value = 1)
  BY <1>1, <1>5, SendKeepsReset, PumpKeepsReset DEF handle_encryption_change
<1>6. CASE e.op = "disconnection" /\ handle_disconnection_complete
  <2>1. ~Starting'
    <3>1. ble_send_hci_cmd(state, Bringup(BRINGUP_ADV_ENABLE))
      BY <1>6 DEF handle_disconnection_complete, send_bringup_step
    <3>2. Bringup(BRINGUP_ADV_ENABLE).step # BRINGUP_RESET
      BY DEF Bringup, NoAnswer, BRINGUP_ADV_ENABLE, BRINGUP_RESET
    <3> QED BY <1>1, <3>1, <3>2, SendKeepsReset
  <2>2. ~encrypted_state' /\ ~hid'.encrypted
    BY <1>6 DEF handle_disconnection_complete, on_ble_disconnected,
       on_ble_connected, TypeInv, SessionTypes
  <2> QED BY <2>1, <2>2
<1> QED BY <1>2, <1>3, <1>4, <1>5, <1>6 DEF handle_event

\* An ACL packet changes nothing the link's encryption depends on.
LEMMA AclEffect ==
  ASSUME TypeInv, ~Starting, NEW pdu \in PduSet, handle_acl(pdu)
  PROVE  /\ ~Starting' /\ UNCHANGED encrypted_state
         /\ hid'.encrypted = hid.encrypted
<1>1. state \in PeripheralStates
  BY DEF TypeInv, SendTypes
<1>2. \E answer : respond(answer)
  BY DEF handle_acl, dispatch_att, dispatch_smp
<1>3. ~Starting'
  BY <1>1, <1>2, SendKeepsReset DEF respond
<1>4. hid'.encrypted = hid.encrypted
  BY DEF handle_acl, dispatch_att, dispatch_smp, on_ble_attr_write, TypeInv,
     SessionTypes
<1> QED BY <1>3, <1>4 DEF handle_acl

\* Unplugging or starting again makes the application forget the encryption.
LEMMA FaultClears ==
  ASSUME TypeInv, on_usb_disconnected \/ ble_peripheral_init
  PROVE  ~hid'.encrypted
<1>1. CASE on_usb_disconnected
  BY <1>1 DEF on_usb_disconnected, on_ble_disconnected, on_ble_connected, TypeInv,
     SessionTypes
<1>2. CASE ble_peripheral_init
  <2>1. hid' = [encrypted |-> FALSE, notify |-> FALSE, cccd |-> saved # NoKey]
    BY <1>2 DEF ble_peripheral_init
  <2> QED BY <2>1
<1> QED BY <1>1, <1>2

\* Every step keeps ResetInv.
LEMMA ResetStep ==
  ASSUME TypeInv, ResetInv, [Next]_vars
  PROVE  ResetInv'
<1> USE DEF ResetInv, ResetPending
<1>1. CASE Detect
  BY <1>1 DEF Detect, Starting, Quiet, Idle
<1>2. CASE poll_detected
  BY <1>2 DEF poll_detected, send_bringup_step, ble_send_hci_cmd, stage_tx, Polling,
     Starting, Quiet, Idle
<1>3. CASE poll_event \/ poll_acl
  <2>1. /\ usb'.pipe # "setup" /\ state' \in Polling /\ UNCHANGED dongle
        /\ state \in Polling
    BY <1>3 DEF poll_event, poll_acl, poll_in, Polling, TypeInv, LinkTypes, UsbSet
  <2> QED BY <2>1 DEF Starting, Polling
<1>4. CASE poll_send_hci
  <2>1. /\ usb'.pipe = "setup" /\ usb'.command = hci_pkt /\ state = "SEND_HCI"
        /\ on_internal_sent("POLL_EVENT") /\ UNCHANGED <<dongle, encrypted_state>>
    BY <1>4 DEF poll_send_hci, TypeInv, LinkTypes, UsbSet
  <2>2. /\ state' \in {"POLL_EVENT", "SEND_ACL"}
        /\ ~encrypted_state /\ ~hid.encrypted => UNCHANGED hid
    BY <2>1, InternalSends DEF Polling
  <2>3. ~Starting' /\ dongle.present
    BY <2>1, <2>2 DEF Starting
  <2>4. ResetPending' => Quiet /\ UNCHANGED hid
    BY <2>1, <2>2, <2>3 DEF Starting, Quiet
  <2> QED BY <2>1, <2>3, <2>4 DEF Quiet
<1>5. CASE poll_send_acl
  <2>1. /\ usb'.pipe = "out" /\ state = "SEND_ACL"
        /\ on_internal_sent("POLL_EVENT") /\ UNCHANGED dongle
    BY <1>5 DEF poll_send_acl, TypeInv, LinkTypes, UsbSet
  <2>2. state' \in {"POLL_EVENT", "SEND_ACL"}
    BY <2>1, InternalSends DEF Polling
  <2> QED BY <2>1, <2>2 DEF Starting
<1>6. CASE in_event
  <2>1. usb.pipe = "event" /\ usb'.pipe = "none" /\ ~Starting
    BY <1>6 DEF in_event, Idle
  <2>2. CASE UNCHANGED <<peripheralVars, dongle>>
    BY <2>1, <2>2 DEF peripheralVars, Starting
  <2>3. CASE /\ dongle.events # <<>> /\ handle_event(Head(dongle.events))
             /\ dongle' = [dongle EXCEPT !.events = Tail(@)]
    <3>1. ~Starting'
      BY <2>1, <2>3, EventEffect, HeadTypes DEF TypeInv, LinkTypes
    <3>2. dongle'.present = dongle.present
      BY <2>3 DEF TypeInv, LinkTypes, DongleSet
    <3> QED BY <2>1, <3>1, <3>2 DEF Starting
  <2> QED BY <1>6, <2>2, <2>3 DEF in_event
<1>7. CASE in_acl
  <2>1. usb.pipe = "acl" /\ usb'.pipe = "none" /\ ~Starting
    BY <1>7 DEF in_acl, Idle
  <2>2. CASE UNCHANGED <<peripheralVars, dongle>>
    BY <2>1, <2>2 DEF peripheralVars, Starting
  <2>3. CASE /\ dongle.acl # <<>> /\ handle_acl(Head(dongle.acl))
             /\ dongle' = [dongle EXCEPT !.acl = Tail(@)]
    <3>1. ~Starting'
      BY <2>1, <2>3, AclEffect, HeadTypes DEF TypeInv, LinkTypes
    <3>2. dongle'.present = dongle.present
      BY <2>3 DEF TypeInv, LinkTypes, DongleSet
    <3> QED BY <2>1, <3>1, <3>2 DEF Starting
  <2> QED BY <1>7, <2>2, <2>3 DEF in_acl
<1>8. CASE setup_done
  <2>1. /\ usb.pipe = "setup" /\ usb'.pipe = "none" /\ ~Starting /\ ~Starting'
        /\ state \notin {"DISCONNECTED"} /\ UNCHANGED state
    BY <1>8 DEF setup_done, Idle, Starting, peripheralVars
  <2>2. dongle.present
    BY <2>1
  <2>3. dongle'.present
    BY <1>8, <2>2 DEF setup_done, With, NewDongle, TypeInv, LinkTypes, DongleSet
  <2> QED BY <2>1, <2>3
<1>9. CASE out_done
  <2>1. /\ usb.pipe = "out" /\ usb'.pipe = "none" /\ ~Starting /\ ~Starting'
        /\ UNCHANGED state
    BY <1>9 DEF out_done, Idle, Starting, peripheralVars
  <2>2. dongle'.present = dongle.present
    BY <1>9 DEF out_done, DongleAfter, With, TypeInv, LinkTypes, DongleSet
  <2> QED BY <2>1, <2>2
<1>10. CASE \/ CentralConnects \/ CentralDisconnects \/ CentralEncrypts
            \/ \E tk \in TKs : CentralPairs(tk)
            \/ \E op \in AttOps : CentralRequests(op)
  <2>1. UNCHANGED <<peripheralVars, usb>> /\ (dongle.adv \/ dongle.link)
    BY <1>10 DEF CentralConnects, CentralDisconnects, CentralEncrypts,
       CentralPairs, CentralRequests
  <2>2. dongle'.present = dongle.present
    BY <1>10 DEF CentralConnects, CentralDisconnects, CentralEncrypts,
       CentralPairs, CentralRequests, With, TypeInv, LinkTypes, DongleSet
  <2> QED BY <2>1, <2>2, ResetStays DEF Quiet
<1>11. CASE Application
  <2>1. /\ hid.encrypted /\ UNCHANGED <<usb, dongle>>
        /\ ble_send_acl(state, conn_handle, Plain("notification"))
    BY <1>11 DEF Application, send_report
  <2>2. ~ResetPending
    BY <2>1 DEF Quiet
  <2>3. ~Starting'
    BY <2>1, <2>2, SendKeepsReset DEF TypeInv, SendTypes
  <2> QED BY <2>1, <2>2, <2>3 DEF Starting
<1>12. CASE on_usb_disconnected \/ ble_peripheral_init
  <2>1. /\ state' = "DISCONNECTED" /\ usb' = Idle /\ ~encrypted_state'
        /\ \E present : dongle' = NewDongle(present)
    BY <1>12 DEF on_usb_disconnected, ble_peripheral_init
  <2>2. ~hid'.encrypted
    BY <1>12, FaultClears
  <2>3. /\ dongle'.events = <<>> /\ dongle'.acl = <<>>
        /\ ~dongle'.link /\ ~dongle'.adv /\ ~dongle'.encrypted
    BY <2>1 DEF NewDongle
  <2>4. Quiet'
    BY <2>1, <2>2, <2>3 DEF Quiet
  <2> QED BY <2>1, <2>4
<1>13. CASE Plug
  BY <1>13 DEF Plug, peripheralVars, Starting, Quiet, NewDongle
<1>14. CASE UNCHANGED vars
  BY <1>14 DEF vars, peripheralVars, Starting, Quiet
<1> QED BY <1>1, <1>2, <1>3, <1>4, <1>5, <1>6, <1>7, <1>8, <1>9, <1>10, <1>11,
           <1>12, <1>13, <1>14, StepCases


\* The pipe of events moves on, or takes one more.
LEMMA TailEnds ==
  ASSUME NEW events \in Seq(EventSet), events # <<>>
  PROVE  /\ Tail(events) \in Seq(EventSet)
         /\ \A i \in 1..Len(Tail(events)) :
              i + 1 \in 1..Len(events) /\ Tail(events)[i] = events[i + 1]
         /\ \A i \in Nat : Ends(events, i + 1) => Ends(Tail(events), i)
         /\ Head(events).op # "disconnection" /\ Ends(events, 0)
              => Ends(Tail(events), 0)
<1>1. /\ Tail(events) \in Seq(EventSet) /\ Len(Tail(events)) = Len(events) - 1
      /\ Head(events) = events[1] /\ Len(events) \in Nat
      /\ \A i \in 1..Len(events) - 1 : Tail(events)[i] = events[i + 1]
  BY HeadTailProperties, LenProperties
<1>2. ASSUME NEW i \in Nat, NEW j \in 1..Len(events), i + 1 < j,
             events[j].op = "disconnection"
      PROVE  Ends(Tail(events), i)
  <2>1. /\ j - 1 \in 1..Len(Tail(events)) /\ i < j - 1
        /\ Tail(events)[j - 1] = events[j]
    <3>1. j - 1 \in 1..Len(events) - 1 /\ (j - 1) + 1 = j /\ i < j - 1
      BY <1>1, <1>2
    <3> QED BY <1>1, <3>1
  <2> QED BY <1>2, <2>1 DEF Ends
<1>3. \A i \in Nat : Ends(events, i + 1) => Ends(Tail(events), i)
  BY <1>2 DEF Ends
<1>4. ASSUME Head(events).op # "disconnection", Ends(events, 0)
      PROVE  Ends(Tail(events), 0)
  <2>1. PICK j \in 1..Len(events) : events[j].op = "disconnection"
    BY <1>4 DEF Ends
  <2>2. j # 1
    BY <1>1, <1>4, <2>1
  <2>3. 0 \in Nat /\ 0 + 1 < j
    BY <1>1, <2>2
  <2> QED BY <1>2, <2>1, <2>3
<1>5. \A i \in 1..Len(Tail(events)) :
        i + 1 \in 1..Len(events) /\ Tail(events)[i] = events[i + 1]
  BY <1>1
<1> QED BY <1>1, <1>3, <1>4, <1>5

\* An event more at the end: an end that was announced still is.
LEMMA AppendEnds ==
  ASSUME NEW events \in Seq(EventSet), NEW e \in EventSet
  PROVE  /\ Append(events, e) \in Seq(EventSet)
         /\ Len(Append(events, e)) = Len(events) + 1
         /\ \A i \in 1..Len(events) : Append(events, e)[i] = events[i]
         /\ Append(events, e)[Len(events) + 1] = e
         /\ \A i \in Nat : Ends(events, i) => Ends(Append(events, e), i)
         /\ e.op = "disconnection" =>
              \A i \in 0..Len(events) : Ends(Append(events, e), i)
<1>1. /\ Append(events, e) \in Seq(EventSet) /\ Len(events) \in Nat
      /\ Len(Append(events, e)) = Len(events) + 1
      /\ \A i \in 1..Len(events) : Append(events, e)[i] = events[i]
      /\ Append(events, e)[Len(events) + 1] = e
  BY AppendProperties, LenProperties
<1>2. \A i \in Nat : Ends(events, i) => Ends(Append(events, e), i)
  BY <1>1 DEF Ends
<1>3. ASSUME e.op = "disconnection", NEW i \in 0..Len(events)
      PROVE  Ends(Append(events, e), i)
  <2>1. Len(events) + 1 \in 1..Len(Append(events, e)) /\ i < Len(events) + 1
    BY <1>1
  <2> QED BY <1>1, <1>3, <2>1 DEF Ends
<1> QED BY <1>1, <1>2, <1>3

\* An event is appended, and it announces an encryption only if there is one.
LEMMA EventAppended ==
  ASSUME TypeInv, EncryptedInv, UNCHANGED peripheralVars, NEW e \in EventSet,
         dongle'.events = Append(dongle.events, e),
         e.op = "encryption_change" => dongle'.encrypted,
         dongle.encrypted => dongle'.encrypted \/ e.op = "disconnection"
  PROVE  EncryptedInv'
<1> DEFINE events == dongle.events
<1>1. events \in Seq(EventSet) /\ Len(events) \in Nat
  BY LenProperties DEF TypeInv, LinkTypes, DongleSet
<1>2. ASSUME NEW i \in 0..Len(events), dongle.encrypted \/ Ends(events, i)
      PROVE  dongle'.encrypted \/ Ends(dongle'.events, i)
  <2>1. i \in Nat
    BY <1>1
  <2> QED BY <1>1, <1>2, <2>1, AppendEnds
<1>3. ASSUME NEW i \in 1..Len(dongle'.events),
             dongle'.events[i].op = "encryption_change"
      PROVE  dongle'.encrypted \/ Ends(dongle'.events, i)
  <2>1. CASE i = Len(events) + 1
    BY <1>1, <1>3, <2>1, AppendEnds
  <2>2. CASE i # Len(events) + 1
    <3>1. i \in 1..Len(events) /\ i \in 0..Len(events)
      BY <1>1, <2>2, AppendEnds
    <3>2. events[i].op = "encryption_change"
      BY <1>1, <1>3, <3>1, AppendEnds
    <3>3. dongle.encrypted \/ Ends(events, i)
      BY <3>1, <3>2 DEF EncryptedInv
    <3> QED BY <1>2, <3>1, <3>3
  <2> QED BY <2>1, <2>2
<1>4. encrypted_state' \/ hid'.encrypted =>
        dongle'.encrypted \/ Ends(dongle'.events, 0)
  <2>1. 0 \in 0..Len(events)
    BY <1>1
  <2> QED BY <1>2, <2>1 DEF EncryptedInv, peripheralVars
<1> QED BY <1>3, <1>4 DEF EncryptedInv

\* What leaves the dongle's events and link alone.
LEMMA EncryptedKept ==
  ASSUME EncryptedInv, dongle'.events = dongle.events,
         dongle'.encrypted = dongle.encrypted,
         encrypted_state' \/ hid'.encrypted => encrypted_state \/ hid.encrypted
  PROVE  EncryptedInv'
BY DEF EncryptedInv

\* Every step keeps EncryptedInv.
LEMMA EncryptedStep ==
  ASSUME TypeInv, ResetInv, EncryptedInv, [Next]_vars
  PROVE  EncryptedInv'
<1>1. CASE \/ Detect \/ poll_detected \/ poll_event \/ poll_acl
           \/ UNCHANGED vars
  <2>1. UNCHANGED <<dongle, encrypted_state, hid>>
    BY <1>1 DEF Detect, poll_detected, poll_event, poll_acl, poll_in, vars,
       peripheralVars
  <2> QED BY <2>1, EncryptedKept
<1>2. CASE poll_send_hci \/ poll_send_acl
  <2>1. UNCHANGED <<dongle, encrypted_state>> /\ on_internal_sent("POLL_EVENT")
    BY <1>2 DEF poll_send_hci, poll_send_acl
  <2>2. hid'.encrypted => hid.encrypted \/ encrypted_state
    BY <2>1, InternalSends DEF Polling
  <2> QED BY <2>1, <2>2, EncryptedKept
<1>3. CASE in_event
  <2>1. usb.pipe = "event" /\ ~Starting
    BY <1>3 DEF in_event, ResetInv, Idle
  <2>2. CASE UNCHANGED <<peripheralVars, dongle>>
    BY <2>2, EncryptedKept DEF peripheralVars
  <2>3. CASE /\ dongle.events # <<>> /\ handle_event(Head(dongle.events))
             /\ dongle' = [dongle EXCEPT !.events = Tail(@)]
    <3> DEFINE events == dongle.events
    <3>1. /\ events \in Seq(EventSet) /\ Len(events) \in Nat /\ events # <<>>
          /\ dongle'.events = Tail(events)
          /\ dongle'.encrypted = dongle.encrypted
      BY <2>3, LenProperties DEF TypeInv, LinkTypes, DongleSet
    <3>2. ASSUME NEW i \in 1..Len(dongle'.events),
                 dongle'.events[i].op = "encryption_change"
          PROVE  dongle'.encrypted \/ Ends(dongle'.events, i)
      <4>1. i + 1 \in 1..Len(events) /\ events[i + 1].op = "encryption_change"
        BY <3>1, <3>2, TailEnds
      <4>2. dongle.encrypted \/ Ends(events, i + 1)
        BY <4>1 DEF EncryptedInv
      <4>3. i \in Nat
        BY <3>1, LenProperties, TailEnds
      <4> QED BY <3>1, <4>2, <4>3, TailEnds
    <3>3. ASSUME encrypted_state' \/ hid'.encrypted
          PROVE  dongle'.encrypted \/ Ends(dongle'.events, 0)
      <4>1. /\ Head(events).op # "disconnection"
            /\ \/ Head(events).op = "encryption_change"
               \/ encrypted_state \/ hid.encrypted
        BY <2>1, <2>3, <3>1, <3>3, EventEffect, HeadTailProperties
      <4>2. CASE encrypted_state \/ hid.encrypted
        BY <3>1, <4>1, <4>2, TailEnds DEF EncryptedInv
      <4>3. CASE Head(events).op = "encryption_change"
        <5>1. 1 \in 1..Len(events) /\ events[1] = Head(events)
          BY <3>1, HeadTailProperties, LenProperties
        <5>2. dongle.encrypted \/ Ends(events, 1)
          BY <4>3, <5>1 DEF EncryptedInv
        <5>3. 0 \in Nat /\ 0 + 1 = 1
          OBVIOUS
        <5> QED BY <3>1, <5>2, <5>3, TailEnds
      <4> QED BY <4>1, <4>2, <4>3
    <3> QED BY <3>2, <3>3 DEF EncryptedInv
  <2> QED BY <1>3, <2>2, <2>3 DEF in_event
<1>4. CASE in_acl
  <2>1. usb.pipe = "acl" /\ ~Starting
    BY <1>4 DEF in_acl, ResetInv, Idle
  <2>2. CASE UNCHANGED <<peripheralVars, dongle>>
    BY <2>2, EncryptedKept DEF peripheralVars
  <2>3. CASE /\ dongle.acl # <<>> /\ handle_acl(Head(dongle.acl))
             /\ dongle' = [dongle EXCEPT !.acl = Tail(@)]
    <3>1. UNCHANGED encrypted_state /\ hid'.encrypted = hid.encrypted
      BY <2>1, <2>3, AclEffect, HeadTypes DEF TypeInv, LinkTypes
    <3>2. dongle'.events = dongle.events /\ dongle'.encrypted = dongle.encrypted
      BY <2>3 DEF TypeInv, LinkTypes, DongleSet
    <3> QED BY <3>1, <3>2, EncryptedKept
  <2> QED BY <1>4, <2>2, <2>3 DEF in_acl
<1>5. CASE setup_done
  <2> DEFINE cmd == usb.command
  <2>1. UNCHANGED peripheralVars /\ dongle \in DongleSet /\ cmd \in CommandSet
    BY <1>5 DEF setup_done, TypeInv, LinkTypes, UsbSet
  <2>2. CASE UNCHANGED dongle
    BY <2>1, <2>2, EncryptedKept DEF peripheralVars
  <2>3. CASE /\ cmd.op = "bringup" /\ cmd.step = BRINGUP_RESET
             /\ dongle' = With(NewDongle(TRUE), Event("command_complete", cmd.step))
    <3>1. Quiet
      BY <1>5, <2>3 DEF ResetInv, ResetPending, setup_done
    <3>2. dongle'.events = <<Event("command_complete", cmd.step)>>
      BY <2>3 DEF With, NewDongle
    <3>3. \A i \in 1..Len(dongle'.events) :
            dongle'.events[i].op # "encryption_change"
      BY <3>2 DEF Event
    <3> QED BY <2>1, <3>1, <3>3 DEF EncryptedInv, Quiet, peripheralVars
  <2>4. CASE /\ cmd.op = "bringup"
             /\ \E d \in {dongle, [dongle EXCEPT !.adv = TRUE]} :
                  dongle' = With(d, Event("command_complete", cmd.step))
    <3>1. Event("command_complete", cmd.step) \in EventSet
      BY <2>1, <2>4, EventFacts DEF CommandSet, BRINGUP_IDLE
    <3>2. /\ dongle'.events
               = Append(dongle.events, Event("command_complete", cmd.step))
          /\ dongle'.encrypted = dongle.encrypted
      BY <2>1, <2>4 DEF With, DongleSet
    <3> QED BY <2>1, <3>1, <3>2, EventAppended DEF Event
  <2>5. CASE dongle' = With([dongle EXCEPT !.encrypted = TRUE],
                            Event("encryption_change", 1))
    <3>1. /\ dongle'.events = Append(dongle.events, Event("encryption_change", 1))
          /\ dongle'.encrypted
      BY <2>1, <2>5 DEF With, DongleSet
    <3> QED BY <2>1, <3>1, EventFacts, EventAppended
  <2> QED BY <1>5, <2>2, <2>3, <2>4, <2>5 DEF setup_done
<1>6. CASE out_done
  <2>1. UNCHANGED peripheralVars /\ dongle \in DongleSet
    BY <1>6 DEF out_done, TypeInv, LinkTypes
  <2>2. CASE dongle' = With(dongle, Event("ltk_request", NoKey))
    <3>1. Event("ltk_request", NoKey) \in EventSet
      BY EventFacts DEF NoKey
    <3>2. /\ dongle'.events = Append(dongle.events, Event("ltk_request", NoKey))
          /\ dongle'.encrypted = dongle.encrypted
      BY <2>1, <2>2 DEF With, DongleSet
    <3> QED BY <2>1, <3>1, <3>2, EventAppended DEF Event
  <2>3. CASE dongle'.events = dongle.events /\ dongle'.encrypted = dongle.encrypted
    BY <2>1, <2>3, EncryptedKept DEF peripheralVars
  <2>4. CASE dongle' = DongleAfter(usb.packet.pdu)
    BY <2>1, <2>2, <2>3, <2>4 DEF DongleAfter, DongleSet
  <2> QED BY <1>6, <2>3, <2>4 DEF out_done
<1>7. CASE CentralConnects
  <2> DEFINE e == Event("connection", count'.connections)
  <2>1. count'.connections \in Nat /\ dongle \in DongleSet
    BY <1>7 DEF CentralConnects, TypeInv, LinkTypes, CountSet
  <2>2. /\ dongle'.events = Append(dongle.events, e)
        /\ dongle'.encrypted = dongle.encrypted /\ UNCHANGED peripheralVars
    BY <1>7, <2>1 DEF CentralConnects, With, DongleSet
  <2> QED BY <2>1, <2>2, EventFacts, EventAppended DEF Event
<1>8. CASE CentralDisconnects
  <2>1. dongle \in DongleSet
    BY DEF TypeInv, LinkTypes
  <2>2. /\ dongle'.events = Append(dongle.events, Event("disconnection", 0))
        /\ UNCHANGED peripheralVars
    BY <1>8, <2>1 DEF CentralDisconnects, With, DongleSet
  <2> QED BY <2>2, EventFacts, EventAppended DEF Event
<1>9. CASE CentralEncrypts
  <2>1. dongle \in DongleSet /\ central.bond \in Nat
    BY DEF TypeInv, LinkTypes, CentralSet
  <2>2. /\ dongle'.events
             = Append(dongle.events, Event("ltk_request", central.bond))
        /\ dongle'.encrypted = dongle.encrypted /\ UNCHANGED peripheralVars
    BY <1>9, <2>1 DEF CentralEncrypts, With, DongleSet
  <2> QED BY <2>1, <2>2, EventFacts, EventAppended DEF Event
<1>10. CASE \/ \E tk \in TKs : CentralPairs(tk)
            \/ \E op \in AttOps : CentralRequests(op)
  <2>1. /\ dongle'.events = dongle.events /\ dongle'.encrypted = dongle.encrypted
        /\ UNCHANGED peripheralVars
    BY <1>10 DEF CentralPairs, CentralRequests, TypeInv, LinkTypes, DongleSet
  <2> QED BY <2>1, EncryptedKept DEF peripheralVars
<1>11. CASE Application
  BY <1>11, EncryptedKept DEF Application, send_report
<1>12. CASE on_usb_disconnected \/ ble_peripheral_init
  <2>1. ~encrypted_state' /\ \E present : dongle' = NewDongle(present)
    BY <1>12 DEF on_usb_disconnected, ble_peripheral_init
  <2>2. ~hid'.encrypted
    BY <1>12, FaultClears
  <2>3. 1..Len(dongle'.events) = {}
    BY <2>1 DEF NewDongle
  <2> QED BY <2>1, <2>2, <2>3 DEF EncryptedInv
<1>13. CASE Plug
  <2>1. Quiet /\ UNCHANGED peripheralVars /\ dongle' = NewDongle(TRUE)
    BY <1>13 DEF Plug, ResetInv, ResetPending, Starting
  <2>2. 1..Len(dongle'.events) = {}
    BY <2>1 DEF NewDongle
  <2> QED BY <2>1, <2>2 DEF EncryptedInv, Quiet, peripheralVars
<1> QED BY <1>1, <1>2, <1>3, <1>4, <1>5, <1>6, <1>7, <1>8, <1>9, <1>10, <1>11,
           <1>12, <1>13, StepCases

(* However often centrals connect and pair, the dongle is unplugged and the  *)
(* CPU starts again, encrypted_state and the application's flag say that the *)
(* link is encrypted only while it is, or while the event of its end waits.  *)
THEOREM LinkEncrypted == Spec => []EncryptedLink
<1>1. Init => ResetInv /\ EncryptedInv
  <2>1. Init => Quiet /\ usb = Idle /\ dongle.present
    BY DEF Init, Quiet, NewDongle
  <2>2. Quiet => EncryptedInv
    BY DEF Quiet, EncryptedInv
  <2> QED BY <2>1, <2>2 DEF ResetInv
<1>2. TypeInv /\ ResetInv /\ EncryptedInv /\ [Next]_vars
        => ResetInv' /\ EncryptedInv'
  BY ResetStep, EncryptedStep
<1>3. EncryptedInv => EncryptedLink
  BY DEF EncryptedInv, EncryptedLink, Ends
<1> QED BY TypesOK, <1>1, <1>2, <1>3, PTL DEF Spec

=============================================================================
