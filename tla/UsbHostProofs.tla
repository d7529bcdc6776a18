--------------------------- MODULE UsbHostProofs ---------------------------
(***************************************************************************)
(* Proofs about UsbHost for every set of devices, calls and answers: the   *)
(* types, who owns transaction_lock, and what the host knows of its        *)
(* devices.                                                                *)
(***************************************************************************)
EXTENDS UsbHost, TLAPS

\* A bus reset is going on in two states only, so that in the others a device
\* is attached whenever its port is polled.  A delay never leads to a delay.
ResetPort(h) ==
  /\ resetting[h] => At(h) \in {"RESET", "ENABLE"}
  /\ delay_next_state[h] \notin {"DELAY", "TRANSACTION", "SET_ADDRESS_DONE"}
ResetInv == \A h \in Hubs : ResetPort(h)

\* Ports are numbers, and turns go round.
LEMMA HubFacts ==
  /\ FirstTurn \in Hubs
  /\ \A h \in Hubs : h \in {0, 1} /\ h # App /\ h # NoHub
  /\ \A h \in Hubs : TurnAfter(h) \in Hubs \cup {App}
BY HubsAssumption DEF FirstTurn, TurnAfter

\* A port that is not about to be reset has a device.
LEMMA AttachFact ==
  ASSUME TypeOK, ResetInv, NEW h \in Hubs, NEW s, In(h, s),
         s \notin {"IDLE", "RESET", "ENABLE", "DELAY"}
  PROVE  device[h] \in Devices /\ attach(h)
BY DEF TypeOK, ResetInv, ResetPort, In, Detached, attach, At

\* The fields of the descriptors a port may find.
LEMMA BufferFact ==
  ASSUME TypeOK, NEW h \in Hubs, device[h] \in Devices,
         NEW desc \in Buffered(h)
  PROVE  /\ desc.hid \in BOOLEAN /\ desc.boot \in Boots
         /\ desc.strings \in 0..3 /\ desc.ports \in Nat
         /\ desc.wakeup \in BOOLEAN /\ desc.slow \in BOOLEAN
BY DevicesAssumption DEF Buffered, DeviceType

-----------------------------------------------------------------------------
(* Types.  TypeOK is taken apart into the groups of variables that the       *)
(* actions change or leave alone together.                                   *)

ControlOK ==
  /\ turn \in Hubs \cup {App}
  /\ state \in [Hubs -> States] /\ delay_next_state \in [Hubs -> States]
InfoOK ==
  /\ no_remote_wakeup \in [Hubs -> BOOLEAN] /\ is_hid \in [Hubs -> BOOLEAN]
  /\ hid_boot \in [Hubs -> Boots] /\ hub_ports \in [Hubs -> Nat]
PortOK ==
  /\ initial_check \in [Hubs -> BOOLEAN] /\ resetting \in [Hubs -> BOOLEAN]
  /\ hub_address \in [Hubs -> Addresses] /\ UHUB_CTRL \in [Hubs -> BOOLEAN]
TransferOK ==
  /\ transaction_recv_state \in RecvStates \cup {"IDLE"}
  /\ transaction_pid \in {"SETUP", "IN", "OUT"}
  /\ transaction_stage \in 0..2 /\ transaction_size \in 0..(SIZES - 1)
  /\ tx_request \in [dir : {"IN", "OUT"}, data : BOOLEAN]
  /\ UH_EP_PID \in BOOLEAN
  /\ token \in {"none", "ACK", "NAK", "STALL", "TIMEOUT", "ERROR"}
  /\ issuer \in Hubs \cup {NoHub}
LockOK ==
  /\ transaction_lock \in Hubs \cup {NoHub}
  /\ USB_DEV_AD \in Addresses /\ USB_CTRL \in BOOLEAN
TemplatesOK ==
  /\ string_index \in 0..3 /\ full \subseteq {"string", "configuration", "hub"}
  /\ address \in Addresses /\ port \in Nat
DeviceOK ==
  /\ device \in [Hubs -> Devices \cup {NoDevice}]
  /\ device_address \in [Hubs -> Addresses]
  /\ device_toggle \in [Hubs -> BOOLEAN]
  /\ unplugs \in 0..MaxUnplugs
RetryOK == do_not_retry \in [Hubs -> BOOLEAN]
ToggleOK == bulk_out_toggle \in [Hubs -> BOOLEAN]
OutcomeOK == outcome \in {"ok", "nak", "stall", "timeout"}

\* The type invariant, group by group.
LEMMA Groups ==
  /\ TypeOK <=> /\ ControlOK /\ InfoOK /\ PortOK /\ TransferOK /\ LockOK
                /\ TemplatesOK /\ DeviceOK /\ RetryOK /\ ToggleOK /\ OutcomeOK
  /\ TypeOK' <=> /\ ControlOK' /\ InfoOK' /\ PortOK' /\ TransferOK' /\ LockOK'
                 /\ TemplatesOK' /\ DeviceOK' /\ RetryOK' /\ ToggleOK'
                 /\ OutcomeOK'
BY DEF TypeOK, ControlOK, InfoOK, PortOK, TransferOK, LockOK, TemplatesOK,
       DeviceOK, RetryOK, ToggleOK, OutcomeOK

\* What a step leaves alone keeps its type.
LEMMA Kept ==
  ASSUME TypeOK
  PROVE  /\ UNCHANGED <<turn, delayVars>> => ControlOK'
         /\ UNCHANGED deviceInfo => InfoOK'
         /\ UNCHANGED portVars => PortOK'
         /\ UNCHANGED transferVars => TransferOK'
         /\ UNCHANGED lockVars => LockOK'
         /\ UNCHANGED templates => TemplatesOK'
         /\ UNCHANGED deviceVars => DeviceOK'
         /\ UNCHANGED do_not_retry => RetryOK'
         /\ UNCHANGED bulk_out_toggle => ToggleOK'
         /\ UNCHANGED outcome => OutcomeOK'
<1> USE Groups DEF delayVars, deviceInfo, portVars, transferVars, lockVars,
                   templates, deviceVars
<1>1. UNCHANGED <<turn, delayVars>> => ControlOK'
  BY DEF ControlOK
<1>2. UNCHANGED deviceInfo => InfoOK'
  BY DEF InfoOK
<1>3. UNCHANGED portVars => PortOK'
  BY DEF PortOK
<1>4. UNCHANGED transferVars => TransferOK'
  BY DEF TransferOK
<1>5. UNCHANGED lockVars => LockOK'
  BY DEF LockOK
<1>6. UNCHANGED templates => TemplatesOK'
  BY DEF TemplatesOK
<1>7. UNCHANGED deviceVars => DeviceOK'
  BY DEF DeviceOK
<1>8. /\ UNCHANGED do_not_retry => RetryOK'
      /\ UNCHANGED bulk_out_toggle => ToggleOK'
      /\ UNCHANGED outcome => OutcomeOK'
  BY DEF RetryOK, ToggleOK, OutcomeOK
<1> QED BY <1>1, <1>2, <1>3, <1>4, <1>5, <1>6, <1>7, <1>8

\* Types of the operators fsm is made of: the end of a turn,
LEMMA TurnType ==
  ASSUME NEW h \in Hubs, NEW again \in BOOLEAN, Return(h, again)
  PROVE  turn' \in Hubs \cup {App}
BY HubFacts DEF Return

\* goto and delay,
LEMMA GotoTypes ==
  ASSUME TypeOK, NEW h \in Hubs, NEW s \in States,
         goto(h, s) \/ delay(h, s), turn' \in Hubs \cup {App}
  PROVE  ControlOK'
BY Groups DEF ControlOK, goto, delay, States

\* pause,
LEMMA PauseTypes ==
  ASSUME TypeOK, NEW h \in Hubs, NEW s \in States, pause(h, s)
  PROVE  ControlOK' /\ TransferOK' /\ DeviceOK' /\ RetryOK' /\ OutcomeOK'
<1>1. ControlOK'
  BY GotoTypes, TurnType DEF pause
<1> QED BY <1>1, Kept DEF pause

\* host_transact,
LEMMA TransactTypes ==
  ASSUME TypeOK, NEW h \in Hubs, NEW n \in 0..(SIZES - 1),
         NEW recv \in RecvStates \cup {"IDLE"},
         NEW pid \in {"SETUP", "IN", "OUT"}, NEW stage \in 0..2,
         host_transact(h, n, recv, pid, stage), turn' \in Hubs \cup {App},
         tx_request' \in [dir : {"IN", "OUT"}, data : BOOLEAN]
  PROVE  ControlOK' /\ TransferOK'
<1>1. ControlOK'
  BY GotoTypes DEF host_transact, States
<1>2. transaction_size' \in 0..(SIZES - 1)
  BY EnvironmentAssumption DEF host_transact
<1> QED BY <1>1, <1>2, Groups DEF host_transact, TransferOK

\* host_setup_transfer,
LEMMA SetupTypes ==
  ASSUME TypeOK, NEW h \in Hubs, NEW dir \in {"IN", "OUT"},
         NEW data \in BOOLEAN, NEW recv \in RecvStates,
         host_setup_transfer(h, dir, data, recv), turn' \in Hubs \cup {App}
  PROVE  ControlOK' /\ TransferOK'
<1>1. tx_request' \in [dir : {"IN", "OUT"}, data : BOOLEAN]
  BY DEF host_setup_transfer
<1>2. 0 \in 0..(SIZES - 1) /\ 0 \in 0..2
  BY EnvironmentAssumption
<1> QED BY <1>1, <1>2, TransactTypes DEF host_setup_transfer

\* send,
LEMMA SendTypes ==
  ASSUME TypeOK, NEW h \in Hubs, NEW dir \in {"IN", "OUT"},
         NEW data \in BOOLEAN, NEW recv \in RecvStates,
         send(h, dir, data, recv)
  PROVE  TypeOK'
<1>1. turn' \in Hubs \cup {App}
  BY TurnType DEF send
<1>2. ControlOK' /\ TransferOK'
  BY <1>1, SetupTypes DEF send
<1> QED BY <1>2, Kept, Groups DEF send

\* the lock,
LEMMA LockTypes ==
  ASSUME TypeOK, NEW h \in Hubs, NEW target \in Addresses,
         \/ lock_transaction(h, target)
         \/ unlock_transaction(h) /\ UNCHANGED <<USB_DEV_AD, USB_CTRL>>
  PROVE  LockOK'
BY Groups DEF lock_transaction, unlock_transaction, LockOK, PortOK

\* and the addresses.
LEMMA AddressType ==
  ASSUME TypeOK, NEW h \in Hubs
  PROVE  AddressOf(h) \in Addresses /\ 3 + h \in Addresses /\ 0 \in Addresses
BY HubFacts, Groups DEF AddressOf, PortOK, Addresses

\* The types hold at the start.
LEMMA InitTypeOK == Init => TypeOK
<1> SUFFICES ASSUME Init PROVE TypeOK
  OBVIOUS
<1> USE EnvironmentAssumption
<1>1. ControlOK
  BY DEF Init, ControlOK, States
<1>2. InfoOK
  BY DEF Init, InfoOK, Boots
<1>3. PortOK
  BY DEF Init, PortOK, Addresses
<1>4. TransferOK
  <2>1. /\ transaction_stage \in 0..2 /\ transaction_size \in 0..(SIZES - 1)
        /\ issuer \in Hubs \cup {NoHub}
    BY DEF Init
  <2>2. tx_request \in [dir : {"IN", "OUT"}, data : BOOLEAN]
    BY Zenon DEF Init
  <2>3. /\ transaction_recv_state \in RecvStates \cup {"IDLE"}
        /\ transaction_pid \in {"SETUP", "IN", "OUT"}
        /\ token \in {"none", "ACK", "NAK", "STALL", "TIMEOUT", "ERROR"}
    BY DEF Init
  <2>4. UH_EP_PID \in BOOLEAN
    BY Zenon DEF Init
  <2> QED BY <2>1, <2>2, <2>3, <2>4 DEF TransferOK
<1>5. LockOK
  <2>1. transaction_lock \in Hubs \cup {NoHub} /\ USB_DEV_AD \in Addresses
    BY DEF Init, Addresses
  <2>2. USB_CTRL \in BOOLEAN
    BY Zenon DEF Init
  <2> QED BY <2>1, <2>2 DEF LockOK
<1>6. TemplatesOK
  BY DEF Init, TemplatesOK, Addresses
<1>7. DeviceOK
  BY DEF Init, DeviceOK, Addresses
<1>8. RetryOK /\ ToggleOK /\ OutcomeOK
  BY DEF Init, RetryOK, ToggleOK, OutcomeOK
<1> QED BY <1>1, <1>2, <1>3, <1>4, <1>5, <1>6, <1>7, <1>8, Groups


\* Every action keeps the types.
LEMMA FsmTypeOK ==
  ASSUME TypeOK, ResetInv, NEW h \in Hubs, fsm(h)
  PROVE  TypeOK'
<1> USE DEF States, RecvStates, SendStates
<1>1. CASE Wait(h)
  BY <1>1, Kept, TurnType, Groups DEF Wait, ControlOK, delayVars
<1>2. CASE DelayEnds(h)
  <2>1. delay_next_state[h] \in States
    BY Groups DEF ControlOK
  <2> QED BY <1>2, <2>1, Kept, GotoTypes, TurnType, Groups DEF DelayEnds
<1>3. CASE Disconnect(h)
  <2>1. ControlOK'
    BY <1>3, GotoTypes, TurnType DEF Disconnect
  <2>2. PortOK'
    BY <1>3, Groups DEF Disconnect, PortOK
  <2>3. TransferOK'
    BY <1>3, Groups DEF Disconnect, TransferOK
  <2>4. LockOK'
    BY <1>3, Groups DEF Disconnect, unlock_transaction, LockOK
  <2> QED BY <1>3, <2>1, <2>2, <2>3, <2>4, Kept, Groups DEF Disconnect
<1>4. CASE state_idle(h)
  BY <1>4, Kept, PauseTypes, Groups DEF state_idle
<1>5. CASE state_connect(h)
  <2>1. ControlOK'
    BY <1>5, GotoTypes, TurnType DEF state_connect, bus_reset
  <2>2. PortOK'
    BY <1>5, Groups DEF state_connect, bus_reset, PortOK, Addresses
  <2>3. DeviceOK'
    BY <1>5, Groups DEF state_connect, bus_reset, DeviceOK, Addresses
  <2>4. LockOK'
    BY <1>5, Kept, LockTypes, AddressType DEF state_connect
  <2> QED BY <1>5, <2>1, <2>2, <2>3, <2>4, Kept, Groups
          DEF state_connect, bus_reset
<1>6. CASE state_reset(h)
  BY <1>6, Kept, PauseTypes, Groups DEF state_reset
<1>7. CASE state_enable(h)
  <2>1. PICK s \in States : pause(h, s)
    BY <1>7 DEF state_enable
  <2>2. PortOK'
    <3>1. device[h].slow \in BOOLEAN
      BY <1>7, Groups, DevicesAssumption
         DEF state_enable, attach, DeviceOK, DeviceType
    <3> QED BY <1>7, <3>1, Groups DEF state_enable, PortOK
  <2> QED BY <1>7, <2>1, <2>2, Kept, PauseTypes, Groups DEF state_enable
<1>8. CASE state_set_address(h)
  <2>1. ControlOK' /\ TransferOK'
    BY <1>8, SetupTypes, TurnType DEF state_set_address
  <2>2. TemplatesOK'
    BY <1>8, AddressType, Groups DEF state_set_address, TemplatesOK
  <2>3. LockOK'
    BY <1>8, LockTypes, AddressType DEF state_set_address
  <2> QED BY <1>8, <2>1, <2>2, <2>3, Kept, Groups DEF state_set_address
<1>9. CASE state_set_address_done(h)
  <2>1. LockOK'
    BY <1>9, LockTypes, Kept, Groups DEF state_set_address_done, TemplatesOK
  <2> QED BY <1>9, <2>1, Kept, PauseTypes, Groups
          DEF state_set_address_done
<1>10. CASE state_get_device_desc(h)
  <2>1. ControlOK' /\ TransferOK'
    BY <1>10, SetupTypes, TurnType DEF state_get_device_desc
  <2>2. LockOK'
    BY <1>10, LockTypes, AddressType, Kept DEF state_get_device_desc
  <2> QED BY <1>10, <2>1, <2>2, Kept, Groups DEF state_get_device_desc
<1>11. CASE InitialCheckDone(h)
  <2>1. ControlOK'
    BY <1>11, GotoTypes, TurnType DEF InitialCheckDone, bus_reset
  <2>2. PortOK'
    BY <1>11, Groups DEF InitialCheckDone, bus_reset, PortOK, Addresses
  <2>3. DeviceOK'
    BY <1>11, Groups DEF InitialCheckDone, bus_reset, DeviceOK, Addresses
  <2>4. LockOK'
    BY <1>11, Kept, LockTypes, AddressType DEF InitialCheckDone
  <2> QED BY <1>11, <2>1, <2>2, <2>3, <2>4, Kept, Groups
          DEF InitialCheckDone, bus_reset
<1>12. CASE state_get_device_desc_recv(h)
  <2>1. pause(h, "GET_STRING_DESC")
    BY <1>12 DEF state_get_device_desc_recv
  <2>2. device[h] \in Devices
    BY <1>12, AttachFact DEF state_get_device_desc_recv
  <2>3. InfoOK'
    BY <1>12, <2>2, BufferFact, Groups
       DEF state_get_device_desc_recv, InfoOK, Boots
  <2>4. TemplatesOK'
    BY <1>12, <2>2, BufferFact, Groups
       DEF state_get_device_desc_recv, TemplatesOK
  <2> QED BY <1>12, <2>1, <2>3, <2>4, Kept, PauseTypes, Groups
          DEF state_get_device_desc_recv
<1>13. CASE state_get_string_desc(h)
  <2>1. CASE string_index > 0
    BY <1>13, <2>1, SendTypes DEF state_get_string_desc
  <2>2. CASE ~(string_index > 0)
    BY <1>13, <2>2, Kept, GotoTypes, TurnType, Groups DEF state_get_string_desc
  <2> QED BY <2>1, <2>2
<1>14. CASE state_get_string_desc_recv(h)
  <2>1. PICK s \in States : pause(h, s)
    BY <1>14 DEF state_get_string_desc_recv
  <2>2. TemplatesOK'
    BY <1>14, Groups DEF state_get_string_desc_recv, TemplatesOK
  <2> QED BY <1>14, <2>1, <2>2, Kept, PauseTypes, Groups
          DEF state_get_string_desc_recv
<1>15. CASE state_get_configuration_desc(h)
  BY <1>15, SendTypes DEF state_get_configuration_desc
<1>16. CASE state_get_configuration_desc_recv(h)
  <2>1. PICK s \in States : pause(h, s)
    BY <1>16 DEF state_get_configuration_desc_recv
  <2>2. device[h] \in Devices
    BY <1>16, AttachFact DEF state_get_configuration_desc_recv
  <2>3. InfoOK'
    BY <1>16, <2>2, BufferFact, Groups
       DEF state_get_configuration_desc_recv, InfoOK, deviceInfo
  <2>4. TemplatesOK'
    BY <1>16, Groups DEF state_get_configuration_desc_recv, TemplatesOK
  <2> QED BY <1>16, <2>1, <2>3, <2>4, Kept, PauseTypes, Groups
          DEF state_get_configuration_desc_recv
<1>17. CASE state_set_configuration(h)
  BY <1>17, SendTypes DEF state_set_configuration
<1>18. CASE state_set_configuration_done(h)
  <2>1. ToggleOK'
    BY <1>18, Groups DEF state_set_configuration_done, ToggleOK
  <2> QED BY <1>18, <2>1, Kept, PauseTypes, Groups
          DEF state_set_configuration_done
<1>19. CASE state_set_feature(h)
  <2>1. PICK s \in {"EXTRA_SETUP", "DONE"} :
         \/ /\ goto(h, s) /\ Return(h, TRUE)
            /\ UNCHANGED <<transferVars, do_not_retry>>
         \/ /\ host_setup_transfer(h, "OUT", FALSE, s) /\ Return(h, FALSE)
            /\ do_not_retry' = [do_not_retry EXCEPT ![h] = TRUE]
    BY <1>19 DEF state_set_feature
  <2>2. ControlOK' /\ TransferOK'
    BY <2>1, SetupTypes, GotoTypes, TurnType, Kept
  <2>3. RetryOK'
    BY <2>1, Kept, Groups DEF RetryOK
  <2> QED BY <1>19, <2>2, <2>3, Kept, Groups DEF state_set_feature
<1>20. CASE state_extra_setup(h)
  <2>1. PICK s \in States : pause(h, s)
    BY <1>20 DEF state_extra_setup
  <2> QED BY <1>20, <2>1, Kept, PauseTypes, Groups DEF state_extra_setup
<1>21. CASE state_get_hid_report_desc(h)
  BY <1>21, SendTypes DEF state_get_hid_report_desc
<1>22. CASE state_hid_set_protocol(h)
  BY <1>22, SendTypes DEF state_hid_set_protocol
<1>23. CASE state_hid_set_protocol_done(h)
  <2>1. PICK s \in States : pause(h, s)
    BY <1>23 DEF state_hid_set_protocol_done
  <2> QED BY <1>23, <2>1, Kept, PauseTypes, Groups
          DEF state_hid_set_protocol_done
<1>24. CASE state_get_hub_desc(h)
  BY <1>24, SendTypes DEF state_get_hub_desc
<1>25. CASE state_get_hub_desc_recv(h)
  <2>1. PICK s \in States : pause(h, s)
    BY <1>25 DEF state_get_hub_desc_recv
  <2>2. device[h] \in Devices
    BY <1>25, AttachFact DEF state_get_hub_desc_recv
  <2>3. InfoOK'
    BY <1>25, <2>2, BufferFact, Groups DEF state_get_hub_desc_recv, InfoOK
  <2>4. TemplatesOK'
    BY <1>25, Groups DEF state_get_hub_desc_recv, TemplatesOK
  <2> QED BY <1>25, <2>1, <2>3, <2>4, Kept, PauseTypes, Groups
          DEF state_get_hub_desc_recv
<1>26. CASE state_set_port_power_feature(h)
  <2>1. CASE port > hub_ports[h]
    <3>1. port' = 1 /\ UNCHANGED <<string_index, full, address>>
      BY <1>26, <2>1, Zenon DEF state_set_port_power_feature
    <3>2. TemplatesOK'
      BY <3>1, Groups DEF TemplatesOK
    <3> QED BY <1>26, <2>1, <3>2, Kept, PauseTypes, Groups
            DEF state_set_port_power_feature
  <2>2. CASE ~(port > hub_ports[h])
    BY <1>26, <2>2, SendTypes DEF state_set_port_power_feature
  <2> QED BY <2>1, <2>2
<1>27. CASE state_set_port_power_feature_done(h)
  <2>1. TemplatesOK'
    BY <1>27, Groups DEF state_set_port_power_feature_done, next_port,
       TemplatesOK
  <2> QED BY <1>27, <2>1, Kept, PauseTypes, Groups
          DEF state_set_port_power_feature_done, next_port
<1>28. CASE state_clear_port_connection_feature_done(h)
  <2>1. TemplatesOK'
    BY <1>28, Groups DEF state_clear_port_connection_feature_done, next_port,
       TemplatesOK
  <2> QED BY <1>28, <2>1, Kept, PauseTypes, Groups
          DEF state_clear_port_connection_feature_done, next_port
<1>29. CASE state_clear_port_connection_feature(h)
  <2>1. CASE port > hub_ports[h]
    BY <1>29, <2>1, Kept, GotoTypes, TurnType, Groups
       DEF state_clear_port_connection_feature
  <2>2. CASE ~(port > hub_ports[h])
    BY <1>29, <2>2, SendTypes DEF state_clear_port_connection_feature
  <2> QED BY <2>1, <2>2
<1>30. CASE EnumerationEnds(h)
  <2>1. LockOK'
    BY <1>30, LockTypes, AddressType DEF EnumerationEnds
  <2> QED BY <1>30, <2>1, Kept, PauseTypes, Groups DEF EnumerationEnds
<1>31. CASE state_out_done(h)
  <2>1. LockOK'
    BY <1>31, LockTypes, AddressType DEF state_out_done
  <2> QED BY <1>31, <2>1, Kept, PauseTypes, Groups DEF state_out_done
<1>32. CASE ReportArrives(h)
  <2>1. LockOK'
    BY <1>32, LockTypes, AddressType DEF ReportArrives
  <2>2. RetryOK'
    BY <1>32, Groups DEF ReportArrives, RetryOK
  <2>3. ControlOK'
    BY <1>32, GotoTypes, TurnType DEF ReportArrives
  <2> QED BY <1>32, <2>1, <2>2, <2>3, Kept, Groups DEF ReportArrives
<1>33. CASE TransferStalls(h)
  <2>1. PICK s \in States : goto(h, s) \/ delay(h, s)
    BY <1>33, Groups DEF TransferStalls, finish, TransferOK, States
  <2>2. ControlOK'
    BY <1>33, <2>1, GotoTypes, TurnType DEF TransferStalls, finish
  <2>3. TransferOK'
    BY <1>33, Groups DEF TransferStalls, Ended, TransferOK
  <2>4. LockOK'
    BY <1>33, Groups DEF TransferStalls, Ended, unlock_transaction, LockOK
  <2>5. RetryOK' /\ ToggleOK' /\ OutcomeOK'
    BY <1>33, Groups DEF TransferStalls, finish, RetryOK, ToggleOK, OutcomeOK
  <2> QED BY <1>33, <2>2, <2>3, <2>4, <2>5, Kept, Groups
          DEF TransferStalls, Ended
<1>34. CASE TransferSucceeds(h)
  <2>0. PICK received \in {0, 1} : GoesOnAfter(h, received)
    BY <1>34 DEF TransferSucceeds, RxLengths
  <2>1. Left(received) \in 0..(SIZES - 1)
    <3>1. /\ transaction_size \in Nat /\ transaction_size < SIZES
          /\ SIZES \in Nat \ {0}
      BY EnvironmentAssumption, Groups DEF TransferOK
    <3>2. (transaction_size + SIZES - received) % SIZES \in 0..(SIZES - 1)
      BY <3>1
    <3> QED BY <3>1, <3>2 DEF Left
  <2>2. PICK s \in States : goto(h, s) \/ delay(h, s)
    <3>1. \/ delay(h, "TRANSACTION_CONT") \/ delay(h, "TRANSACTION_IN")
          \/ delay(h, "TRANSACTION_OUT") \/ goto(h, transaction_recv_state)
      BY <2>0, Zenon DEF GoesOnAfter, finish
    <3>2. transaction_recv_state \in States
      BY Groups DEF TransferOK
    <3> QED BY <3>1, <3>2 DEF StageStates
  <2>3. turn' \in Hubs \cup {App}
    BY <2>0, TurnType DEF GoesOnAfter, finish
  <2>4. ControlOK'
    BY <2>2, <2>3, GotoTypes
  <2>5. TransferOK'
    <3>1. transaction_size' = Left(received) /\ transaction_stage' \in 0..2
      <4>1. \/ UNCHANGED transaction_stage
            \/ transaction_stage' = 1
        BY <2>0, Zenon DEF GoesOnAfter
      <4> QED BY <2>0, <4>1, Groups DEF GoesOnAfter, TransferOK
    <3> QED BY <1>34, <2>1, <3>1, Groups
            DEF TransferSucceeds, Ended, TransferOK
  <2>6. LockOK'
    BY <1>34, Groups DEF TransferSucceeds, Ended, LockOK
  <2>7. RetryOK' /\ ToggleOK' /\ OutcomeOK'
    BY <2>0, Groups DEF GoesOnAfter, finish, RetryOK, ToggleOK, OutcomeOK
  <2> QED BY <1>34, <2>4, <2>5, <2>6, <2>7, Kept, Groups
          DEF TransferSucceeds, Ended
<1>35. CASE TransferNaks(h)
  <2>1. PICK s \in States : goto(h, s) \/ delay(h, s)
    <3>1. transaction_recv_state \in States
      BY Groups DEF TransferOK
    <3>2. \/ delay(h, "TRANSACTION_RETRY")
          \/ goto(h, transaction_recv_state)
      BY <1>35, Zenon DEF TransferNaks, finish
    <3> QED BY <3>1, <3>2 DEF StageStates
  <2>2. ControlOK'
    BY <1>35, <2>1, GotoTypes, TurnType DEF TransferNaks, finish
  <2>3. TransferOK'
    BY <1>35, Groups DEF TransferNaks, Ended, TransferOK
  <2>4. LockOK'
    BY <1>35, Groups DEF TransferNaks, Ended, LockOK
  <2>5. RetryOK' /\ ToggleOK' /\ OutcomeOK'
    BY <1>35, Groups DEF TransferNaks, finish, RetryOK, ToggleOK, OutcomeOK
  <2> QED BY <1>35, <2>2, <2>3, <2>4, <2>5, Kept, Groups
          DEF TransferNaks, Ended
<1>36. CASE TransferFails(h)
  <2>1. PICK s \in States : goto(h, s) \/ delay(h, s)
    BY <1>36, Groups DEF TransferFails, finish, TransferOK, States
  <2>2. ControlOK'
    BY <1>36, <2>1, GotoTypes, TurnType DEF TransferFails, finish
  <2>3. TransferOK'
    BY <1>36, Groups DEF TransferFails, Ended, TransferOK
  <2>4. LockOK'
    BY <1>36, Groups DEF TransferFails, Ended, unlock_transaction, LockOK
  <2>5. RetryOK' /\ ToggleOK' /\ OutcomeOK'
    BY <1>36, Groups DEF TransferFails, finish, RetryOK, ToggleOK, OutcomeOK
  <2> QED BY <1>36, <2>2, <2>3, <2>4, <2>5, Kept, Groups
          DEF TransferFails, Ended
<1>37. CASE NextStage(h)
  <2>1. PICK pid \in {"IN", "OUT"}, n \in 1..MaxPackets :
         host_transact(h, IF transaction_stage = 1 THEN 0 ELSE n,
                       transaction_recv_state, pid, transaction_stage)
    BY <1>37, Zenon DEF NextStage
  <2>2. (IF transaction_stage = 1 THEN 0 ELSE n) \in 0..(SIZES - 1)
    BY EnvironmentAssumption
  <2>3. /\ turn' \in Hubs \cup {App}
        /\ tx_request' \in [dir : {"IN", "OUT"}, data : BOOLEAN]
    BY <1>37, TurnType, Groups DEF NextStage, TransferOK
  <2>4. /\ transaction_recv_state \in RecvStates \cup {"IDLE"}
        /\ transaction_stage \in 0..2 /\ pid \in {"SETUP", "IN", "OUT"}
    BY Groups DEF TransferOK
  <2>5. ControlOK' /\ TransferOK'
    BY ONLY TypeOK, <2>1, <2>2, <2>3, <2>4, TransactTypes
  <2> QED BY <1>37, <2>5, Kept, Groups DEF NextStage
<1>38. CASE state_transaction_cont(h)
  <2>1. host_transact(h, transaction_size, transaction_recv_state,
                      transaction_pid, transaction_stage)
    BY <1>38 DEF state_transaction_cont
  <2>2. /\ turn' \in Hubs \cup {App}
        /\ tx_request' \in [dir : {"IN", "OUT"}, data : BOOLEAN]
    BY <1>38, TurnType, Groups DEF state_transaction_cont, TransferOK
  <2>3. /\ transaction_recv_state \in RecvStates \cup {"IDLE"}
        /\ transaction_stage \in 0..2 /\ transaction_size \in 0..(SIZES - 1)
        /\ transaction_pid \in {"SETUP", "IN", "OUT"}
    BY Groups DEF TransferOK
  <2>4. ControlOK' /\ TransferOK'
    BY ONLY TypeOK, <2>1, <2>2, <2>3, TransactTypes
  <2> QED BY <1>38, <2>4, Kept, Groups DEF state_transaction_cont
<1>39. CASE state_transaction_retry(h)
  <2>1. ControlOK'
    BY <1>39, GotoTypes, TurnType DEF state_transaction_retry, States
  <2>2. TransferOK'
    BY <1>39, Groups DEF state_transaction_retry, TransferOK
  <2> QED BY <1>39, <2>1, <2>2, Kept, Groups DEF state_transaction_retry
<1> QED
  BY <1>1, <1>2, <1>3, <1>4, <1>5, <1>6, <1>7, <1>8, <1>9, <1>10, <1>11,
     <1>12, <1>13, <1>14, <1>15, <1>16, <1>17, <1>18, <1>19, <1>20,
     <1>21, <1>22, <1>23, <1>24, <1>25, <1>26, <1>27, <1>28, <1>29,
     <1>30, <1>31, <1>32, <1>33, <1>34, <1>35, <1>36, <1>37, <1>38,
     <1>39 DEF fsm

\* The functions the application calls keep the types,
LEMMA ApplicationTypeOK ==
  ASSUME TypeOK, NEW h \in Hubs, Application(h)
  PROVE  TypeOK'
<1> USE DEF RecvStates
<1>1. ASSUME callFrame, ControlOK', TransferOK', NEW target \in Addresses,
             lock_transaction(h, target),
             \/ UNCHANGED do_not_retry
             \/ \E b \in BOOLEAN :
                  do_not_retry' = [do_not_retry EXCEPT ![h] = b]
      PROVE  TypeOK'
  <2>1. RetryOK'
    BY <1>1, Groups DEF RetryOK
  <2> QED BY <1>1, <2>1, Kept, LockTypes, Groups DEF callFrame
<1>2. callFrame => turn' \in Hubs \cup {App}
  BY Groups DEF callFrame, ControlOK
<1>3. ASSUME NEW dir \in {"IN", "OUT"}, NEW data \in BOOLEAN,
             usb_host_setup(h, dir, data)
      PROVE  TypeOK'
  <2>1. ControlOK' /\ TransferOK'
    BY <1>2, <1>3, SetupTypes DEF usb_host_setup
  <2> QED BY <1>1, <1>3, <2>1, AddressType DEF usb_host_setup
<1>4. ASSUME NEW name, NEW stage \in {0, 2}, usb_host_in(h, name, stage)
      PROVE  TypeOK'
  <2>1. PICK n \in 1..MaxPackets : host_transact(h, n, "IN_RECV", "IN", stage)
    BY <1>4 DEF usb_host_in
  <2>2. n \in 0..(SIZES - 1)
    BY EnvironmentAssumption
  <2>3. ControlOK' /\ TransferOK'
    BY <1>2, <1>4, <2>1, <2>2, TransactTypes, Groups
       DEF usb_host_in, TransferOK
  <2> QED BY <1>1, <1>4, <2>3, AddressType DEF usb_host_in
<1>5. CASE usb_host_out(h)
  <2>1. 1 \in 0..(SIZES - 1)
    BY EnvironmentAssumption
  <2>2. ControlOK' /\ TransferOK'
    BY <1>2, <1>5, <2>1, TransactTypes, Groups DEF usb_host_out, TransferOK
  <2> QED BY <1>1, <1>5, <2>2, AddressType DEF usb_host_out
<1>6. CASE usb_host_hid_get_report(h)
  <2>1. ControlOK' /\ TransferOK'
    BY <1>2, <1>6, SetupTypes DEF usb_host_hid_get_report
  <2> QED BY <1>1, <1>6, <2>1, AddressType DEF usb_host_hid_get_report
<1>7. CASE usb_host_hub_switch(h)
  <2>1. ControlOK'
    BY <1>7, GotoTypes, Groups
       DEF usb_host_hub_switch, ControlOK, States, SendStates
  <2>2. PortOK'
    BY <1>7, AddressType, Groups DEF usb_host_hub_switch, PortOK
  <2>3. DeviceOK'
    BY <1>7, Groups DEF usb_host_hub_switch, DeviceOK, Behind, Addresses
  <2> QED BY <1>7, <2>1, <2>2, <2>3, Kept, Groups DEF usb_host_hub_switch
<1> QED
  BY <1>3, <1>4, <1>5, <1>6, <1>7 DEF Application

\* so do the controller and the devices,
LEMMA EnvironmentTypeOK ==
  ASSUME TypeOK,
         \/ \E t \in Answers \cup {"TIMEOUT"} : TransferCompletes(t)
         \/ \E h \in Hubs : Plug(h) \/ Unplug(h)
  PROVE  TypeOK'
<1>1. ASSUME NEW t \in Answers \cup {"TIMEOUT"}, TransferCompletes(t)
      PROVE  TypeOK'
  <2>1. DeviceOK'
    <3>1. device_address' \in [Hubs -> Addresses]
      BY <1>1, Groups DEF TransferCompletes, DeviceOK, TemplatesOK
    <3>2. device_toggle' \in [Hubs -> BOOLEAN]
      BY <1>1, Groups DEF TransferCompletes, DeviceOK
    <3> QED BY <1>1, <3>1, <3>2, Groups DEF TransferCompletes, DeviceOK
  <2>2. TransferOK'
    BY <1>1, EnvironmentAssumption, Groups DEF TransferCompletes, TransferOK
  <2> QED BY <1>1, <2>1, <2>2, Kept, Groups DEF TransferCompletes
<1>2. ASSUME NEW h \in Hubs, Plug(h) PROVE TypeOK'
  <2>1. DeviceOK'
    BY <1>2, Groups DEF Plug, DeviceOK, Addresses
  <2> QED BY <1>2, <2>1, Kept, Groups DEF Plug
<1>3. ASSUME NEW h \in Hubs, Unplug(h) PROVE TypeOK'
  <2>1. DeviceOK'
    BY <1>3, EnvironmentAssumption, Groups DEF Unplug, DeviceOK, Addresses
  <2> QED BY <1>3, <2>1, Kept, Groups DEF Unplug
<1> QED BY <1>1, <1>2, <1>3

\* and every step.
LEMMA NextTypeOK ==
  ASSUME TypeOK, ResetInv, [Next]_vars
  PROVE  TypeOK'
<1>1. CASE UNCHANGED vars
  BY <1>1, Kept, Groups DEF vars
<1>2. CASE usb_host_poll
  <2>1. ControlOK'
    BY <1>2, HubFacts, Groups DEF usb_host_poll, ControlOK, delayVars
  <2> QED BY <1>2, <2>1, Kept, Groups DEF usb_host_poll
<1> QED
  BY <1>1, <1>2, FsmTypeOK, ApplicationTypeOK, EnvironmentTypeOK DEF Next

-----------------------------------------------------------------------------
(* Control.  The steps of a port are of a few kinds, which the invariants    *)
(* below need to tell apart; the lemma FsmKinds sorts the actions into them. *)

ctl == <<initial_check, resetting, transaction_lock, transaction_recv_state,
         issuer, token>>

TransferStates == {"TRANSACTION"} \cup StageStates
\* The states of an enumeration in which the port owns the lock throughout.
Enumerating ==
  {"GET_STRING_DESC", "GET_STRING_DESC_RECV", "GET_CONFIGURATION_DESC",
   "GET_CONFIGURATION_DESC_RECV", "SET_CONFIGURATION",
   "SET_CONFIGURATION_DONE", "SET_FEATURE", "EXTRA_SETUP",
   "GET_HID_REPORT_DESC", "HID_SET_PROTOCOL", "HID_SET_PROTOCOL_DONE",
   "GET_HUB_DESC", "GET_HUB_DESC_RECV", "SET_PORT_POWER_FEATURE",
   "SET_PORT_POWER_FEATURE_DONE", "CLEAR_PORT_CONNECTION_FEATURE",
   "CLEAR_PORT_CONNECTION_FEATURE_DONE"}

moves(h, s) == goto(h, s) \/ delay(h, s)
transacts(h, recv) ==
  \E n, pid, stage : host_transact(h, n, recv, pid, stage)

Stays(h) == state[h] # "SET_ADDRESS_DONE" /\ UNCHANGED <<delayVars, ctl>>
Wakes(h) ==
  state[h] = "DELAY" /\ goto(h, delay_next_state[h]) /\ UNCHANGED ctl
Detaches(h) ==
  /\ ~resetting[h] /\ goto(h, "IDLE") /\ unlock_transaction(h)
  /\ UNCHANGED <<initial_check, resetting, transaction_recv_state, issuer,
                 token>>
Prepares(h) ==
  /\ \/ state[h] = "IDLE" /\ delay(h, "CONNECT")
     \/ state[h] = "RESET" /\ delay(h, "ENABLE")
  /\ UNCHANGED ctl
Resets(h) ==
  /\ \/ state[h] = "CONNECT" /\ UNCHANGED transaction_lock
     \/ /\ state[h] = "GET_DEVICE_DESC_RECV" /\ initial_check[h]
        /\ unlock_transaction(h)
  /\ delay(h, "RESET")
  /\ resetting' = [resetting EXCEPT ![h] = TRUE]
  /\ \E check \in BOOLEAN :
       initial_check' = [initial_check EXCEPT ![h] = check]
  /\ UNCHANGED <<transaction_recv_state, issuer, token>>
Enables(h) ==
  /\ state[h] = "ENABLE"
  /\ delay(h, IF initial_check[h] THEN "GET_DEVICE_DESC" ELSE "SET_ADDRESS")
  /\ resetting' = [resetting EXCEPT ![h] = FALSE]
  /\ UNCHANGED <<initial_check, transaction_lock, transaction_recv_state,
                 issuer, token>>
Locks(h) ==
  /\ \/ state[h] = "SET_ADDRESS" /\ transacts(h, "SET_ADDRESS_DONE")
     \/ /\ state[h] = "GET_DEVICE_DESC" /\ initial_check[h]
        /\ transacts(h, "GET_DEVICE_DESC_RECV")
     \/ /\ state[h] = "READY"
        /\ \E recv \in RecvStates : transacts(h, recv)
  /\ transaction_lock = NoHub /\ transaction_lock' = h
  /\ UNCHANGED <<initial_check, resetting>>
Relocks(h) ==
  /\ state[h] = "SET_ADDRESS_DONE" /\ delay(h, "GET_DEVICE_DESC")
  /\ transaction_lock' =
       IF transaction_lock \in {h, NoHub} THEN h ELSE transaction_lock
  /\ UNCHANGED <<initial_check, resetting, transaction_recv_state, issuer,
                 token>>
Goes(h) ==
  /\ \/ state[h] \in Enumerating
     \/ state[h] = "GET_DEVICE_DESC_RECV" /\ ~initial_check[h]
  /\ \E s \in Enumerating \cup {"DONE"} : moves(h, s)
  /\ UNCHANGED ctl
Sends(h) ==
  /\ \/ state[h] \in Enumerating
     \/ state[h] = "GET_DEVICE_DESC" /\ ~initial_check[h]
  /\ \E recv \in RecvStates : transacts(h, recv)
  /\ UNCHANGED <<initial_check, resetting, transaction_lock>>
Frees(h) ==
  /\ state[h] \in ReleaseStates \ {"SET_ADDRESS_DONE"}
  /\ delay(h, "READY") /\ unlock_transaction(h)
  /\ UNCHANGED <<initial_check, resetting, transaction_recv_state, issuer,
                 token>>
Ends(h) ==
  /\ state[h] = "TRANSACTION" /\ goto(h, transaction_recv_state)
  /\ turn' = h /\ UNCHANGED ctl
Stalls(h) ==
  /\ state[h] = "TRANSACTION" /\ token = "STALL"
  /\ goto(h, transaction_recv_state) /\ unlock_transaction(h)
  /\ turn' = h
  /\ UNCHANGED <<initial_check, resetting, transaction_recv_state, issuer,
                 token>>
Halts(h) == state[h] = "TRANSACTION" /\ goto(h, "HALT") /\ UNCHANGED ctl
Continues(h) ==
  /\ state[h] = "TRANSACTION"
  /\ \E s \in StageStates : delay(h, s)
  /\ UNCHANGED ctl
Repeats(h) ==
  /\ state[h] \in StageStates /\ goto(h, "TRANSACTION")
  /\ issuer' = h /\ token' = "none"
  /\ UNCHANGED <<initial_check, resetting, transaction_lock,
                 transaction_recv_state>>
Switches(h) == state[h] = "READY" /\ goto(h, "SET_ADDRESS") /\ UNCHANGED ctl

PortKinds(h) ==
  \/ Stays(h) \/ Wakes(h) \/ Detaches(h) \/ Prepares(h) \/ Resets(h)
  \/ Enables(h) \/ Locks(h) \/ Relocks(h) \/ Goes(h) \/ Sends(h) \/ Frees(h)
  \/ Ends(h) \/ Stalls(h) \/ Halts(h) \/ Continues(h) \/ Repeats(h)
\* A step of the environment, or the call of usb_host_poll.
Idles ==
  /\ UNCHANGED <<delayVars, initial_check, resetting, transaction_lock,
                 transaction_recv_state, issuer>>
  /\ turn = App \/ UNCHANGED turn
  /\ token' = "STALL" =>
       token = "STALL" \/ transaction_recv_state \in StallAt

\* The kinds of the operators fsm is made of.
LEMMA SetupTransacts ==
  ASSUME NEW h, NEW dir, NEW data, NEW recv,
         host_setup_transfer(h, dir, data, recv)
  PROVE  transacts(h, recv)
BY DEF host_setup_transfer, transacts

\* A request of the enumeration sends,
LEMMA SendSends ==
  ASSUME NEW h, NEW dir, NEW data, NEW recv \in RecvStates,
         state[h] \in Enumerating, send(h, dir, data, recv)
  PROVE  Sends(h)
BY SetupTransacts DEF send, Sends, portVars, lockVars

\* and a pause in it goes on.
LEMMA PauseGoes ==
  ASSUME NEW h, NEW s \in Enumerating \cup {"DONE"}, pause(h, s),
         state[h] \in Enumerating, UNCHANGED <<portVars, lockVars>>
  PROVE  Goes(h)
BY DEF pause, moves, Goes, ctl, transferVars, portVars, lockVars

\* Every step of fsm is of one of the kinds,
LEMMA FsmKinds ==
  ASSUME NEW h \in Hubs, fsm(h)
  PROVE  turn = h /\ PortKinds(h)
<1> USE DEF In
<1>1. Wait(h) => turn = h /\ Stays(h)
  BY DEF Wait, Stays, ctl, portVars, transferVars, lockVars
<1>2. DelayEnds(h) => turn = h /\ Wakes(h)
  BY DEF DelayEnds, Wakes, ctl, portVars, transferVars, lockVars
<1>3. Disconnect(h) => turn = h /\ Detaches(h)
  BY DEF Disconnect, Detaches, Detached
<1>4. state_idle(h) => turn = h /\ Prepares(h)
  BY DEF state_idle, Prepares, pause, ctl, portVars, transferVars,
     lockVars
<1>5. state_connect(h) => turn = h /\ Resets(h)
  BY DEF state_connect, Resets, bus_reset, ctl, portVars, transferVars,
     lockVars
<1>6. state_reset(h) => turn = h /\ Prepares(h)
  BY DEF state_reset, Prepares, pause, ctl, portVars, transferVars,
     lockVars
<1>7. state_enable(h) => turn = h /\ Enables(h)
  BY DEF state_enable, Enables, pause, ctl, portVars, transferVars,
     lockVars
<1>8. state_set_address(h) => turn = h /\ Locks(h)
  BY SetupTransacts DEF state_set_address, Locks, lock_transaction,
     is_transaction_locked, ctl, portVars, transferVars, lockVars
<1>9. state_set_address_done(h) => turn = h /\ Relocks(h)
  BY DEF state_set_address_done, Relocks, pause, lock_transaction, ctl,
     portVars, transferVars, lockVars
<1>10. state_get_device_desc(h) => turn = h /\ (Locks(h) \/ Sends(h))
  BY SetupTransacts DEF state_get_device_desc, Locks, Sends,
     lock_transaction, is_transaction_locked, RecvStates, ctl, portVars,
     transferVars, lockVars
<1>11. InitialCheckDone(h) => turn = h /\ Resets(h)
  BY DEF InitialCheckDone, Resets, bus_reset, ctl, portVars, transferVars,
     lockVars
<1>12. state_get_device_desc_recv(h) => turn = h /\ Goes(h)
  BY DEF state_get_device_desc_recv, Goes, pause, moves, Enumerating, ctl,
     portVars, transferVars, lockVars
<1>13. state_get_string_desc(h) => turn = h /\ (Goes(h) \/ Sends(h))
  BY SendSends DEF state_get_string_desc, Goes, Sends, moves, RecvStates,
     Enumerating, ctl, portVars, transferVars, lockVars
<1>14. state_get_string_desc_recv(h) => turn = h /\ Goes(h)
  BY PauseGoes DEF state_get_string_desc_recv, Goes, Enumerating
<1>15. state_get_configuration_desc(h) => turn = h /\ Sends(h)
  BY SendSends DEF state_get_configuration_desc, Sends, RecvStates,
     Enumerating
<1>16. state_get_configuration_desc_recv(h) => turn = h /\ Goes(h)
  BY PauseGoes DEF state_get_configuration_desc_recv, Goes, Enumerating
<1>17. state_set_configuration(h) => turn = h /\ Sends(h)
  BY SendSends DEF state_set_configuration, Sends, RecvStates, Enumerating
<1>18. state_set_configuration_done(h) => turn = h /\ Goes(h)
  BY PauseGoes DEF state_set_configuration_done, Goes, Enumerating
<1>19. state_set_feature(h) => turn = h /\ (Goes(h) \/ Sends(h))
  BY SetupTransacts DEF state_set_feature, Goes, Sends, moves, RecvStates,
     Enumerating, ctl, portVars, transferVars, lockVars
<1>20. state_extra_setup(h) => turn = h /\ Goes(h)
  BY PauseGoes DEF state_extra_setup, Goes, Enumerating
<1>21. state_get_hid_report_desc(h) => turn = h /\ Sends(h)
  BY SendSends DEF state_get_hid_report_desc, Sends, RecvStates,
     Enumerating
<1>22. state_hid_set_protocol(h) => turn = h /\ Sends(h)
  BY SendSends DEF state_hid_set_protocol, Sends, RecvStates, Enumerating
<1>23. state_hid_set_protocol_done(h) => turn = h /\ Goes(h)
  BY PauseGoes DEF state_hid_set_protocol_done, Goes, Enumerating
<1>24. state_get_hub_desc(h) => turn = h /\ Sends(h)
  BY SendSends DEF state_get_hub_desc, Sends, RecvStates, Enumerating
<1>25. state_get_hub_desc_recv(h) => turn = h /\ Goes(h)
  BY PauseGoes DEF state_get_hub_desc_recv, Goes, Enumerating
<1>26. state_set_port_power_feature(h) => turn = h /\ (Goes(h) \/ Sends(h))
  BY PauseGoes, SendSends DEF state_set_port_power_feature, Goes, Sends,
     RecvStates, Enumerating
<1>27. state_set_port_power_feature_done(h) => turn = h /\ Goes(h)
  BY PauseGoes DEF state_set_port_power_feature_done, Goes, next_port,
     Enumerating
<1>28. state_clear_port_connection_feature(h) =>
        turn = h /\ (Goes(h) \/ Sends(h))
  BY SendSends DEF state_clear_port_connection_feature, Goes, Sends,
     moves, RecvStates, Enumerating, ctl, portVars, transferVars, lockVars
<1>29. state_clear_port_connection_feature_done(h) => turn = h /\ Goes(h)
  BY PauseGoes DEF state_clear_port_connection_feature_done, Goes,
     next_port, Enumerating
<1>30. EnumerationEnds(h) => turn = h /\ Frees(h)
  BY DEF EnumerationEnds, Frees, pause, ReleaseStates, ctl, portVars,
     transferVars, lockVars
<1>31. ReportArrives(h) => turn = h /\ Frees(h)
  BY DEF ReportArrives, Frees, ReleaseStates, ctl, portVars, transferVars,
     lockVars
<1>32. state_out_done(h) => turn = h /\ Frees(h)
  BY DEF state_out_done, Frees, pause, ReleaseStates, ctl, portVars,
     transferVars, lockVars
<1>33. TransferStalls(h) => turn = h /\ Stalls(h)
  BY DEF TransferStalls, Stalls, Ended, finish, Return, ctl, portVars,
     transferVars, lockVars
<1>34. TransferSucceeds(h) => turn = h /\ (Ends(h) \/ Continues(h))
  BY DEF TransferSucceeds, GoesOnAfter, Ends, Continues, Ended, finish, Return,
     StageStates, ctl, portVars, transferVars, lockVars
<1>35. TransferNaks(h) => turn = h /\ (Ends(h) \/ Continues(h))
  BY DEF TransferNaks, Ends, Continues, Ended, finish, Return,
     StageStates, ctl, portVars, transferVars, lockVars
<1>36. TransferFails(h) => turn = h /\ Halts(h)
  BY DEF TransferFails, Halts, Ended, ctl, portVars, transferVars,
     lockVars
<1>37. NextStage(h) => turn = h /\ Repeats(h)
  BY DEF NextStage, Repeats, host_transact, StageStates, ctl, portVars,
     transferVars, lockVars
<1>38. state_transaction_cont(h) => turn = h /\ Repeats(h)
  BY DEF state_transaction_cont, Repeats, host_transact, StageStates, ctl,
     portVars, transferVars, lockVars
<1>39. state_transaction_retry(h) => turn = h /\ Repeats(h)
  BY DEF state_transaction_retry, Repeats, StageStates, ctl, portVars,
     transferVars, lockVars
<1> QED
  BY <1>1, <1>2, <1>3, <1>4, <1>5, <1>6, <1>7, <1>8, <1>9, <1>10, <1>11,
     <1>12, <1>13, <1>14, <1>15, <1>16, <1>17, <1>18, <1>19, <1>20,
     <1>21, <1>22, <1>23, <1>24, <1>25, <1>26, <1>27, <1>28, <1>29,
     <1>30, <1>31, <1>32, <1>33, <1>34, <1>35, <1>36, <1>37, <1>38,
     <1>39 DEF fsm, PortKinds

\* every call of the application,
LEMMA ApplicationKinds ==
  ASSUME NEW h \in Hubs, Application(h)
  PROVE  turn = App /\ (Locks(h) \/ Switches(h))
<1> USE DEF Call, usb_host_ready, is_transaction_locked, lock_transaction,
            callFrame, portVars, Locks
<1>1. ASSUME NEW dir, NEW data, usb_host_setup(h, dir, data)
      PROVE  turn = App /\ Locks(h)
  <2>1. PICK recv \in {"IN_RECV", "DONE"} : transacts(h, recv)
    BY <1>1, SetupTransacts DEF usb_host_setup
  <2>2. recv \in RecvStates
    BY DEF RecvStates
  <2> QED BY <1>1, <2>1, <2>2 DEF usb_host_setup
<1>2. ASSUME NEW name, NEW stage, usb_host_in(h, name, stage)
      PROVE  turn = App /\ Locks(h)
  <2>1. transacts(h, "IN_RECV")
    BY <1>2 DEF usb_host_in, transacts
  <2>2. "IN_RECV" \in RecvStates
    BY DEF RecvStates
  <2> QED BY <1>2, <2>1, <2>2 DEF usb_host_in
<1>3. CASE usb_host_out(h)
  <2>1. transacts(h, "OUT_DONE")
    BY <1>3 DEF usb_host_out, transacts
  <2>2. "OUT_DONE" \in RecvStates
    BY DEF RecvStates
  <2> QED BY <1>3, <2>1, <2>2 DEF usb_host_out
<1>4. CASE usb_host_hid_get_report(h)
  <2>1. transacts(h, "HID_GET_REPORT")
    BY <1>4, SetupTransacts DEF usb_host_hid_get_report
  <2>2. "HID_GET_REPORT" \in RecvStates
    BY DEF RecvStates
  <2> QED BY <1>4, <2>1, <2>2 DEF usb_host_hid_get_report
<1>5. CASE usb_host_hub_switch(h)
  BY <1>5 DEF usb_host_hub_switch, Switches, ctl, transferVars, lockVars
<1> QED BY <1>1, <1>2, <1>3, <1>4, <1>5 DEF Application

\* and every step at all.
LEMMA NextKinds ==
  ASSUME [Next]_vars
  PROVE  \/ Idles
         \/ \E h \in Hubs : turn = h /\ PortKinds(h)
         \/ \E h \in Hubs : turn = App /\ (Locks(h) \/ Switches(h))
<1> USE DEF Idles
<1>1. CASE UNCHANGED vars
  BY <1>1 DEF vars, transferVars, lockVars, portVars
<1>2. CASE usb_host_poll
  BY <1>2 DEF usb_host_poll, transferVars, lockVars, portVars
<1>3. ASSUME NEW t, TransferCompletes(t) PROVE Idles
  BY <1>3 DEF TransferCompletes, MayAnswer, lockVars, portVars
<1>4. ASSUME NEW h \in Hubs, Plug(h) \/ Unplug(h) PROVE Idles
  BY <1>4 DEF Plug, Unplug, transferVars, lockVars, portVars
<1> QED
  BY <1>1, <1>2, <1>3, <1>4, FsmKinds, ApplicationKinds DEF Next

\* The other ports keep their state.
Apart(h) ==
  \A k \in Hubs \ {h} :
    /\ state'[k] = state[k] /\ delay_next_state'[k] = delay_next_state[k]
    /\ initial_check'[k] = initial_check[k] /\ resetting'[k] = resetting[k]
    /\ At(k)' = At(k)

\* Where a port that moves to s is then, and that no other moves.
LEMMA MovesTo ==
  ASSUME TypeOK, NEW h \in Hubs, NEW s, s # "DELAY", moves(h, s)
  PROVE  /\ At(h)' = s /\ state'[h] \in {s, "DELAY"}
         /\ goto(h, s) => state'[h] = s
         /\ delay(h, s) => state'[h] = "DELAY"
         /\ delay_next_state'[h] \in {"IDLE", s}
         /\ \A k \in Hubs \ {h} :
              /\ state'[k] = state[k] /\ At(k)' = At(k)
              /\ delay_next_state'[k] = delay_next_state[k]
BY Groups DEF moves, goto, delay, At, ControlOK

\* What starting a transfer sets.
LEMMA Transacts ==
  ASSUME NEW h \in Hubs, NEW recv, transacts(h, recv)
  PROVE  /\ goto(h, "TRANSACTION") /\ transaction_recv_state' = recv
         /\ issuer' = h /\ token' = "none"
BY DEF transacts, host_transact

\* Where a step leads: the port moves to a state, or stays where it is.
LEMMA KindMoves ==
  ASSUME TypeOK, ResetInv, NEW h \in Hubs, PortKinds(h) \/ Switches(h)
  PROVE  \/ UNCHANGED <<delayVars, initial_check, resetting>>
         \/ /\ \E s \in States \ {"DELAY"} : moves(h, s)
            /\ \E b, c \in BOOLEAN :
                 /\ initial_check' = [initial_check EXCEPT ![h] = b]
                 /\ resetting' = [resetting EXCEPT ![h] = c]
<1> USE DEF moves, ctl
<1>1. /\ delay_next_state[h] \in States \ {"DELAY"}
      /\ transaction_recv_state \in (States \cup {"IDLE"}) \ {"DELAY"}
      /\ {"IDLE", "CONNECT", "ENABLE", "RESET", "GET_DEVICE_DESC",
          "SET_ADDRESS", "TRANSACTION", "READY", "HALT", "DONE"}
           \subseteq States \ {"DELAY"}
      /\ Enumerating \cup StageStates \subseteq States \ {"DELAY"}
  <2>1. delay_next_state[h] \in States /\ delay_next_state[h] # "DELAY"
    BY Groups DEF ResetInv, ResetPort, ControlOK
  <2>2. /\ RecvStates \subseteq States \ {"DELAY"}
        /\ "IDLE" \in States \ {"DELAY"}
    BY DEF States, RecvStates
  <2>3. Enumerating \cup StageStates \subseteq States \ {"DELAY"}
    BY DEF States, RecvStates, SendStates, StageStates, Enumerating
  <2>4. {"IDLE", "CONNECT", "ENABLE", "RESET", "GET_DEVICE_DESC",
         "SET_ADDRESS", "TRANSACTION", "READY", "HALT", "DONE"}
          \subseteq States \ {"DELAY"}
    BY DEF States, RecvStates, SendStates
  <2> QED BY <2>1, <2>2, <2>3, <2>4, Groups DEF TransferOK
<1>2. /\ initial_check = [initial_check EXCEPT ![h] = initial_check[h]]
      /\ resetting = [resetting EXCEPT ![h] = resetting[h]]
      /\ initial_check[h] \in BOOLEAN /\ resetting[h] \in BOOLEAN
  BY Groups DEF PortOK
<1>3. UNCHANGED <<initial_check, resetting>> =>
        \E b, c \in BOOLEAN :
          /\ initial_check' = [initial_check EXCEPT ![h] = b]
          /\ resetting' = [resetting EXCEPT ![h] = c]
  BY <1>2
<1>4. Stays(h) => UNCHANGED <<delayVars, initial_check, resetting>>
  BY DEF Stays
<1>5. Wakes(h) \/ Detaches(h) \/ Prepares(h) \/ Locks(h) \/ Relocks(h)
        \/ Goes(h) \/ Sends(h) \/ Frees(h) \/ Ends(h) \/ Stalls(h) \/ Halts(h)
        \/ Continues(h) \/ Repeats(h) \/ Switches(h) =>
        UNCHANGED <<initial_check, resetting>>
  BY DEF Wakes, Detaches, Prepares, Locks, Relocks, Goes, Sends, Frees, Ends,
         Stalls, Halts, Continues, Repeats, Switches
<1>6. Wakes(h) \/ Detaches(h) \/ Prepares(h) \/ Relocks(h) \/ Goes(h) =>
        \E s \in States \ {"DELAY"} : moves(h, s)
  BY <1>1 DEF Wakes, Detaches, Prepares, Relocks, Goes
<1>7. Frees(h) \/ Ends(h) \/ Stalls(h) \/ Halts(h) \/ Continues(h)
        \/ Switches(h) \/ Repeats(h) =>
        \E s \in States \ {"DELAY"} : moves(h, s)
  BY <1>1 DEF Frees, Ends, Stalls, Halts, Continues, Switches, Repeats
<1>8. Locks(h) \/ Sends(h) => \E s \in States \ {"DELAY"} : moves(h, s)
  BY <1>1, Transacts DEF Locks, Sends
<1>9. Resets(h) \/ Enables(h) =>
        /\ \E s \in States \ {"DELAY"} : moves(h, s)
        /\ \E b, c \in BOOLEAN :
             /\ initial_check' = [initial_check EXCEPT ![h] = b]
             /\ resetting' = [resetting EXCEPT ![h] = c]
  BY <1>1, <1>2 DEF Resets, Enables
<1> QED
  BY <1>3, <1>4, <1>5, <1>6, <1>7, <1>8, <1>9 DEF PortKinds

\* A step of one port leaves the others' state and reset alone.
LEMMA KindApart ==
  ASSUME TypeOK, ResetInv, NEW h \in Hubs, PortKinds(h) \/ Switches(h)
  PROVE  Apart(h)
<1>1. CASE UNCHANGED <<delayVars, initial_check, resetting>>
  BY <1>1 DEF Apart, delayVars, At
<1>2. ASSUME NEW s, s # "DELAY", moves(h, s),
             NEW b, initial_check' = [initial_check EXCEPT ![h] = b],
             NEW c, resetting' = [resetting EXCEPT ![h] = c]
      PROVE  Apart(h)
  BY <1>2, MovesTo, Groups DEF Apart, PortOK
<1> QED BY <1>1, <1>2, KindMoves

-----------------------------------------------------------------------------
(* The bus reset                                                             *)

\* A port that leaves a bus reset ends it.
LEMMA ResetMoves ==
  ASSUME TypeOK, NEW h \in Hubs, NEW s,
         \/ goto(h, s) /\ s # "DELAY"
         \/ /\ delay(h, s)
            /\ s \notin {"DELAY", "TRANSACTION", "SET_ADDRESS_DONE"},
         resetting'[h] => s \in {"RESET", "ENABLE"}
  PROVE  ResetPort(h)'
BY Groups DEF goto, delay, At, ControlOK, ResetPort

\* The port that moves keeps ResetInv,
LEMMA ResetOwn ==
  ASSUME TypeOK, ResetInv, NEW h \in Hubs, PortKinds(h) \/ Switches(h)
  PROVE  ResetPort(h)'
<1>1. resetting[h] /\ state[h] # "DELAY" => state[h] \in {"RESET", "ENABLE"}
  BY DEF ResetInv, ResetPort, At
<1> USE ResetMoves DEF ctl
<1>2. CASE Stays(h)
  BY <1>2 DEF Stays, ResetInv, ResetPort, delayVars, At
<1>3. CASE Wakes(h)
  BY <1>3 DEF Wakes, ResetInv, ResetPort, At
<1>4. CASE Detaches(h)
  BY <1>4 DEF Detaches
<1>5. CASE Prepares(h)
  BY <1>1, <1>5 DEF Prepares
<1>6. CASE Resets(h)
  BY <1>6 DEF Resets
<1>7. CASE Enables(h)
  BY <1>7, Groups DEF Enables, PortOK
<1>8. CASE Locks(h)
  BY <1>1, <1>8, Transacts DEF Locks
<1>9. CASE Sends(h)
  BY <1>1, <1>9, Transacts DEF Sends, Enumerating
<1>10. CASE Relocks(h) \/ Frees(h)
  BY <1>1, <1>10 DEF Relocks, Frees, ReleaseStates
<1>11. CASE Halts(h) \/ Switches(h)
  BY <1>1, <1>11 DEF Halts, Switches
<1>12. CASE Goes(h)
  <2>1. PICK s \in Enumerating \cup {"DONE"} : goto(h, s) \/ delay(h, s)
    BY <1>12 DEF Goes, moves
  <2>2. ~resetting'[h]
    BY <1>1, <1>12 DEF Goes, Enumerating
  <2> QED BY <2>1, <2>2 DEF Enumerating
<1>13. CASE Ends(h) \/ Stalls(h)
  <2>1. transaction_recv_state # "DELAY"
    BY Groups DEF TransferOK, RecvStates
  <2> QED BY <1>1, <1>13, <2>1 DEF Ends, Stalls
<1>14. CASE Continues(h)
  BY <1>1, <1>14 DEF Continues, StageStates
<1>15. CASE Repeats(h)
  BY <1>1, <1>15 DEF Repeats, StageStates
<1> QED
  BY <1>2, <1>3, <1>4, <1>5, <1>6, <1>7, <1>8, <1>9, <1>10, <1>11, <1>12,
     <1>13, <1>14, <1>15 DEF PortKinds

\* so does every step,
LEMMA ResetStep ==
  ASSUME TypeOK, ResetInv, [Next]_vars
  PROVE  ResetInv'
<1>1. ASSUME NEW h \in Hubs, PortKinds(h) \/ Switches(h)
      PROVE  ResetInv'
  <2>1. ASSUME NEW k \in Hubs \ {h} PROVE ResetPort(k)'
    BY <1>1, KindApart DEF Apart, ResetInv, ResetPort
  <2> QED BY <1>1, <2>1, ResetOwn DEF ResetInv
<1>2. CASE Idles
  BY <1>2 DEF Idles, delayVars, ResetInv, ResetPort, At
<1> QED
  BY <1>1, <1>2, NextKinds DEF PortKinds

\* and it holds at the start.
LEMMA InitReset == Init => ResetInv
BY DEF Init, ResetInv, ResetPort

(* The types of TypeOK, for every set of devices, calls and answers: among   *)
(* them that no size, index or address the state machine computes leaves its *)
(* range (transaction_size, string_index, the addresses of both ports).      *)
THEOREM TypeCorrect == Spec => []TypeOK
<1>1. Init => TypeOK /\ ResetInv
  BY InitTypeOK, InitReset
<1>2. TypeOK /\ ResetInv /\ [Next]_vars => (TypeOK /\ ResetInv)'
  BY NextTypeOK, ResetStep
<1> QED BY <1>1, <1>2, PTL DEF Spec

-----------------------------------------------------------------------------
(* The lock                                                                  *)

\* The states of a port that has yet to find out bMaxPacketSize0.
InitialStates ==
  {"IDLE", "CONNECT", "RESET", "ENABLE", "GET_DEVICE_DESC",
   "GET_DEVICE_DESC_RECV", "HALT"}

PortInv(h) ==
  /\ OnBus(h) => transaction_lock = h
  /\ OffBus(h) => transaction_lock # h
  /\ state[h] = "TRANSACTION" => issuer = h
  /\ At(h) \in TransferStates => transaction_recv_state \in RecvStates
  /\ state[h] = "SET_ADDRESS_DONE" =>
       turn = h /\ transaction_lock \in {h, NoHub}
  /\ initial_check[h] =>
       \/ At(h) \in InitialStates
       \/ /\ At(h) \in TransferStates
          /\ transaction_recv_state = "GET_DEVICE_DESC_RECV"

\* A STALL is answered only where the lock may be given back.
StallInv == token = "STALL" => transaction_recv_state \in ReleaseStates

LockInv == ResetInv /\ StallInv /\ \A h \in Hubs : PortInv(h)

\* A port that is not on the bus is in no state of a transfer.
LEMMA NotOnBus ==
  ASSUME NEW h \in Hubs, ~OnBus(h)
  PROVE  At(h) \notin TransferStates
BY DEF OnBus, BusStates, TransferStates, StageStates, ReleaseStates

\* A port does not notice what another one does.
LEMMA OtherPorts ==
  ASSUME LockInv, NEW h \in Hubs, NEW k \in Hubs \ {h}, Apart(h),
         turn \in {h, App},
         \/ UNCHANGED <<transaction_lock, transaction_recv_state, issuer>>
         \/ transaction_lock \in {h, NoHub} /\ transaction_lock' \in {h, NoHub}
  PROVE  PortInv(k)'
<1>1. PortInv(k) /\ k # NoHub /\ k # App /\ k # h
  BY HubFacts DEF LockInv
<1>2. /\ state'[k] = state[k] /\ At(k)' = At(k)
      /\ initial_check'[k] = initial_check[k]
  BY DEF Apart
<1>3. OnBus(k)' = OnBus(k) /\ OffBus(k)' = OffBus(k)
  BY <1>2 DEF OnBus, OffBus
<1>4. state[k] # "SET_ADDRESS_DONE"
  BY <1>1 DEF PortInv
<1>5. CASE UNCHANGED <<transaction_lock, transaction_recv_state, issuer>>
  BY <1>1, <1>2, <1>3, <1>4, <1>5 DEF PortInv
<1>6. CASE /\ transaction_lock \in {h, NoHub}
           /\ transaction_lock' \in {h, NoHub}
  <2>1. ~OnBus(k)
    BY <1>1, <1>6 DEF PortInv
  <2>2. At(k) \notin TransferStates /\ state[k] # "TRANSACTION"
    BY <2>1, NotOnBus DEF TransferStates, At
  <2> QED BY <1>1, <1>2, <1>3, <1>4, <1>6, <2>1, <2>2 DEF PortInv
<1> QED BY <1>5, <1>6

\* The classes of states, and how they lie to each other.
LEMMA StateSets ==
  /\ Enumerating \subseteq BusStates /\ TransferStates \subseteq BusStates
  /\ \A s \in BusStates :
       s \notin FreeStates \cup InitialStates \cup ReleaseStates
  /\ \A s \in Enumerating : s \notin TransferStates /\ s # "SET_ADDRESS_DONE"
  /\ \A s \in RecvStates : s \notin FreeStates \cup TransferStates
  /\ \A s \in ReleaseStates : s \notin {"GET_DEVICE_DESC_RECV",
                                        "GET_DEVICE_DESC", "DELAY"}
  /\ "DELAY" \notin BusStates \cup RecvStates
<1> USE DEF BusStates, FreeStates, TransferStates, StageStates, SendStates,
            RecvStates, ReleaseStates
<1>1. Enumerating \subseteq BusStates /\ TransferStates \subseteq BusStates
  BY DEF Enumerating
<1>2. \A s \in BusStates :
        s \notin FreeStates \cup InitialStates \cup ReleaseStates
  BY DEF InitialStates
<1>3. \A s \in Enumerating : s \notin TransferStates /\ s # "SET_ADDRESS_DONE"
  BY DEF Enumerating
<1>4. /\ \A s \in RecvStates : s \notin FreeStates \cup TransferStates
      /\ \A s \in ReleaseStates : s \notin {"GET_DEVICE_DESC_RECV",
                                            "GET_DEVICE_DESC", "DELAY"}
      /\ "DELAY" \notin BusStates \cup RecvStates
  OBVIOUS
<1> QED BY <1>1, <1>2, <1>3, <1>4

\* A port that moves to a state where it waits for nothing.
LEMMA PortMoves ==
  ASSUME TypeOK, NEW h \in Hubs, NEW s, goto(h, s) \/ delay(h, s),
         s \notin TransferStates, s # "SET_ADDRESS_DONE", s # "DELAY",
         \/ s \in BusStates
         \/ s \in {"GET_DEVICE_DESC", "GET_DEVICE_DESC_RECV"}
              /\ ~initial_check'[h]
         => transaction_lock' = h,
         \/ s \in FreeStates
         \/ s = "GET_DEVICE_DESC" /\ initial_check'[h]
         => transaction_lock' # h,
         initial_check'[h] => s \in InitialStates
  PROVE  PortInv(h)'
<1>1. At(h)' = s /\ state'[h] \in {s, "DELAY"}
  BY Groups DEF goto, delay, At, ControlOK
<1>2. state'[h] # "TRANSACTION" /\ state'[h] # "SET_ADDRESS_DONE"
  BY <1>1 DEF TransferStates
<1> QED BY <1>1, <1>2 DEF PortInv, OnBus, OffBus

\* A port that owns the lock and starts, or goes on with, a transfer.
LEMMA PortTransfers ==
  ASSUME TypeOK, NEW h \in Hubs,
         \/ goto(h, "TRANSACTION") /\ issuer' = h
         \/ \E s \in StageStates : delay(h, s),
         transaction_lock' = h, transaction_recv_state' \in RecvStates,
         initial_check'[h] => transaction_recv_state' = "GET_DEVICE_DESC_RECV"
  PROVE  PortInv(h)'
<1>1. /\ At(h)' \in TransferStates /\ state'[h] # "SET_ADDRESS_DONE"
      /\ state'[h] = "TRANSACTION" => issuer' = h
  BY Groups DEF goto, delay, At, ControlOK, TransferStates, StageStates
<1>2. ~OffBus(h)'
  BY <1>1, StateSets DEF OffBus, TransferStates, StageStates
<1> QED BY <1>1, <1>2 DEF PortInv

\* Where a port is on the bus, and is not.
LEMMA PortFacts ==
  ASSUME LockInv, NEW h \in Hubs
  PROVE  /\ state[h] \in Enumerating \cup TransferStates
              => transaction_lock = h
         /\ state[h] \in Enumerating \cup {"SET_ADDRESS", "SET_ADDRESS_DONE",
                                           "READY"} \cup ReleaseStates
              => ~initial_check[h]
         /\ state[h] \in {"GET_DEVICE_DESC", "GET_DEVICE_DESC_RECV"}
              /\ ~initial_check[h] => transaction_lock = h
         /\ state[h] \in {"IDLE", "CONNECT", "RESET", "ENABLE"}
              => transaction_lock # h
         /\ state[h] \in TransferStates =>
              /\ transaction_recv_state \in RecvStates
              /\ initial_check[h] =>
                   transaction_recv_state = "GET_DEVICE_DESC_RECV"
         /\ state[h] = "SET_ADDRESS_DONE" => transaction_lock \in {h, NoHub}
<1> USE StateSets DEF LockInv
<1>1. PortInv(h)
  OBVIOUS
<1>2. CASE state[h] = "DELAY"
  BY <1>2 DEF Enumerating, TransferStates, StageStates, ReleaseStates
<1>3. CASE state[h] # "DELAY"
  <2>1. At(h) = state[h]
    BY <1>3 DEF At
  <2>2. state[h] \in {"SET_ADDRESS", "SET_ADDRESS_DONE", "READY"}
          \cup ReleaseStates =>
        state[h] \notin InitialStates \cup TransferStates
    BY DEF InitialStates, ReleaseStates, TransferStates, StageStates
  <2>3. state[h] \in Enumerating \cup TransferStates =>
        transaction_lock = h /\ state[h] \notin InitialStates
    BY <1>1, <2>1 DEF PortInv, OnBus
  <2>4. state[h] \in {"IDLE", "CONNECT", "RESET", "ENABLE"}
          => transaction_lock # h
    BY <1>1, <2>1 DEF PortInv, OffBus, FreeStates
  <2>5. state[h] \in {"GET_DEVICE_DESC", "GET_DEVICE_DESC_RECV"}
          /\ ~initial_check[h] => transaction_lock = h
    BY <1>1, <2>1 DEF PortInv, OnBus
  <2>6. state[h] \in TransferStates =>
          /\ transaction_recv_state \in RecvStates
          /\ initial_check[h] =>
               transaction_recv_state = "GET_DEVICE_DESC_RECV"
    BY <1>1, <2>1, <2>3 DEF PortInv
  <2> QED BY <1>1, <2>1, <2>2, <2>3, <2>4, <2>5, <2>6 DEF PortInv
<1> QED BY <1>2, <1>3

\* The port that moves keeps its part of the lock's invariant,
LEMMA LockOwn ==
  ASSUME TypeOK, LockInv, NEW h \in Hubs,
         \/ turn = h /\ PortKinds(h)
         \/ turn = App /\ (Locks(h) \/ Switches(h))
  PROVE  PortInv(h)'
<1> USE HubFacts, PortFacts DEF ctl
<1>1. /\ BusStates \cap {"IDLE", "CONNECT", "RESET", "ENABLE", "READY", "HALT",
                         "SET_ADDRESS", "DONE", "GET_DEVICE_DESC"} = {}
      /\ "DONE" \notin FreeStates /\ "HALT" \notin FreeStates
      /\ TransferStates \cap {"IDLE", "CONNECT", "RESET", "ENABLE", "READY",
             "HALT", "SET_ADDRESS", "DONE", "GET_DEVICE_DESC"} = {}
      /\ "TRANSACTION" \in TransferStates
      /\ StageStates \subseteq TransferStates
  <2>1. /\ "DONE" \notin FreeStates /\ "HALT" \notin FreeStates
        /\ "TRANSACTION" \in TransferStates
        /\ StageStates \subseteq TransferStates
    BY DEF FreeStates, TransferStates
  <2>2. TransferStates \cap {"IDLE", "CONNECT", "RESET", "ENABLE", "READY",
             "HALT", "SET_ADDRESS", "DONE", "GET_DEVICE_DESC"} = {}
    BY DEF TransferStates, StageStates
  <2>3. BusStates \cap {"IDLE", "CONNECT", "RESET", "ENABLE", "READY", "HALT",
                        "SET_ADDRESS", "DONE", "GET_DEVICE_DESC"} = {}
    BY StateSets DEF FreeStates, InitialStates, ReleaseStates
  <2> QED BY <2>1, <2>2, <2>3
<1>2. CASE Stays(h)
  <2>1. /\ At(h)' = At(h) /\ OnBus(h)' = OnBus(h) /\ OffBus(h)' = OffBus(h)
        /\ state'[h] = state[h] /\ initial_check'[h] = initial_check[h]
    BY <1>2 DEF Stays, At, OnBus, OffBus, delayVars
  <2> QED BY <1>2, <2>1 DEF Stays, LockInv, PortInv
<1>3. CASE Wakes(h)
  <2>1. /\ At(h) = delay_next_state[h]
        /\ delay_next_state[h] \notin {"DELAY", "TRANSACTION",
                                       "SET_ADDRESS_DONE"}
    BY <1>3 DEF Wakes, At, LockInv, ResetInv, ResetPort
  <2>2. At(h)' = At(h) /\ state'[h] = delay_next_state[h]
    BY <1>3, <2>1, Groups DEF Wakes, goto, At, ControlOK
  <2>3. OnBus(h)' = OnBus(h) /\ OffBus(h)' = OffBus(h)
    BY <1>3, <2>2 DEF Wakes, OnBus, OffBus
  <2> QED BY <1>3, <2>1, <2>2, <2>3 DEF Wakes, LockInv, PortInv
<1>4. CASE Detaches(h)
  BY <1>1, <1>4, PortMoves DEF Detaches, unlock_transaction, InitialStates
<1>5. CASE Prepares(h)
  BY <1>1, <1>5, PortMoves DEF Prepares, InitialStates
<1>6. CASE Resets(h)
  <2>1. transaction_lock' # h
    BY <1>6 DEF Resets, unlock_transaction
  <2> QED BY <1>1, <1>6, <2>1, PortMoves DEF Resets, InitialStates
<1>7. CASE Enables(h)
  <2>1. transaction_lock' # h
    BY <1>7 DEF Enables
  <2>2. CASE initial_check[h]
    BY <1>1, <1>7, <2>1, <2>2, PortMoves DEF Enables, InitialStates
  <2>3. CASE ~initial_check[h]
    BY <1>1, <1>7, <2>1, <2>3, PortMoves DEF Enables, InitialStates
  <2> QED BY <2>2, <2>3
<1>8. CASE Locks(h)
  <2>1. /\ goto(h, "TRANSACTION") /\ issuer' = h /\ transaction_lock' = h
        /\ transaction_recv_state' \in RecvStates
    BY <1>8, Transacts DEF Locks, RecvStates
  <2>2. initial_check'[h] => transaction_recv_state' = "GET_DEVICE_DESC_RECV"
    BY <1>8, Transacts DEF Locks
  <2> QED BY <2>1, <2>2, PortTransfers
<1>9. CASE Sends(h)
  <2>1. /\ goto(h, "TRANSACTION") /\ issuer' = h
        /\ transaction_recv_state' \in RecvStates
    BY <1>9, Transacts DEF Sends
  <2>2. transaction_lock' = h /\ ~initial_check'[h]
    BY <1>9 DEF Sends
  <2> QED BY <2>1, <2>2, PortTransfers
<1>10. CASE Relocks(h)
  <2>1. transaction_lock' = h /\ ~initial_check'[h]
    BY <1>10 DEF Relocks
  <2> QED BY <1>1, <1>10, <2>1, PortMoves DEF Relocks, FreeStates
<1>11. CASE Goes(h)
  <2>1. PICK s \in Enumerating \cup {"DONE"} : goto(h, s) \/ delay(h, s)
    BY <1>11 DEF Goes, moves
  <2>2. transaction_lock' = h /\ ~initial_check'[h]
    BY <1>11 DEF Goes
  <2>3. s \notin FreeStates /\ s \notin TransferStates
          /\ s # "SET_ADDRESS_DONE" /\ s # "DELAY"
    BY <1>1, StateSets
  <2> QED BY <2>1, <2>2, <2>3, PortMoves
<1>12. CASE Frees(h)
  <2>1. transaction_lock' # h /\ ~initial_check'[h]
    BY <1>12 DEF Frees, unlock_transaction
  <2> QED BY <1>1, <1>12, <2>1, PortMoves DEF Frees
<1>13. CASE Ends(h)
  <2>1. /\ transaction_lock' = h /\ transaction_recv_state \in RecvStates
        /\ initial_check'[h] =>
             transaction_recv_state = "GET_DEVICE_DESC_RECV"
    BY <1>1, <1>13 DEF Ends
  <2>2. CASE transaction_recv_state = "SET_ADDRESS_DONE"
    <3>1. At(h)' = "SET_ADDRESS_DONE" /\ state'[h] = "SET_ADDRESS_DONE"
      BY <1>13, <2>2, Groups DEF Ends, goto, At, ControlOK
    <3>2. ~OffBus(h)' /\ ~initial_check'[h]
      BY <2>1, <2>2, <3>1 DEF OffBus, FreeStates
    <3> QED BY <1>13, <2>1, <3>1, <3>2, StateSets DEF Ends, PortInv
  <2>3. CASE transaction_recv_state # "SET_ADDRESS_DONE"
    <3>1. transaction_recv_state # "GET_DEVICE_DESC"
      BY <2>1 DEF RecvStates
    <3> QED BY <1>13, <2>1, <2>3, <3>1, PortMoves, StateSets
            DEF Ends, InitialStates
  <2> QED BY <2>2, <2>3
<1>14. CASE Stalls(h)
  <2>1. /\ transaction_recv_state \in ReleaseStates
        /\ transaction_recv_state \in RecvStates
        /\ transaction_lock' = NoHub /\ ~initial_check'[h]
    BY <1>1, <1>14, StateSets DEF Stalls, LockInv, StallInv,
       unlock_transaction
  <2>2. CASE transaction_recv_state = "SET_ADDRESS_DONE"
    <3>1. At(h)' = "SET_ADDRESS_DONE" /\ state'[h] = "SET_ADDRESS_DONE"
      BY <1>14, <2>2, Groups DEF Stalls, goto, At, ControlOK
    <3>2. ~OnBus(h)'
      BY <3>1 DEF OnBus, BusStates, ReleaseStates
    <3> QED BY <1>14, <2>1, <3>1, <3>2, StateSets DEF Stalls, PortInv
  <2>3. CASE transaction_recv_state # "SET_ADDRESS_DONE"
    BY <1>14, <2>1, <2>3, PortMoves, StateSets DEF Stalls
  <2> QED BY <2>2, <2>3
<1>15. CASE Halts(h)
  <2>1. transaction_lock' = h
    BY <1>1, <1>15 DEF Halts
  <2> QED BY <1>1, <1>15, <2>1, PortMoves DEF Halts, InitialStates
<1>16. CASE Continues(h)
  <2>1. transaction_lock' = h /\ transaction_recv_state' \in RecvStates
    BY <1>1, <1>16 DEF Continues
  <2>2. initial_check'[h] => transaction_recv_state' = "GET_DEVICE_DESC_RECV"
    BY <1>1, <1>16 DEF Continues
  <2> QED BY <1>16, <2>1, <2>2, PortTransfers DEF Continues
<1>17. CASE Repeats(h)
  <2>1. transaction_lock' = h /\ transaction_recv_state' \in RecvStates
    BY <1>1, <1>17 DEF Repeats
  <2>2. initial_check'[h] => transaction_recv_state' = "GET_DEVICE_DESC_RECV"
    BY <1>1, <1>17 DEF Repeats
  <2> QED BY <1>17, <2>1, <2>2, PortTransfers DEF Repeats
<1>18. CASE Switches(h)
  <2>1. transaction_lock' # h /\ ~initial_check'[h]
    BY <1>18 DEF Switches, LockInv, PortInv, OffBus, FreeStates, At
  <2> QED BY <1>1, <1>18, <2>1, PortMoves DEF Switches
<1> QED
  BY <1>2, <1>3, <1>4, <1>5, <1>6, <1>7, <1>8, <1>9, <1>10, <1>11, <1>12,
     <1>13, <1>14, <1>15, <1>16, <1>17, <1>18 DEF PortKinds

\* the others keep theirs,
LEMMA LockOthers ==
  ASSUME TypeOK, LockInv, NEW h \in Hubs, NEW k \in Hubs \ {h},
         \/ turn = h /\ PortKinds(h)
         \/ turn = App /\ (Locks(h) \/ Switches(h))
  PROVE  PortInv(k)'
<1>1. Apart(h) /\ turn \in {h, App}
  BY KindApart DEF LockInv, PortKinds
<1>2. \/ UNCHANGED <<transaction_lock, transaction_recv_state, issuer>>
      \/ transaction_lock \in {h, NoHub} /\ transaction_lock' \in {h, NoHub}
  <2> USE DEF ctl
  <2>1. Locks(h) => transaction_lock = NoHub /\ transaction_lock' = h
    BY DEF Locks
  <2>2. Sends(h) \/ Repeats(h) => transaction_lock = h /\ transaction_lock' = h
    BY PortFacts DEF Sends, Repeats, TransferStates
  <2>3. Relocks(h) => transaction_lock \in {h, NoHub} /\ transaction_lock' = h
    BY PortFacts DEF Relocks
  <2>4. Detaches(h) \/ Resets(h) \/ Enables(h) \/ Frees(h) \/ Stalls(h) =>
          /\ UNCHANGED <<transaction_recv_state, issuer>>
          /\ \/ UNCHANGED transaction_lock
             \/ transaction_lock = h /\ transaction_lock' = NoHub
    BY DEF Detaches, Resets, Enables, Frees, Stalls, unlock_transaction
  <2>5. Stays(h) \/ Wakes(h) \/ Prepares(h) \/ Goes(h) \/ Ends(h) \/ Halts(h)
          \/ Continues(h) \/ Switches(h) =>
        UNCHANGED <<transaction_lock, transaction_recv_state, issuer>>
    BY DEF Stays, Wakes, Prepares, Goes, Ends, Halts, Continues, Switches
  <2> QED BY <2>1, <2>2, <2>3, <2>4, <2>5 DEF PortKinds
<1> QED BY <1>1, <1>2, OtherPorts

\* a STALL stays where it may be,
LEMMA StallStep ==
  ASSUME StallInv, NEW h \in Hubs, PortKinds(h) \/ Switches(h)
  PROVE  StallInv'
<1>1. Locks(h) \/ Sends(h) \/ Repeats(h) => token' = "none"
  BY Transacts DEF Locks, Sends, Repeats
<1>2. Detaches(h) \/ Resets(h) \/ Enables(h) \/ Relocks(h) \/ Frees(h)
        \/ Stalls(h) => UNCHANGED <<transaction_recv_state, token>>
  BY DEF Detaches, Resets, Enables, Relocks, Frees, Stalls
<1>3. Stays(h) \/ Wakes(h) \/ Prepares(h) \/ Goes(h) \/ Ends(h) \/ Halts(h)
        \/ Continues(h) \/ Switches(h) =>
      UNCHANGED <<transaction_recv_state, token>>
  BY DEF Stays, Wakes, Prepares, Goes, Ends, Halts, Continues, Switches, ctl
<1> QED BY <1>1, <1>2, <1>3 DEF PortKinds, StallInv

\* and so every step keeps the lock's invariant,
LEMMA LockStep ==
  ASSUME StallAt \subseteq ReleaseStates, TypeOK, LockInv, [Next]_vars
  PROVE  LockInv'
<1>1. ResetInv'
  BY ResetStep DEF LockInv
<1>2. CASE Idles
  <2>1. StallInv'
    BY <1>2 DEF Idles, LockInv, StallInv
  <2>2. ASSUME NEW h \in Hubs PROVE PortInv(h)'
    <3>1. /\ At(h)' = At(h) /\ OnBus(h)' = OnBus(h) /\ OffBus(h)' = OffBus(h)
          /\ state'[h] = state[h] /\ initial_check'[h] = initial_check[h]
      BY <1>2 DEF Idles, At, OnBus, OffBus, delayVars
    <3>2. state[h] = "SET_ADDRESS_DONE" => turn' = h
      BY <1>2, HubFacts DEF Idles, LockInv, PortInv
    <3> QED BY <1>2, <3>1, <3>2 DEF Idles, LockInv, PortInv
  <2> QED BY <1>1, <2>1, <2>2 DEF LockInv
<1>3. ASSUME NEW h \in Hubs,
             \/ turn = h /\ PortKinds(h)
             \/ turn = App /\ (Locks(h) \/ Switches(h))
      PROVE  LockInv'
  <2>1. StallInv'
    BY <1>3, StallStep DEF LockInv, PortKinds
  <2>2. PortInv(h)'
    BY <1>3, LockOwn
  <2>3. \A k \in Hubs \ {h} : PortInv(k)'
    BY <1>3, LockOthers
  <2> QED BY <1>1, <2>1, <2>2, <2>3 DEF LockInv
<1> QED
  BY <1>2, <1>3, NextKinds

\* which holds at the start
LEMMA InitLock == Init => LockInv
<1> SUFFICES ASSUME Init PROVE LockInv
  OBVIOUS
<1>1. ResetInv /\ StallInv
  BY InitReset DEF Init, StallInv
<1>2. ASSUME NEW h \in Hubs PROVE PortInv(h)
  <2>1. /\ At(h) = "IDLE" /\ state[h] = "IDLE" /\ transaction_lock = NoHub
        /\ ~initial_check[h] /\ h # NoHub
    BY HubFacts DEF Init, At
  <2> QED BY <2>1 DEF PortInv, OnBus, OffBus, BusStates, TransferStates,
             StageStates, SendStates, RecvStates, ReleaseStates
<1> QED BY <1>1, <1>2 DEF LockInv

\* and therefore always.
LEMMA LockInvariant ==
  ASSUME StallAt \subseteq ReleaseStates
  PROVE  Spec => [](TypeOK /\ LockInv)
<1>1. Init => TypeOK /\ LockInv
  BY InitTypeOK, InitLock
<1>2. TypeOK /\ LockInv /\ [Next]_vars => (TypeOK /\ LockInv)'
  BY NextTypeOK, LockStep DEF LockInv
<1> QED BY <1>1, <1>2, PTL DEF Spec

(* If a device answers STALL only to the last request of an enumeration, to  *)
(* SET_ADDRESS or to a request of the application, a port on the bus owns    *)
(* the lock and a port off the bus does not (lock_transaction and            *)
(* unlock_transaction agree on every path of fsm and the public functions).  *)
THEOREM LockDiscipline ==
  ASSUME StallAt \subseteq ReleaseStates
  PROVE  Spec => []LockMatchesPorts
<1>1. TypeOK /\ LockInv => LockMatchesPorts
  BY DEF LockInv, PortInv, LockMatchesPorts, LockHeldOnBus, NoLeakedLock
<1> QED BY <1>1, LockInvariant, PTL

(* Then the transfer a port waits for is always its own: neither the other   *)
(* port nor the application starts one over it.                              *)
THEOREM TransfersAreOwn ==
  ASSUME StallAt \subseteq ReleaseStates
  PROVE  Spec => []OwnTransfer
<1>1. TypeOK /\ LockInv => OwnTransfer
  BY DEF LockInv, PortInv, OwnTransfer
<1> QED BY <1>1, LockInvariant, PTL

\* The actions that write the request templates.
Writes(h) ==
  \/ state_get_device_desc_recv(h) \/ state_get_string_desc_recv(h)
  \/ state_get_configuration_desc_recv(h) \/ state_get_hub_desc_recv(h)
  \/ state_set_port_power_feature(h) \/ state_set_port_power_feature_done(h)
  \/ state_clear_port_connection_feature_done(h)

\* Who writes the shared templates,
LEMMA TemplateWriters ==
  ASSUME NEW h \in Hubs, fsm(h), templates' # templates
  PROVE  state_set_address(h) \/ Writes(h)
<1>1. ~(Wait(h) \/ DelayEnds(h) \/ Disconnect(h) \/ state_idle(h)
        \/ state_reset(h) \/ state_enable(h) \/ state_set_address_done(h)
        \/ state_connect(h) \/ InitialCheckDone(h)
        \/ state_get_device_desc(h))
  BY DEF Wait, DelayEnds, Disconnect, state_idle, state_reset, state_enable,
     state_set_address_done, state_connect, InitialCheckDone,
     state_get_device_desc
<1>2. ~(state_get_string_desc(h) \/ state_get_configuration_desc(h)
        \/ state_set_configuration(h) \/ state_set_configuration_done(h)
        \/ state_set_feature(h) \/ state_extra_setup(h)
        \/ state_get_hid_report_desc(h) \/ state_hid_set_protocol(h)
        \/ state_hid_set_protocol_done(h) \/ state_get_hub_desc(h)
        \/ state_clear_port_connection_feature(h))
  BY DEF send, state_get_string_desc, state_get_configuration_desc,
     state_set_configuration, state_set_configuration_done,
     state_set_feature, state_extra_setup, state_get_hid_report_desc,
     state_hid_set_protocol, state_hid_set_protocol_done,
     state_get_hub_desc, state_clear_port_connection_feature
<1>3. ~(EnumerationEnds(h) \/ ReportArrives(h) \/ state_out_done(h)
        \/ TransferStalls(h) \/ TransferSucceeds(h) \/ TransferNaks(h)
        \/ TransferFails(h) \/ NextStage(h) \/ state_transaction_cont(h)
        \/ state_transaction_retry(h))
  BY DEF EnumerationEnds, ReportArrives, state_out_done, TransferStalls,
     TransferSucceeds, TransferNaks, TransferFails, Ended, NextStage,
     state_transaction_cont, state_transaction_retry
<1> QED BY <1>1, <1>2, <1>3 DEF fsm, Writes

\* and that they own the lock.
LEMMA WritersLock ==
  ASSUME LockInv, NEW h \in Hubs, Writes(h), templates' # templates
  PROVE  turn = h /\ transaction_lock' = h
<1> USE PortFacts DEF In, Enumerating, lockVars
<1>1. CASE state_get_device_desc_recv(h)
  BY <1>1 DEF state_get_device_desc_recv
<1>2. CASE state_get_string_desc_recv(h)
  BY <1>2 DEF state_get_string_desc_recv
<1>3. CASE state_get_configuration_desc_recv(h)
  BY <1>3 DEF state_get_configuration_desc_recv
<1>4. CASE state_get_hub_desc_recv(h)
  BY <1>4 DEF state_get_hub_desc_recv
<1>5. CASE state_set_port_power_feature(h)
  BY <1>5 DEF state_set_port_power_feature, send
<1>6. CASE state_set_port_power_feature_done(h)
  BY <1>6 DEF state_set_port_power_feature_done, next_port
<1>7. CASE state_clear_port_connection_feature_done(h)
  BY <1>7 DEF state_clear_port_connection_feature_done, next_port
<1> QED BY <1>1, <1>2, <1>3, <1>4, <1>5, <1>6, <1>7 DEF Writes

(* And the request templates, which both ports share, are written by the     *)
(* owner of the lock only (set_address_descriptor, the get_*_descriptors and *)
(* their indices in usb_host.c).                                             *)
THEOREM TemplatesProtected ==
  ASSUME StallAt \subseteq ReleaseStates
  PROVE  Spec => TemplatesUnderLock
<1>1. ASSUME LockInv, [Next]_vars, templates' # templates
      PROVE  transaction_lock' = turn
  <2>1. ASSUME NEW h \in Hubs, fsm(h) PROVE transaction_lock' = turn
    <3>1. CASE state_set_address(h)
      BY <3>1 DEF state_set_address, lock_transaction, In
    <3> QED BY <1>1, <2>1, <3>1, TemplateWriters, WritersLock
  <2>2. ASSUME NEW h \in Hubs, Application(h) PROVE UNCHANGED templates
    BY <2>2 DEF Application, usb_host_setup, usb_host_in, usb_host_out,
       usb_host_hid_get_report, usb_host_hub_switch, callFrame
  <2>3. usb_host_poll \/ UNCHANGED vars => UNCHANGED templates
    BY DEF usb_host_poll, vars
  <2>4. ASSUME NEW t, TransferCompletes(t) PROVE UNCHANGED templates
    BY <2>4 DEF TransferCompletes
  <2>5. ASSUME NEW h \in Hubs, Plug(h) \/ Unplug(h) PROVE UNCHANGED templates
    BY <2>5 DEF Plug, Unplug
  <2> QED BY <1>1, <2>1, <2>2, <2>3, <2>4, <2>5 DEF Next
<1>2. LockInv /\ [Next]_vars =>
        [templates' # templates => transaction_lock' = turn]_vars
  BY <1>1
<1> QED BY <1>2, LockInvariant, PTL DEF Spec, TemplatesUnderLock

-----------------------------------------------------------------------------
(***************************************************************************)
(* What the host believes of its devices, their addresses and data         *)
(* toggles, is true; a transfer runs with the speed and the address of its *)
(* own device, and no descriptor is read from a NAK.                       *)
(***************************************************************************)

(* What the devices must not do for that.  A SET_ADDRESS is neither stalled  *)
(* nor left unanswered; a NAK comes only while no device is unplugged and    *)
(* none can wake the host: do_not_retry, which makes a NAK the end of a      *)
(* request, outlives the device it was set for, and outlives the request     *)
(* SET_FEATURE of state_set_feature when that is answered by a NAK.          *)
GoodAnswers ==
  /\ StallAt \subseteq ReleaseStates
  /\ "STALL" \in Answers => "SET_ADDRESS_DONE" \notin StallAt
  /\ "TIMEOUT" \notin Answers /\ ~Overlong
  /\ "NAK" \in Answers => Unpluggable = {} /\ \A d \in Devices : ~d.wakeup

\* The state a port is in, or will be in when its delay or transfer is over.
Busy(h) == At(h) \in TransferStates
Serving(h) == IF Busy(h) THEN transaction_recv_state ELSE At(h)

DescStates == {"GET_DEVICE_DESC", "GET_DEVICE_DESC_RECV"}
NewStates == {"IDLE", "CONNECT", "RESET", "ENABLE", "SET_ADDRESS"}
NamedStates ==
  DescStates \cup
  {"GET_STRING_DESC", "GET_STRING_DESC_RECV", "GET_CONFIGURATION_DESC",
   "GET_CONFIGURATION_DESC_RECV", "SET_CONFIGURATION", "SET_CONFIGURATION_DONE"}

\* The device has no address yet, or it has the one the port gave it.
New(h) ==
  \/ Serving(h) \in NewStates
  \/ initial_check[h] /\ Serving(h) \in DescStates
Known(h) == ~New(h) /\ Serving(h) \notin {"SET_ADDRESS_DONE", "HALT"}
Configured(h) == Known(h) /\ Serving(h) \notin NamedStates

\* The device has accepted the transfer that the port waits for.
Accepts(h, pid) ==
  state[h] = "TRANSACTION" /\ token = "ACK" /\ transaction_pid = pid

\* A request without data: SETUP, and an IN that the device acknowledges.
NoDataShape(h) ==
  /\ tx_request = [dir |-> "OUT", data |-> FALSE] /\ transaction_size = 0
  /\ \/ transaction_pid = "SETUP" /\ transaction_stage = 0
        /\ At(h) = "TRANSACTION"
     \/ transaction_pid = "SETUP" /\ transaction_stage = 1
        /\ At(h) = "TRANSACTION_IN"
     \/ transaction_pid = "IN" /\ transaction_stage = 1
        /\ At(h) \in {"TRANSACTION", "TRANSACTION_RETRY"}

ShapeInv(h) ==
  Busy(h) =>
    /\ transaction_recv_state \in {"SET_ADDRESS_DONE", "SET_CONFIGURATION_DONE"}
         => NoDataShape(h)
    /\ transaction_recv_state = "OUT_DONE" =>
         /\ transaction_pid = "OUT" /\ transaction_stage = 2
         /\ transaction_size = 0 /\ At(h) \in {"TRANSACTION", "TRANSACTION_RETRY"}

AnswerInv(h) ==
  state[h] = "TRANSACTION" =>
    /\ transaction_pid = "SETUP" => token \notin {"NAK", "STALL"}
    /\ token = "STALL" =>
         "STALL" \in Answers /\ transaction_recv_state \in StallAt
    /\ token = "NAK" => "NAK" \in Answers
    /\ token = "TIMEOUT" => ~attach(h)

AddressInv(h) ==
  attach(h) =>
    /\ New(h) => device_address[h] = 0
    /\ Serving(h) = "SET_ADDRESS_DONE" =>
         device_address[h] =
           IF ~Busy(h) \/ Accepts(h, "IN") THEN AddressOf(h) ELSE 0
    /\ Known(h) => device_address[h] = AddressOf(h)

RegisterInv(h) ==
  /\ Busy(h) /\ New(h) => USB_DEV_AD = 0
  /\ Serving(h) = "SET_ADDRESS_DONE" =>
       address = AddressOf(h) /\ (Busy(h) => USB_DEV_AD = 0)
  /\ OnBus(h) /\ Known(h) => USB_DEV_AD = AddressOf(h)

ToggleInv(h) ==
  attach(h) =>
    /\ Serving(h) = "SET_CONFIGURATION_DONE" /\ (~Busy(h) \/ Accepts(h, "IN"))
         => device_toggle[h] = FALSE
    /\ Configured(h) =>
         (device_toggle[h] # bulk_out_toggle[h]) =
           (Serving(h) = "OUT_DONE" /\ Busy(h) /\ Accepts(h, "OUT"))

RetryInv(h) ==
  /\ "NAK" \in Answers =>
       /\ do_not_retry[h] => Serving(h) \in {"IN_RECV", "HALT"}
       /\ Serving(h) \in {"SET_CONFIGURATION", "SET_CONFIGURATION_DONE",
                          "SET_FEATURE"} => no_remote_wakeup[h]
  /\ state[h] \in DescriptorStates => turn = h /\ outcome # "nak"
  /\ delay_next_state[h] \notin DescriptorStates

SpeedInv(h) ==
  Unpluggable = {} =>
    /\ state[h] = "IDLE" \/ attach(h)
    /\ transaction_lock = h => USB_CTRL = UHUB_CTRL[h]

DeviceInv(h) ==
  /\ ShapeInv(h) /\ AnswerInv(h) /\ AddressInv(h) /\ RegisterInv(h)
  /\ ToggleInv(h) /\ RetryInv(h) /\ SpeedInv(h)
IssuerInv == UH_EP_PID => issuer \in Hubs /\ state[issuer] = "TRANSACTION"
HostInv == LockInv /\ IssuerInv /\ \A h \in Hubs : DeviceInv(h)

-----------------------------------------------------------------------------
(* The states                                                                *)

\* The classes of states do not overlap where they must not.
LEMMA StateFacts ==
  /\ TransferStates \cap (NewStates \cup NamedStates \cup RecvStates
                          \cup DescriptorStates \cup SendStates) = {}
  /\ TransferStates \cap {"HALT", "READY", "DELAY"} = {}
  /\ "TRANSACTION" \in TransferStates /\ StageStates \subseteq TransferStates
  /\ DescriptorStates \subseteq RecvStates \ {"DONE"}
  /\ ReleaseStates \subseteq RecvStates
<1>1. TransferStates \cap (NewStates \cup NamedStates) = {}
  BY DEF TransferStates, StageStates, NewStates, NamedStates, DescStates
<1>2. TransferStates \cap (RecvStates \cup SendStates) = {}
  BY DEF TransferStates, StageStates, RecvStates, SendStates
<1>3. /\ TransferStates \cap {"HALT", "READY", "DELAY"} = {}
      /\ "TRANSACTION" \in TransferStates /\ StageStates \subseteq TransferStates
  BY DEF TransferStates, StageStates
<1>4. /\ DescriptorStates \subseteq RecvStates \ {"DONE"}
      /\ ReleaseStates \subseteq RecvStates
  BY DEF DescriptorStates, RecvStates, ReleaseStates
<1> QED BY <1>1, <1>2, <1>3, <1>4

\* Where a port that moves to s is then, and whom it serves.
LEMMA ServingMoves ==
  ASSUME TypeOK, NEW h \in Hubs, NEW s, s # "DELAY", moves(h, s)
  PROVE  /\ At(h)' = s /\ Busy(h)' = (s \in TransferStates)
         /\ Serving(h)' =
              IF s \in TransferStates THEN transaction_recv_state' ELSE s
         /\ New(h)' = \/ Serving(h)' \in NewStates
                      \/ initial_check'[h] /\ Serving(h)' \in DescStates
         /\ state'[h] \in {s, "DELAY"} /\ delay_next_state'[h] \in {"IDLE", s}
         /\ goto(h, s) => state'[h] = s
         /\ delay(h, s) => state'[h] = "DELAY"
<1>1. /\ At(h)' = s /\ state'[h] \in {s, "DELAY"}
      /\ delay_next_state'[h] \in {"IDLE", s}
      /\ goto(h, s) => state'[h] = s
      /\ delay(h, s) => state'[h] = "DELAY"
  BY MovesTo
<1> QED BY <1>1 DEF Busy, Serving, New

\* A port that moves to a state in which it waits for no transfer.
LEMMA Lands ==
  ASSUME TypeOK, NEW h \in Hubs, NEW s, moves(h, s), s # "DELAY",
         s \notin TransferStates \cup DescriptorStates,
         s \notin {"SET_ADDRESS_DONE", "SET_CONFIGURATION_DONE", "OUT_DONE"},
         attach(h)' =>
           IF s \in NewStates \/ (initial_check'[h] /\ s \in DescStates)
           THEN device_address'[h] = 0
           ELSE s # "HALT" =>
                  /\ device_address'[h] = AddressOf(h)'
                  /\ s \notin NamedStates =>
                       device_toggle'[h] = bulk_out_toggle'[h],
         /\ s \notin NewStates \cup {"HALT", "READY", "DONE"}
         /\ ~(initial_check'[h] /\ s \in DescStates)
         => USB_DEV_AD' = AddressOf(h)',
         "NAK" \in Answers =>
           /\ s = "HALT" \/ ~do_not_retry'[h]
           /\ s \in {"SET_CONFIGURATION", "SET_FEATURE"} => no_remote_wakeup'[h],
         SpeedInv(h)'
  PROVE  DeviceInv(h)'
<1> USE StateFacts, ServingMoves
<1>1. ~Busy(h)' /\ Serving(h)' = s /\ At(h)' = s /\ state'[h] # "TRANSACTION"
  BY DEF StageStates
<1>2. New(h)' = (s \in NewStates \/ (initial_check'[h] /\ s \in DescStates))
  BY <1>1
<1>3. ShapeInv(h)' /\ AnswerInv(h)'
  BY <1>1 DEF ShapeInv, AnswerInv
<1>4. AddressInv(h)'
  BY <1>1, <1>2 DEF AddressInv, Known
<1>5. RegisterInv(h)'
  <2>1. OnBus(h)' => s \notin NewStates \cup {"HALT", "READY", "DONE"}
    BY <1>1, StateSets DEF OnBus, NewStates, InitialStates, FreeStates,
       ReleaseStates
  <2> QED BY <1>1, <1>2, <2>1 DEF RegisterInv, Known
<1>6. ToggleInv(h)'
  BY <1>1, <1>2 DEF ToggleInv, Configured, Known
<1>7. RetryInv(h)'
  <2>1. /\ state'[h] \notin DescriptorStates
        /\ delay_next_state'[h] \notin DescriptorStates
    BY DEF DescriptorStates
  <2> QED BY <1>1, <1>2, <2>1 DEF RetryInv
<1> QED BY <1>3, <1>4, <1>5, <1>6, <1>7 DEF DeviceInv


\* A port that starts a transfer, or waits before it goes on with one.
LEMMA Transfers ==
  ASSUME TypeOK, NEW h \in Hubs,
         \/ goto(h, "TRANSACTION") /\ token' = "none"
         \/ \E s \in StageStates : delay(h, s),
         transaction_recv_state' \in RecvStates, ShapeInv(h)',
         attach(h)' =>
           IF \/ initial_check'[h] /\ transaction_recv_state' \in DescStates
              \/ transaction_recv_state' = "SET_ADDRESS_DONE"
           THEN device_address'[h] = 0
           ELSE /\ device_address'[h] = AddressOf(h)'
                /\ transaction_recv_state' \notin NamedStates =>
                     device_toggle'[h] = bulk_out_toggle'[h],
         USB_DEV_AD' =
           IF \/ initial_check'[h] /\ transaction_recv_state' \in DescStates
              \/ transaction_recv_state' = "SET_ADDRESS_DONE"
           THEN 0 ELSE AddressOf(h)',
         transaction_recv_state' = "SET_ADDRESS_DONE" =>
           address' = AddressOf(h)',
         "NAK" \in Answers =>
           /\ do_not_retry'[h] => transaction_recv_state' = "IN_RECV"
           /\ transaction_recv_state' = "SET_CONFIGURATION_DONE" =>
                no_remote_wakeup'[h],
         SpeedInv(h)'
  PROVE  DeviceInv(h)'
<1> USE StateFacts
<1>1. PICK s \in TransferStates : /\ moves(h, s) /\ s # "DELAY"
                                  /\ s = "TRANSACTION" => token' = "none"
                                  /\ s # "TRANSACTION" => delay(h, s)
  BY DEF moves, StageStates
<1>2. /\ Busy(h)' /\ Serving(h)' = transaction_recv_state' /\ At(h)' = s
      /\ state'[h] = "TRANSACTION" => token' = "none"
      /\ state'[h] \notin DescriptorStates
      /\ delay_next_state'[h] \notin DescriptorStates
  <2>1. state'[h] \in {s, "DELAY"} /\ delay_next_state'[h] \in {"IDLE", s}
    BY <1>1, ServingMoves
  <2>2. {"IDLE", "DELAY", s} \cap DescriptorStates = {}
    BY DEF DescriptorStates
  <2>3. state'[h] = "TRANSACTION" => s = "TRANSACTION"
    BY <2>1
  <2> QED BY <1>1, <2>1, <2>2, <2>3, ServingMoves
<1>3. /\ transaction_recv_state' \notin NewStates \cup {"HALT"}
      /\ New(h)' = (initial_check'[h] /\ transaction_recv_state' \in DescStates)
  <2>1. RecvStates \cap (NewStates \cup {"HALT"}) = {}
    BY DEF RecvStates, NewStates
  <2> QED BY <1>2, <2>1 DEF New
<1>4. AnswerInv(h)'
  BY <1>2 DEF AnswerInv
<1>5. ~Accepts(h, "IN")' /\ ~Accepts(h, "OUT")'
  BY <1>2 DEF Accepts
<1>6. AddressInv(h)'
  BY <1>2, <1>3, <1>5 DEF AddressInv, Known
<1>7. RegisterInv(h)'
  BY <1>2, <1>3 DEF RegisterInv, Known
<1>8. ToggleInv(h)'
  <2>1. device_toggle'[h] = bulk_out_toggle'[h] =>
          (device_toggle'[h] # bulk_out_toggle'[h]) = FALSE
    OBVIOUS
  <2>2. Configured(h)' /\ attach(h)' =>
          device_toggle'[h] = bulk_out_toggle'[h]
    BY <1>2, <1>3 DEF Configured, Known
  <2> QED BY <1>2, <1>5, <2>1, <2>2 DEF ToggleInv
<1>9. RetryInv(h)'
  <2>1. transaction_recv_state' \notin {"SET_CONFIGURATION", "SET_FEATURE"}
    BY DEF RecvStates
  <2> QED BY <1>2, <2>1 DEF RetryInv
<1> QED BY <1>4, <1>6, <1>7, <1>8, <1>9 DEF DeviceInv

\* What a port knows that is neither in a transfer nor in a delay.
LEMMA Here ==
  ASSUME HostInv, NEW h \in Hubs, state[h] # "DELAY",
         state[h] \notin TransferStates
  PROVE  /\ At(h) = state[h] /\ Serving(h) = state[h] /\ ~Busy(h)
         /\ New(h) = \/ state[h] \in NewStates
                     \/ initial_check[h] /\ state[h] \in DescStates
         /\ DeviceInv(h)
         /\ New(h) /\ attach(h) => device_address[h] = 0
         /\ "NAK" \in Answers => ~do_not_retry[h] \/ state[h] \in {"IN_RECV", "HALT"}
         /\ state[h] \notin NewStates \cup {"HALT", "SET_ADDRESS_DONE"}
            /\ ~(initial_check[h] /\ state[h] \in DescStates) /\ attach(h) =>
              /\ device_address[h] = AddressOf(h)
              /\ state[h] \notin NamedStates =>
                   device_toggle[h] = bulk_out_toggle[h]
         /\ state[h] \in Enumerating \/ (state[h] \in DescStates /\ ~initial_check[h])
              => USB_DEV_AD = AddressOf(h)
<1>1. At(h) = state[h] /\ Serving(h) = state[h] /\ ~Busy(h) /\ DeviceInv(h)
  BY DEF At, Serving, Busy, HostInv
<1>2. New(h) = \/ state[h] \in NewStates
               \/ initial_check[h] /\ state[h] \in DescStates
  BY <1>1 DEF New
<1>3. /\ New(h) /\ attach(h) => device_address[h] = 0
      /\ Known(h) /\ attach(h) => device_address[h] = AddressOf(h)
  BY <1>1 DEF DeviceInv, AddressInv
<1>4. "NAK" \in Answers => ~do_not_retry[h] \/ state[h] \in {"IN_RECV", "HALT"}
  BY <1>1 DEF DeviceInv, RetryInv
<1>5. Known(h) = /\ state[h] \notin NewStates \cup {"HALT", "SET_ADDRESS_DONE"}
                 /\ ~(initial_check[h] /\ state[h] \in DescStates)
  BY <1>1, <1>2 DEF Known
<1>6. Known(h) /\ attach(h) /\ state[h] \notin NamedStates =>
        device_toggle[h] = bulk_out_toggle[h]
  BY <1>1 DEF DeviceInv, ToggleInv, Configured
<1>7. state[h] \in Enumerating \/ (state[h] \in DescStates /\ ~initial_check[h])
        => USB_DEV_AD = AddressOf(h)
  <2>1. Enumerating \cap (NewStates \cup DescStates
                          \cup {"HALT", "SET_ADDRESS_DONE"}) = {}
    BY DEF Enumerating, NewStates, DescStates
  <2>2. DescStates \cap (NewStates \cup {"HALT", "SET_ADDRESS_DONE"}) = {}
    BY DEF DescStates, NewStates
  <2>3. state[h] \in Enumerating \/ (state[h] \in DescStates /\ ~initial_check[h])
          => OnBus(h) /\ Known(h)
    BY <1>1, <1>5, <2>1, <2>2, StateSets DEF OnBus, DescStates
  <2> QED BY <1>1, <2>3 DEF DeviceInv, RegisterInv
<1> QED BY <1>1, <1>2, <1>3, <1>4, <1>5, <1>6, <1>7


-----------------------------------------------------------------------------
(* The port that takes the step                                              *)

\* The speed of a port that keeps its device.
LEMMA Speed ==
  ASSUME NEW h \in Hubs, SpeedInv(h), state[h] # "IDLE" \/ attach(h),
         attach(h)' = attach(h),
         \/ transaction_lock' # h
         \/ USB_CTRL' = UHUB_CTRL'[h]
         \/ /\ UNCHANGED <<transaction_lock, USB_CTRL>>
            /\ UHUB_CTRL'[h] = UHUB_CTRL[h]
  PROVE  SpeedInv(h)'
BY DEF SpeedInv

\* A step of an enumeration that needs no transfer.
LEMMA Stepping ==
  ASSUME TypeOK, HostInv, NEW h \in Hubs,
         \/ state[h] \in Enumerating
         \/ state[h] = "GET_DEVICE_DESC_RECV" /\ ~initial_check[h],
         NEW s \in Enumerating \cup {"DONE"}, moves(h, s),
         s \notin DescriptorStates \cup {"SET_CONFIGURATION_DONE"},
         UNCHANGED <<deviceVars, portVars, lockVars, do_not_retry>>,
         s \notin NamedStates =>
           IF state[h] = "SET_CONFIGURATION_DONE" THEN bulk_out_toggle'[h] = FALSE
           ELSE state[h] \notin NamedStates /\ UNCHANGED bulk_out_toggle,
         ("NAK" \in Answers /\ s \in {"SET_CONFIGURATION", "SET_FEATURE"}) =>
           no_remote_wakeup'[h]
  PROVE  DeviceInv(h)'
<1> USE DEF deviceVars, portVars, lockVars
<1>1. /\ state[h] \notin TransferStates /\ state[h] # "DELAY"
      /\ state[h] \notin NewStates \cup {"HALT", "SET_ADDRESS_DONE", "IDLE", "IN_RECV"}
      /\ ~(initial_check[h] /\ state[h] \in DescStates)
  <2>1. /\ Enumerating \cap TransferStates = {}
        /\ Enumerating \cap (NewStates \cup DescStates \cup
              {"HALT", "SET_ADDRESS_DONE", "IDLE", "DELAY", "IN_RECV"}) = {}
    BY StateSets DEF Enumerating, NewStates, DescStates
  <2>2. /\ "GET_DEVICE_DESC_RECV" \notin TransferStates
        /\ "GET_DEVICE_DESC_RECV" \notin NewStates
    BY DEF TransferStates, StageStates, NewStates
  <2> QED BY <2>1, <2>2
<1>2. /\ s \notin TransferStates /\ s # "DELAY"
      /\ s \notin {"SET_ADDRESS_DONE", "OUT_DONE"}
      /\ s \notin NewStates \cup DescStates \cup {"HALT"}
  <2>1. (Enumerating \cup {"DONE"}) \cap
          (TransferStates \cup NewStates \cup DescStates) = {}
    BY DEF Enumerating, TransferStates, StageStates, NewStates, DescStates
  <2>2. (Enumerating \cup {"DONE"}) \cap
          {"SET_ADDRESS_DONE", "OUT_DONE", "HALT", "DELAY"} = {}
    BY DEF Enumerating
  <2> QED BY <2>1, <2>2
<1>3. /\ AddressOf(h)' = AddressOf(h) /\ attach(h)' = attach(h)
      /\ USB_DEV_AD' = USB_DEV_AD /\ device_address' = device_address
      /\ device_toggle' = device_toggle
  BY DEF AddressOf, attach
<1>4. USB_DEV_AD = AddressOf(h)
  BY <1>1, Here DEF DescStates
<1>5. SpeedInv(h)'
  BY <1>1, <1>3, Here, Speed DEF DeviceInv
<1>6. attach(h) => device_address[h] = AddressOf(h)
  BY <1>1, Here
<1>7. attach(h) /\ s \notin NamedStates =>
        device_toggle'[h] = bulk_out_toggle'[h]
  <2>1. CASE state[h] = "SET_CONFIGURATION_DONE"
    <3>1. attach(h) => device_toggle[h] = FALSE
      BY <1>1, <2>1, Here DEF DeviceInv, ToggleInv
    <3>2. s \notin NamedStates => bulk_out_toggle'[h] = FALSE
      BY <2>1
    <3> QED BY <1>3, <3>1, <3>2
  <2>2. CASE state[h] # "SET_CONFIGURATION_DONE"
    BY <1>1, <1>3, <2>2, Here
  <2> QED BY <2>1, <2>2
<1>8. "NAK" \in Answers => ~do_not_retry'[h]
  BY <1>1, Here
<1> QED BY <1>2, <1>3, <1>4, <1>5, <1>6, <1>7, <1>8, Lands

\* A request of an enumeration is sent.
LEMMA Sending ==
  ASSUME TypeOK, HostInv, NEW h \in Hubs,
         \/ state[h] \in Enumerating
         \/ state[h] = "GET_DEVICE_DESC" /\ ~initial_check[h],
         NEW recv \in RecvStates \ {"SET_ADDRESS_DONE", "OUT_DONE"},
         NEW dir, NEW data, host_setup_transfer(h, dir, data, recv),
         UNCHANGED <<deviceVars, portVars, lockVars, templates,
                     bulk_out_toggle, no_remote_wakeup>>,
         "NAK" \in Answers => UNCHANGED do_not_retry,
         recv = "SET_CONFIGURATION_DONE" =>
           state[h] = "SET_CONFIGURATION" /\ dir = "OUT" /\ data = FALSE,
         recv \notin NamedStates => state[h] \notin NamedStates
  PROVE  DeviceInv(h)'
<1> USE DEF deviceVars, portVars, lockVars, templates
<1>1. /\ state[h] \notin TransferStates /\ state[h] # "DELAY"
      /\ state[h] \notin NewStates \cup {"HALT", "SET_ADDRESS_DONE", "IDLE", "IN_RECV"}
      /\ ~(initial_check[h] /\ state[h] \in DescStates)
  <2>1. /\ Enumerating \cap TransferStates = {}
        /\ Enumerating \cap (NewStates \cup DescStates \cup
              {"HALT", "SET_ADDRESS_DONE", "IDLE", "DELAY", "IN_RECV"}) = {}
    BY StateSets DEF Enumerating, NewStates, DescStates
  <2>2. /\ "GET_DEVICE_DESC" \notin TransferStates
        /\ "GET_DEVICE_DESC" \notin NewStates
    BY DEF TransferStates, StageStates, NewStates
  <2> QED BY <2>1, <2>2
<1>2. /\ AddressOf(h)' = AddressOf(h) /\ attach(h)' = attach(h)
      /\ USB_DEV_AD' = USB_DEV_AD /\ device_address' = device_address
      /\ device_toggle' = device_toggle /\ bulk_out_toggle' = bulk_out_toggle
      /\ initial_check' = initial_check
  BY DEF AddressOf, attach
<1>3. USB_DEV_AD = AddressOf(h) /\ ~initial_check[h]
  BY <1>1, Here, PortFacts DEF DescStates, HostInv
<1>4. SpeedInv(h)'
  BY <1>1, <1>2, Here, Speed DEF DeviceInv
<1>5. /\ goto(h, "TRANSACTION") /\ token' = "none"
      /\ transaction_recv_state' = recv /\ transaction_pid' = "SETUP"
      /\ transaction_stage' = 0 /\ transaction_size' = 0
      /\ tx_request' = [dir |-> dir, data |-> data]
  BY DEF host_setup_transfer, host_transact
<1>6. ShapeInv(h)'
  <2>1. At(h)' = "TRANSACTION"
    BY <1>5, MovesTo DEF moves
  <2>2. recv = "SET_CONFIGURATION_DONE" => NoDataShape(h)'
    BY <1>5, <2>1 DEF NoDataShape
  <2> QED BY <1>5, <2>2 DEF ShapeInv
<1>7. /\ attach(h) => device_address[h] = AddressOf(h)
      /\ attach(h) /\ recv \notin NamedStates =>
           device_toggle[h] = bulk_out_toggle[h]
  BY <1>1, Here
<1>8. "NAK" \in Answers =>
        /\ ~do_not_retry'[h]
        /\ recv = "SET_CONFIGURATION_DONE" => no_remote_wakeup'[h]
  BY <1>1, Here DEF DeviceInv, RetryInv
<1> QED BY <1>2, <1>3, <1>4, <1>5, <1>6, <1>7, <1>8, Transfers


\* The descriptor states: what is read there may come from any device.
LEMMA OwnDescriptors ==
  ASSUME GoodAnswers, TypeOK, HostInv, NEW h \in Hubs,
         \/ state_get_device_desc_recv(h) \/ state_get_string_desc(h)
         \/ state_get_string_desc_recv(h) \/ state_get_configuration_desc(h)
         \/ state_get_configuration_desc_recv(h)
  PROVE  DeviceInv(h)'
<1> USE DEF In, pause, moves
<1>1. CASE state_get_device_desc_recv(h)
  <2>1. PICK s \in {"GET_STRING_DESC"} : delay(h, s)
    BY <1>1 DEF state_get_device_desc_recv
  <2>2. /\ s \in Enumerating /\ s \in NamedStates /\ s \notin DescriptorStates
        /\ s \notin {"SET_CONFIGURATION_DONE", "SET_CONFIGURATION", "SET_FEATURE"}
    BY DEF Enumerating, NamedStates, DescriptorStates
  <2>3. state[h] = "GET_DEVICE_DESC_RECV"
        /\ ~initial_check[h]
        /\ UNCHANGED <<deviceVars, portVars, lockVars, do_not_retry>>
    BY <1>1 DEF state_get_device_desc_recv
  <2> QED BY <2>1, <2>2, <2>3, Stepping
<1>2. CASE state_get_string_desc(h) \/ state_get_configuration_desc(h)
  <2>1. /\ {"GET_STRING_DESC", "GET_CONFIGURATION_DESC"} \subseteq Enumerating
        /\ {"GET_STRING_DESC", "GET_STRING_DESC_RECV", "GET_CONFIGURATION_DESC",
            "GET_CONFIGURATION_DESC_RECV"} \subseteq NamedStates
        /\ {"GET_STRING_DESC_RECV", "GET_CONFIGURATION_DESC_RECV"}
             \subseteq RecvStates \ {"SET_ADDRESS_DONE", "OUT_DONE"}
        /\ "GET_CONFIGURATION_DESC" \notin DescriptorStates
    BY DEF Enumerating, NamedStates, DescriptorStates, RecvStates
  <2>2. \/ /\ state[h] = "GET_STRING_DESC" /\ goto(h, "GET_CONFIGURATION_DESC")
           /\ UNCHANGED <<deviceVars, portVars, lockVars, do_not_retry>>
        \/ /\ state[h] = "GET_STRING_DESC"
           /\ send(h, "IN", TRUE, "GET_STRING_DESC_RECV")
        \/ /\ state[h] = "GET_CONFIGURATION_DESC"
           /\ send(h, "IN", TRUE, "GET_CONFIGURATION_DESC_RECV")
    BY <1>2 DEF state_get_string_desc, state_get_configuration_desc
  <2>3. ASSUME NEW s, s = "GET_CONFIGURATION_DESC",
               state[h] = "GET_STRING_DESC", goto(h, s),
               UNCHANGED <<deviceVars, portVars, lockVars, do_not_retry>>
        PROVE  DeviceInv(h)'
    <3>1. /\ s \in Enumerating /\ s \in NamedStates /\ s \notin DescriptorStates
          /\ s \notin {"SET_CONFIGURATION_DONE", "SET_CONFIGURATION", "SET_FEATURE"}
      BY <2>3 DEF Enumerating, NamedStates, DescriptorStates
    <3> QED BY <2>1, <2>3, <3>1, Stepping
  <2>4. ASSUME NEW recv \in {"GET_STRING_DESC_RECV", "GET_CONFIGURATION_DESC_RECV"},
               state[h] \in Enumerating, send(h, "IN", TRUE, recv)
        PROVE  DeviceInv(h)'
    <3>1. host_setup_transfer(h, "IN", TRUE, recv)
          /\ UNCHANGED <<deviceVars, portVars, lockVars, templates,
                         bulk_out_toggle, no_remote_wakeup, do_not_retry>>
      BY <2>4 DEF send, deviceInfo
    <3> QED BY <2>1, <2>4, <3>1, Sending
  <2> QED BY <2>1, <2>2, <2>3, <2>4
<1>3. CASE state_get_string_desc_recv(h)
  <2>1. PICK s \in {"GET_STRING_DESC", "GET_CONFIGURATION_DESC"} : delay(h, s)
    BY <1>3 DEF state_get_string_desc_recv
  <2>2. /\ s \in Enumerating /\ s \in NamedStates /\ s \notin DescriptorStates
        /\ s \notin {"SET_CONFIGURATION_DONE", "SET_CONFIGURATION", "SET_FEATURE"}
        /\ "GET_STRING_DESC_RECV" \in Enumerating
    BY DEF Enumerating, NamedStates, DescriptorStates
  <2>3. state[h] = "GET_STRING_DESC_RECV"
        /\ UNCHANGED <<deviceVars, portVars, lockVars, do_not_retry>>
    BY <1>3 DEF state_get_string_desc_recv
  <2> QED BY <2>1, <2>2, <2>3, Stepping
<1>4. CASE state_get_configuration_desc_recv(h)
  <2>1. PICK s \in {"GET_CONFIGURATION_DESC", "SET_CONFIGURATION"} : delay(h, s)
    BY <1>4 DEF state_get_configuration_desc_recv
  <2>2. /\ s \in Enumerating /\ s \in NamedStates /\ s \notin DescriptorStates
        /\ s \notin {"SET_CONFIGURATION_DONE", "SET_FEATURE"}
        /\ "GET_CONFIGURATION_DESC_RECV" \in Enumerating
    BY DEF Enumerating, NamedStates, DescriptorStates
  <2>3. state[h] = "GET_CONFIGURATION_DESC_RECV"
        /\ UNCHANGED <<deviceVars, portVars, lockVars, do_not_retry>>
    BY <1>4 DEF state_get_configuration_desc_recv
  <2>4. "NAK" \in Answers /\ s = "SET_CONFIGURATION" => no_remote_wakeup'[h]
    <3> SUFFICES ASSUME "NAK" \in Answers, s = "SET_CONFIGURATION"
                 PROVE  no_remote_wakeup'[h]
      OBVIOUS
    <3>1. device[h] \in Devices
      BY <2>3, <1>4, AttachFact DEF HostInv, LockInv, state_get_configuration_desc_recv
    <3>2. \A desc \in Buffered(h) : ~desc.wakeup
      BY <3>1 DEF GoodAnswers, Buffered
    <3>3. ~delay(h, "GET_CONFIGURATION_DESC")
      BY <2>1 DEF delay, TypeOK
    <3>4. \E desc \in Buffered(h) :
             no_remote_wakeup' = [no_remote_wakeup EXCEPT ![h] = ~desc.wakeup]
      BY <1>4, <3>3 DEF state_get_configuration_desc_recv
    <3> QED BY <3>2, <3>4 DEF TypeOK
  <2> QED BY <2>1, <2>2, <2>3, <2>4, Stepping
<1> QED BY <1>1, <1>2, <1>3, <1>4


\* The device is configured, and set up further if it is a HID or a hub.
LEMMA OwnSetups ==
  ASSUME GoodAnswers, TypeOK, HostInv, NEW h \in Hubs,
         \/ state_set_configuration(h) \/ state_set_configuration_done(h)
         \/ state_set_feature(h) \/ state_extra_setup(h)
         \/ state_get_hid_report_desc(h)
         \/ state_hid_set_protocol(h) \/ state_hid_set_protocol_done(h)
         \/ state_get_hub_desc(h) \/ state_get_hub_desc_recv(h)
         \/ state_set_port_power_feature(h)
         \/ state_set_port_power_feature_done(h)
         \/ state_clear_port_connection_feature(h)
         \/ state_clear_port_connection_feature_done(h)
  PROVE  DeviceInv(h)'
<1> DEFINE still == UNCHANGED <<deviceVars, portVars, lockVars, do_not_retry>>
           Later == Enumerating \ NamedStates
           Following == {"SET_FEATURE", "EXTRA_SETUP", "GET_HID_REPORT_DESC",
                    "HID_SET_PROTOCOL", "GET_HUB_DESC", "DONE",
                    "SET_PORT_POWER_FEATURE", "CLEAR_PORT_CONNECTION_FEATURE"}
           Answer == {"EXTRA_SETUP", "DONE", "GET_HID_REPORT_DESC_RECV",
                      "HID_SET_PROTOCOL_DONE", "GET_HUB_DESC_RECV",
                      "SET_PORT_POWER_FEATURE_DONE",
                      "CLEAR_PORT_CONNECTION_FEATURE_DONE"}
<1>1. /\ \A s \in Following : /\ s \in Enumerating \cup {"DONE"}
                         /\ s \notin NamedStates /\ s \notin DescriptorStates
                         /\ s \notin {"SET_CONFIGURATION_DONE", "SET_CONFIGURATION"}
      /\ \A s \in Answer : /\ s \in RecvStates /\ s \notin NamedStates
                           /\ s \notin {"SET_ADDRESS_DONE", "OUT_DONE",
                                        "SET_CONFIGURATION_DONE"}
  <2>1. \A s \in Following : /\ s \in Enumerating \cup {"DONE"}
                        /\ s \notin NamedStates /\ s \notin DescriptorStates
                        /\ s \notin {"SET_CONFIGURATION_DONE", "SET_CONFIGURATION"}
    BY DEF Enumerating, NamedStates, DescStates, DescriptorStates
  <2>2. \A s \in Answer : /\ s \in RecvStates /\ s \notin NamedStates
                          /\ s \notin {"SET_ADDRESS_DONE", "OUT_DONE",
                                       "SET_CONFIGURATION_DONE"}
    BY DEF RecvStates, NamedStates, DescStates
  <2> QED BY <2>1, <2>2
<1>2. {"SET_FEATURE", "EXTRA_SETUP", "GET_HID_REPORT_DESC", "HID_SET_PROTOCOL",
       "HID_SET_PROTOCOL_DONE", "GET_HUB_DESC", "GET_HUB_DESC_RECV",
       "SET_PORT_POWER_FEATURE", "SET_PORT_POWER_FEATURE_DONE",
       "CLEAR_PORT_CONNECTION_FEATURE",
       "CLEAR_PORT_CONNECTION_FEATURE_DONE"} \subseteq Later
  BY DEF Enumerating, NamedStates, DescStates
<1>3. ASSUME NEW s \in Following \ {"SET_FEATURE"}, moves(h, s), state[h] \in Later,
             still, UNCHANGED bulk_out_toggle
      PROVE  DeviceInv(h)'
  <2>1. state[h] # "SET_CONFIGURATION_DONE" /\ state[h] \notin NamedStates
    BY <1>3 DEF NamedStates
  <2> QED BY <1>1, <1>3, <2>1, Stepping
<1>4. ASSUME NEW recv \in Answer, NEW dir, NEW data, state[h] \in Later,
             host_setup_transfer(h, dir, data, recv),
             UNCHANGED <<deviceVars, portVars, lockVars, templates,
                         bulk_out_toggle, no_remote_wakeup>>,
             "NAK" \in Answers => UNCHANGED do_not_retry
      PROVE  DeviceInv(h)'
  BY <1>1, <1>4, Sending
<1>5. ASSUME NEW recv \in Answer, NEW dir, NEW data, state[h] \in Later,
             send(h, dir, data, recv)
      PROVE  DeviceInv(h)'
  BY <1>4, <1>5 DEF send, deviceInfo
<1>6. ASSUME NEW s \in Following \ {"SET_FEATURE"}, pause(h, s), state[h] \in Later,
             UNCHANGED <<portVars, lockVars, bulk_out_toggle>>
      PROVE  DeviceInv(h)'
  BY <1>3, <1>6 DEF pause, moves
<1> USE DEF In
<1>7. CASE state_set_configuration(h)
  <2>1. /\ "SET_CONFIGURATION_DONE" \in RecvStates \ {"SET_ADDRESS_DONE", "OUT_DONE"}
        /\ "SET_CONFIGURATION_DONE" \in NamedStates
        /\ "SET_CONFIGURATION" \in Enumerating
    BY DEF RecvStates, NamedStates, Enumerating
  <2>2. /\ state[h] = "SET_CONFIGURATION"
        /\ host_setup_transfer(h, "OUT", FALSE, "SET_CONFIGURATION_DONE")
        /\ UNCHANGED <<deviceVars, portVars, lockVars, templates,
                       bulk_out_toggle, no_remote_wakeup, do_not_retry>>
    BY <1>7 DEF state_set_configuration, send, deviceInfo
  <2> QED BY <2>1, <2>2, Sending
<1>8. CASE state_set_configuration_done(h)
  <2>1. PICK s \in {"SET_FEATURE"} : delay(h, s)
    BY <1>8 DEF state_set_configuration_done, pause
  <2>2. state[h] = "SET_CONFIGURATION_DONE" /\ still /\ bulk_out_toggle'[h] = FALSE
    <3>1. state[h] = "SET_CONFIGURATION_DONE" /\ still
      BY <1>8 DEF state_set_configuration_done, pause
    <3>2. bulk_out_toggle'[h] = FALSE
      BY <1>8, Zenon DEF state_set_configuration_done, TypeOK
    <3> QED BY <3>1, <3>2
  <2>3. "SET_CONFIGURATION_DONE" \in Enumerating
    BY DEF Enumerating
  <2>4. "NAK" \in Answers => no_remote_wakeup'[h]
    <3>1. "SET_CONFIGURATION_DONE" \notin TransferStates
      BY DEF TransferStates, StageStates
    <3>2. Serving(h) = "SET_CONFIGURATION_DONE" /\ DeviceInv(h)
      BY <2>2, <3>1, Here
    <3>3. UNCHANGED no_remote_wakeup
      BY <1>8 DEF state_set_configuration_done, deviceInfo
    <3> QED BY <3>2, <3>3 DEF DeviceInv, RetryInv
  <2> QED BY <1>1, <2>1, <2>2, <2>3, <2>4, Stepping DEF moves
<1>9. CASE state_set_feature(h)
  <2>1. PICK next \in {"EXTRA_SETUP", "DONE"} :
          IF no_remote_wakeup[h]
          THEN goto(h, next) /\ UNCHANGED do_not_retry
          ELSE host_setup_transfer(h, "OUT", FALSE, next)
    BY <1>9 DEF state_set_feature
  <2>2. state[h] = "SET_FEATURE"
        /\ UNCHANGED <<deviceVars, portVars, lockVars, templates,
                       bulk_out_toggle, no_remote_wakeup>>
    BY <1>9 DEF state_set_feature, deviceInfo
  <2>3. CASE no_remote_wakeup[h]
    BY <1>2, <1>3, <2>1, <2>2, <2>3 DEF moves
  <2>4. CASE ~no_remote_wakeup[h]
    <3>1. "SET_FEATURE" \notin TransferStates
      BY DEF TransferStates, StageStates
    <3>2. "NAK" \notin Answers
      BY <2>2, <2>4, <3>1, Here DEF DeviceInv, RetryInv
    <3> QED BY <1>2, <1>4, <2>1, <2>2, <2>4, <3>2
  <2> QED BY <2>3, <2>4
<1>10. CASE state_extra_setup(h)
  <2>1. \E s \in Following \ {"SET_FEATURE"} : pause(h, s)
    BY <1>10 DEF state_extra_setup
  <2> QED BY <1>2, <1>6, <1>10, <2>1 DEF state_extra_setup
<1>11. CASE state_hid_set_protocol_done(h)
  <2>1. \E s \in Following \ {"SET_FEATURE"} : pause(h, s)
    BY <1>11 DEF state_hid_set_protocol_done
  <2> QED BY <1>2, <1>6, <1>11, <2>1 DEF state_hid_set_protocol_done
<1>12. CASE state_get_hub_desc_recv(h)
  <2>1. \E s \in Following \ {"SET_FEATURE"} : pause(h, s)
    BY <1>12 DEF state_get_hub_desc_recv
  <2> QED BY <1>2, <1>6, <1>12, <2>1 DEF state_get_hub_desc_recv
<1>13. CASE state_set_port_power_feature_done(h)
  BY <1>2, <1>6, <1>13 DEF state_set_port_power_feature_done, next_port
<1>14. CASE state_clear_port_connection_feature_done(h)
  BY <1>2, <1>6, <1>14 DEF state_clear_port_connection_feature_done, next_port
<1>15. CASE state_get_hid_report_desc(h)
  BY <1>2, <1>5, <1>15 DEF state_get_hid_report_desc
<1>16. CASE state_hid_set_protocol(h)
  BY <1>2, <1>5, <1>16 DEF state_hid_set_protocol
<1>17. CASE state_get_hub_desc(h)
  BY <1>2, <1>5, <1>17 DEF state_get_hub_desc
<1>18. CASE state_set_port_power_feature(h)
  BY <1>2, <1>5, <1>6, <1>18 DEF state_set_port_power_feature
<1>19. CASE state_clear_port_connection_feature(h)
  <2>1. \/ /\ goto(h, "DONE") /\ state[h] \in Later /\ still
           /\ UNCHANGED bulk_out_toggle
        \/ state[h] \in Later
           /\ send(h, "OUT", FALSE, "CLEAR_PORT_CONNECTION_FEATURE_DONE")
    BY <1>2, <1>19 DEF state_clear_port_connection_feature
  <2> QED BY <1>3, <1>5, <2>1 DEF moves
<1> QED BY <1>7, <1>8, <1>9, <1>10, <1>11, <1>12, <1>13, <1>14, <1>15, <1>16,
           <1>17, <1>18, <1>19


\* Polls that find nothing to do, and the end of a delay.
LEMMA OwnWaits ==
  ASSUME TypeOK, HostInv, NEW h \in Hubs, Wait(h) \/ DelayEnds(h)
  PROVE  DeviceInv(h)'
<1>1. /\ UNCHANGED <<deviceInfo, portVars, transferVars, lockVars, templates,
                     deviceVars, do_not_retry, bulk_out_toggle, outcome>>
      /\ DeviceInv(h) /\ ResetPort(h)
  BY DEF Wait, DelayEnds, HostInv, LockInv, ResetInv
<1> USE DEF deviceInfo, portVars, transferVars, lockVars, templates, deviceVars
<1>2. CASE Wait(h)
  <2>1. UNCHANGED delayVars /\ state[h] \notin DescriptorStates
    <3>1. {"READY", "HALT", "DELAY", "IDLE", "ENABLE", "TRANSACTION",
           "SET_ADDRESS", "GET_DEVICE_DESC"} \cap DescriptorStates = {}
      BY DEF DescriptorStates
    <3> QED BY <1>2, <3>1 DEF Wait
  <2>2. /\ At(h)' = At(h) /\ Busy(h)' = Busy(h) /\ Serving(h)' = Serving(h)
        /\ New(h)' = New(h) /\ Known(h)' = Known(h)
        /\ Configured(h)' = Configured(h) /\ OnBus(h)' = OnBus(h)
        /\ Accepts(h, "IN")' = Accepts(h, "IN")
        /\ Accepts(h, "OUT")' = Accepts(h, "OUT")
        /\ state'[h] = state[h] /\ delay_next_state'[h] = delay_next_state[h]
        /\ attach(h)' = attach(h) /\ AddressOf(h)' = AddressOf(h)
        /\ NoDataShape(h)' = NoDataShape(h)
    BY <1>1, <2>1 DEF At, Busy, Serving, New, Known, Configured, OnBus, Accepts,
       attach, AddressOf, NoDataShape, delayVars
  <2>3. ShapeInv(h)' /\ AnswerInv(h)' /\ AddressInv(h)' /\ RegisterInv(h)'
    BY <1>1, <2>2 DEF DeviceInv, ShapeInv, AnswerInv, AddressInv, RegisterInv
  <2>4. ToggleInv(h)' /\ SpeedInv(h)'
    BY <1>1, <2>2 DEF DeviceInv, ToggleInv, SpeedInv
  <2>5. RetryInv(h)'
    BY <1>1, <2>1, <2>2 DEF DeviceInv, RetryInv
  <2> QED BY <2>3, <2>4, <2>5 DEF DeviceInv
<1>3. CASE DelayEnds(h)
  <2>1. /\ state[h] = "DELAY" /\ state'[h] = delay_next_state[h]
        /\ delay_next_state'[h] = "IDLE"
        /\ delay_next_state[h] \notin {"DELAY", "TRANSACTION", "SET_ADDRESS_DONE"}
        /\ delay_next_state[h] \notin DescriptorStates
    BY <1>1, <1>3 DEF DelayEnds, In, goto, ResetPort, DeviceInv, RetryInv, TypeOK
  <2>2. At(h) = delay_next_state[h] /\ At(h)' = delay_next_state[h]
    BY <2>1 DEF At
  <2>3. "IDLE" \notin DescriptorStates
    BY DEF DescriptorStates
  <2>4. /\ Busy(h)' = Busy(h) /\ Serving(h)' = Serving(h)
        /\ New(h)' = New(h) /\ Known(h)' = Known(h)
        /\ Configured(h)' = Configured(h) /\ OnBus(h)' = OnBus(h)
        /\ ~Accepts(h, "IN")' /\ ~Accepts(h, "IN")
        /\ ~Accepts(h, "OUT")' /\ ~Accepts(h, "OUT")
        /\ attach(h)' = attach(h) /\ AddressOf(h)' = AddressOf(h)
        /\ NoDataShape(h)' = NoDataShape(h)
    BY <1>1, <2>1, <2>2 DEF Busy, Serving, New, Known, Configured, OnBus,
       Accepts, attach, AddressOf, NoDataShape
  <2>5. ShapeInv(h)' /\ AnswerInv(h)' /\ AddressInv(h)' /\ RegisterInv(h)'
    BY <1>1, <2>1, <2>2, <2>4
       DEF DeviceInv, ShapeInv, AnswerInv, AddressInv, RegisterInv
  <2>6. ToggleInv(h)'
    BY <1>1, <2>4 DEF DeviceInv, ToggleInv
  <2>7. RetryInv(h)'
    BY <1>1, <2>1, <2>3, <2>4 DEF DeviceInv, RetryInv
  <2>8. SpeedInv(h)'
    BY <1>1, <2>1, <2>4 DEF DeviceInv, SpeedInv
  <2> QED BY <2>5, <2>6, <2>7, <2>8 DEF DeviceInv
<1> QED BY <1>2, <1>3

\* A device that has gone.
LEMMA OwnDisconnect ==
  ASSUME GoodAnswers, TypeOK, HostInv, NEW h \in Hubs, Disconnect(h)
  PROVE  DeviceInv(h)'
<1>1. "IDLE" \notin TransferStates \cup DescriptorStates /\ "IDLE" \in NewStates
  BY DEF TransferStates, StageStates, DescriptorStates, NewStates
<1>2. ~attach(h)' /\ goto(h, "IDLE") /\ Unpluggable # {}
  BY DEF Disconnect, Detached, attach, deviceVars, HostInv, DeviceInv, SpeedInv
<1>3. SpeedInv(h)' /\ "NAK" \notin Answers
  BY <1>2 DEF SpeedInv, GoodAnswers
<1> QED BY <1>1, <1>2, <1>3, Lands DEF moves

\* From the bus reset to the first request.
LEMMA OwnResets ==
  ASSUME TypeOK, HostInv, NEW h \in Hubs,
         \/ state_idle(h) \/ state_connect(h) \/ state_reset(h)
         \/ state_enable(h) \/ InitialCheckDone(h)
  PROVE  DeviceInv(h)'
<1>1. /\ DescStates \cap TransferStates = {}
      /\ NewStates \cap (TransferStates \cup DescriptorStates) = {}
      /\ "GET_DEVICE_DESC" \notin NewStates \cup DescriptorStates
  BY DEF DescStates, TransferStates, StageStates, DescriptorStates, NewStates
<1>2. /\ \/ state[h] \in {"IDLE", "CONNECT", "RESET", "ENABLE"}
         \/ state[h] = "GET_DEVICE_DESC_RECV" /\ initial_check[h]
      /\ state[h] \notin TransferStates /\ New(h) /\ DeviceInv(h)
      /\ ~attach(h) \/ device_address[h] = 0
      /\ "NAK" \in Answers => ~do_not_retry[h]
      /\ state[h] # "GET_DEVICE_DESC_RECV" => transaction_lock # h
      /\ state[h] # "IDLE" \/ attach(h)
  <2>1. \/ state[h] \in {"IDLE", "CONNECT", "RESET", "ENABLE"}
        \/ state[h] = "GET_DEVICE_DESC_RECV" /\ initial_check[h]
    BY DEF state_idle, state_connect, state_reset, state_enable,
       InitialCheckDone, In
  <2>2. state[h] # "IDLE" \/ attach(h)
    BY DEF state_idle, state_connect, state_reset, state_enable,
       InitialCheckDone, In
  <2>3. state[h] \notin TransferStates
    BY <1>1, <2>1 DEF NewStates, DescStates
  <2>4. New(h) /\ DeviceInv(h)
    BY <2>1, <2>3, Here DEF NewStates, DescStates
  <2>5. /\ ~attach(h) \/ device_address[h] = 0
        /\ "NAK" \in Answers => ~do_not_retry[h]
    BY <2>1, <2>3, <2>4, Here
  <2>6. state[h] # "GET_DEVICE_DESC_RECV" => transaction_lock # h
    BY <2>1, PortFacts DEF HostInv
  <2> QED BY <2>1, <2>2, <2>3, <2>4, <2>5, <2>6
<1>3. PICK s \in NewStates \cup {"GET_DEVICE_DESC"} :
        /\ delay(h, s)
        /\ s = "GET_DEVICE_DESC" => initial_check'[h]
  <2>1. {"CONNECT", "RESET", "ENABLE", "SET_ADDRESS"} \subseteq NewStates
        /\ "GET_DEVICE_DESC" \notin NewStates
    BY DEF NewStates
  <2>2. state_idle(h) => delay(h, "CONNECT")
    BY DEF state_idle, pause
  <2>3. state_connect(h) \/ InitialCheckDone(h) => delay(h, "RESET")
    BY DEF state_connect, InitialCheckDone, bus_reset
  <2>4. state_reset(h) => delay(h, "ENABLE")
    BY DEF state_reset, pause
  <2>5. state_enable(h) => \/ delay(h, "SET_ADDRESS")
                           \/ delay(h, "GET_DEVICE_DESC") /\ initial_check'[h]
    BY DEF state_enable, pause
  <2> QED BY <2>1, <2>2, <2>3, <2>4, <2>5
<1>4. /\ s \notin TransferStates \cup DescriptorStates /\ s # "DELAY"
      /\ s \notin {"SET_ADDRESS_DONE", "SET_CONFIGURATION_DONE", "OUT_DONE",
                   "HALT", "READY", "DONE", "SET_CONFIGURATION", "SET_FEATURE"}
      /\ s \in NewStates \/ (initial_check'[h] /\ s \in DescStates)
  BY <1>1, <1>3 DEF NewStates, DescStates
<1>5. /\ attach(h)' = attach(h) /\ UNCHANGED do_not_retry
      /\ attach(h) => device_address'[h] = 0
      /\ \/ UNCHANGED <<transaction_lock, USB_CTRL>>
         \/ transaction_lock' # h
  <2>1. ASSUME NEW check, bus_reset(h, check)
        PROVE  /\ attach(h)' = attach(h) /\ UNCHANGED do_not_retry
               /\ device_address'[h] = 0
    BY <2>1 DEF bus_reset, attach, TypeOK
  <2>2. InitialCheckDone(h) => transaction_lock' # h
    BY HubFacts DEF InitialCheckDone, unlock_transaction
  <2>3. ASSUME NEW t, pause(h, t)
        PROVE  /\ attach(h)' = attach(h) /\ UNCHANGED do_not_retry
               /\ attach(h) => device_address'[h] = 0
    BY <1>2, <2>3 DEF pause, deviceVars, attach
  <2>4. state_connect(h) \/ InitialCheckDone(h) =>
          \E check : bus_reset(h, check)
    BY DEF state_connect, InitialCheckDone
  <2>5. state_idle(h) \/ state_reset(h) \/ state_enable(h) => \E t : pause(h, t)
    BY DEF state_idle, state_reset, state_enable
  <2>6. ~InitialCheckDone(h) => UNCHANGED <<transaction_lock, USB_CTRL>>
    BY DEF state_idle, state_connect, state_reset, state_enable, lockVars
  <2> QED BY <2>1, <2>2, <2>3, <2>4, <2>5, <2>6
<1>6. SpeedInv(h)'
  <2>1. transaction_lock' # h
    <3>1. InitialCheckDone(h) => transaction_lock' # h
      BY HubFacts DEF InitialCheckDone, unlock_transaction
    <3>2. ~InitialCheckDone(h) =>
            UNCHANGED transaction_lock /\ state[h] # "GET_DEVICE_DESC_RECV"
      BY DEF state_idle, state_connect, state_reset, state_enable, lockVars, In
    <3> QED BY <1>2, <3>1, <3>2
  <2> QED BY <1>2, <1>5, <2>1, Speed DEF DeviceInv
<1> QED BY <1>2, <1>3, <1>4, <1>5, <1>6, Lands DEF moves


\* The address, and the first read of the device descriptor.
LEMMA OwnAddress ==
  ASSUME TypeOK, HostInv, NEW h \in Hubs,
         \/ state_set_address(h) \/ state_set_address_done(h)
         \/ state_get_device_desc(h)
  PROVE  DeviceInv(h)'
<1> USE DEF In, deviceVars, portVars, lock_transaction
<1>1. {"SET_ADDRESS", "SET_ADDRESS_DONE", "GET_DEVICE_DESC"}
        \cap TransferStates = {}
  BY DEF TransferStates, StageStates
<1>2. /\ state[h] \in {"SET_ADDRESS", "SET_ADDRESS_DONE", "GET_DEVICE_DESC"}
      /\ state[h] \notin TransferStates /\ DeviceInv(h) /\ Serving(h) = state[h]
      /\ ~Busy(h)
      /\ "NAK" \in Answers => ~do_not_retry[h]
      /\ state[h] # "GET_DEVICE_DESC" => ~initial_check[h]
  <2>1. state[h] \in {"SET_ADDRESS", "SET_ADDRESS_DONE", "GET_DEVICE_DESC"}
    BY DEF state_set_address, state_set_address_done, state_get_device_desc
  <2> QED BY <1>1, <2>1, Here, PortFacts DEF HostInv
<1>3. /\ UNCHANGED <<deviceVars, portVars, do_not_retry>>
      /\ attach(h)' = attach(h) /\ AddressOf(h)' = AddressOf(h)
  BY DEF state_set_address, state_set_address_done, state_get_device_desc,
     pause, attach, AddressOf
<1>4. SpeedInv(h)'
  <2>1. \/ USB_CTRL' = UHUB_CTRL[h]
        \/ UNCHANGED <<transaction_lock, USB_CTRL>>
    BY DEF state_set_address, state_set_address_done, state_get_device_desc,
       lockVars
  <2> QED BY <1>2, <1>3, <2>1, Speed DEF DeviceInv
<1>5. goto(h, "TRANSACTION") => At(h)' = "TRANSACTION"
  BY MovesTo DEF moves
<1>6. CASE state_set_address(h)
  <2>1. /\ state[h] = "SET_ADDRESS" /\ USB_DEV_AD' = 0
        /\ address' = AddressOf(h)
        /\ goto(h, "TRANSACTION") /\ token' = "none"
        /\ transaction_recv_state' = "SET_ADDRESS_DONE"
        /\ transaction_pid' = "SETUP"
        /\ transaction_stage' = 0 /\ transaction_size' = 0
        /\ tx_request' = [dir |-> "OUT", data |-> FALSE]
    BY <1>6 DEF state_set_address, host_setup_transfer, host_transact
  <2>2. attach(h) => device_address[h] = 0
    BY <1>1, <2>1, Here DEF NewStates
  <2>3. /\ "SET_ADDRESS_DONE" \in RecvStates
        /\ "SET_ADDRESS_DONE" \notin {"OUT_DONE", "IN_RECV", "SET_CONFIGURATION_DONE"}
    BY DEF RecvStates
  <2>4. ShapeInv(h)'
    BY <1>5, <2>1, <2>3 DEF ShapeInv, NoDataShape
  <2> QED BY <1>2, <1>3, <1>4, <1>5, <2>1, <2>2, <2>3, <2>4, Transfers
<1>7. CASE state_set_address_done(h)
  <2>1. /\ state[h] = "SET_ADDRESS_DONE" /\ delay(h, "GET_DEVICE_DESC")
        /\ transaction_lock \in {h, NoHub}
        /\ USB_DEV_AD' = address
    BY <1>7, PortFacts DEF state_set_address_done, pause, HostInv
  <2>2. /\ attach(h) => device_address[h] = AddressOf(h)
        /\ address = AddressOf(h)
    BY <1>2, <2>1 DEF DeviceInv, AddressInv, RegisterInv
  <2>3. ~initial_check'[h]
    BY <1>2, <1>3, <2>1
  <2>4. PICK s : s = "GET_DEVICE_DESC" /\ delay(h, s)
    BY <2>1
  <2>5. /\ s \notin TransferStates \cup DescriptorStates \cup NewStates /\ s # "DELAY"
        /\ s \in NamedStates
        /\ s \notin {"SET_ADDRESS_DONE", "SET_CONFIGURATION_DONE", "OUT_DONE",
                     "SET_CONFIGURATION", "SET_FEATURE"}
    BY <1>1, <2>4 DEF DescriptorStates, NewStates, NamedStates, DescStates
  <2> QED BY <1>2, <1>3, <1>4, <2>1, <2>2, <2>3, <2>4, <2>5, Lands DEF moves
<1>8. CASE state_get_device_desc(h)
  <2>1. /\ state[h] = "GET_DEVICE_DESC"
        /\ goto(h, "TRANSACTION") /\ token' = "none"
        /\ transaction_recv_state' = "GET_DEVICE_DESC_RECV"
    BY <1>8 DEF state_get_device_desc, host_setup_transfer, host_transact
  <2>2. /\ "GET_DEVICE_DESC_RECV" \in RecvStates
        /\ "GET_DEVICE_DESC_RECV" \in DescStates
        /\ "GET_DEVICE_DESC_RECV" \in NamedStates
        /\ "GET_DEVICE_DESC" \in DescStates
        /\ "GET_DEVICE_DESC" \notin NewStates \cup {"HALT", "SET_ADDRESS_DONE"}
    BY DEF RecvStates, DescStates, NamedStates, NewStates
  <2>3. ShapeInv(h)'
    BY <1>5, <2>1 DEF ShapeInv
  <2>4. CASE initial_check[h]
    <3>1. USB_DEV_AD' = 0 /\ (attach(h) => device_address[h] = 0)
      BY <1>1, <1>8, <2>1, <2>2, <2>4, Here DEF state_get_device_desc
    <3> QED BY <1>2, <1>3, <1>4, <1>5, <2>1, <2>2, <2>3, <2>4, <3>1, Transfers
  <2>5. CASE ~initial_check[h]
    <3>1. /\ USB_DEV_AD' = AddressOf(h)
          /\ attach(h) => device_address[h] = AddressOf(h)
      BY <1>1, <1>8, <2>1, <2>2, <2>5, Here DEF state_get_device_desc, lockVars
    <3> QED BY <1>2, <1>3, <1>4, <1>5, <2>1, <2>2, <2>3, <2>5, <3>1, Transfers
  <2> QED BY <2>4, <2>5
<1> QED BY <1>6, <1>7, <1>8

\* The port is ready, or has given up.
LEMMA OwnReleases ==
  ASSUME TypeOK, HostInv, NEW h \in Hubs,
         \/ EnumerationEnds(h) \/ ReportArrives(h) \/ state_out_done(h)
         \/ TransferFails(h)
  PROVE  DeviceInv(h)'
<1> USE DEF In, deviceVars, portVars
<1>1. /\ DeviceInv(h) /\ UNCHANGED <<deviceVars, portVars, bulk_out_toggle>>
      /\ attach(h)' = attach(h) /\ AddressOf(h)' = AddressOf(h)
      /\ state[h] # "IDLE"
      /\ \/ UNCHANGED <<transaction_lock, USB_CTRL>>
         \/ transaction_lock' # h
  BY HubFacts DEF HostInv, EnumerationEnds, ReportArrives, state_out_done,
     TransferFails, Ended, pause, unlock_transaction, attach, AddressOf
<1>2. SpeedInv(h)'
  BY <1>1, Speed DEF DeviceInv
<1>3. /\ {"HALT", "READY"} \cap (TransferStates \cup DescriptorStates) = {}
      /\ {"HALT", "READY"} \cap (NewStates \cup NamedStates) = {}
  BY DEF TransferStates, StageStates, DescriptorStates, NewStates, NamedStates,
     DescStates
<1>4. CASE TransferFails(h)
  <2>1. PICK s : s = "HALT" /\ goto(h, s)
    BY <1>4 DEF TransferFails
  <2> QED BY <1>2, <1>3, <2>1, Lands DEF moves, DescStates, NewStates
<1>5. CASE EnumerationEnds(h) \/ ReportArrives(h) \/ state_out_done(h)
  <2>1. PICK s : s = "READY" /\ delay(h, s)
    BY <1>5 DEF EnumerationEnds, ReportArrives, state_out_done, pause
  <2>2. /\ state[h] \in ReleaseStates \ {"SET_ADDRESS_DONE"}
        /\ state[h] \notin TransferStates
        /\ state[h] \notin NewStates \cup {"HALT", "SET_ADDRESS_DONE"}
        /\ state[h] \notin NamedStates
        /\ state[h] \notin DescStates
        /\ state[h] # "DELAY"
    <3>1. state[h] \in ReleaseStates \ {"SET_ADDRESS_DONE"}
      BY <1>5 DEF EnumerationEnds, ReportArrives, state_out_done, ReleaseStates
    <3>2. (ReleaseStates \ {"SET_ADDRESS_DONE"}) \cap
             (TransferStates \cup NewStates \cup NamedStates) = {}
      BY DEF ReleaseStates, TransferStates, StageStates, NewStates, NamedStates,
         DescStates
    <3>3. (ReleaseStates \ {"SET_ADDRESS_DONE"}) \cap
             (DescStates \cup {"HALT", "DELAY"}) = {}
      BY DEF ReleaseStates, DescStates
    <3> QED BY <3>1, <3>2, <3>3
  <2>3. attach(h) => /\ device_address[h] = AddressOf(h)
                     /\ device_toggle[h] = bulk_out_toggle[h]
    BY <2>2, Here
  <2>4. "NAK" \in Answers => ~do_not_retry'[h]
    <3>1. ReportArrives(h) => do_not_retry'[h] = FALSE
      BY DEF ReportArrives, TypeOK
    <3>2. ~ReportArrives(h) =>
            UNCHANGED do_not_retry /\ state[h] \notin {"IN_RECV", "HALT"}
      BY <1>5 DEF EnumerationEnds, state_out_done, pause
    <3> QED BY <2>2, <3>1, <3>2, Here
  <2> QED BY <1>1, <1>2, <1>3, <2>1, <2>3, <2>4, Lands DEF moves, DescStates
<1> QED BY <1>4, <1>5


\* What a port knows that is in a transfer.
LEMMA There ==
  ASSUME TypeOK, HostInv, NEW h \in Hubs, state[h] \in TransferStates
  PROVE  /\ At(h) = state[h] /\ Busy(h) /\ Serving(h) = transaction_recv_state
         /\ transaction_recv_state \in RecvStates
         /\ transaction_recv_state \notin NewStates \cup {"HALT"}
         /\ DeviceInv(h) /\ transaction_lock = h
         /\ USB_DEV_AD =
              IF \/ initial_check[h] /\ transaction_recv_state \in DescStates
                 \/ transaction_recv_state = "SET_ADDRESS_DONE"
              THEN 0 ELSE AddressOf(h)
<1>1. /\ At(h) = state[h] /\ Busy(h) /\ Serving(h) = transaction_recv_state
      /\ DeviceInv(h) /\ transaction_recv_state \in RecvStates
      /\ transaction_lock = h
  BY StateFacts, PortFacts DEF At, Busy, Serving, HostInv
<1>2. transaction_recv_state \notin NewStates \cup {"HALT"}
  <2>1. RecvStates \cap (NewStates \cup {"HALT"}) = {}
    BY DEF RecvStates, NewStates
  <2> QED BY <1>1, <2>1
<1>3. OnBus(h)
  BY <1>1, StateSets DEF OnBus
<1> QED BY <1>1, <1>2, <1>3 DEF DeviceInv, RegisterInv, New, Known

\* A transfer that goes on: everything but its stage is what it was.
LEMMA GoesOn ==
  ASSUME TypeOK, HostInv, NEW h \in Hubs, state[h] \in TransferStates,
         \/ goto(h, "TRANSACTION") /\ token' = "none"
         \/ \E s \in StageStates : delay(h, s),
         transaction_recv_state = "SET_ADDRESS_DONE" => ~Accepts(h, "IN"),
         transaction_recv_state = "OUT_DONE" => ~Accepts(h, "OUT"),
         ShapeInv(h)',
         UNCHANGED <<deviceInfo, portVars, lockVars, templates, deviceVars,
                     transaction_recv_state, do_not_retry, bulk_out_toggle>>
  PROVE  DeviceInv(h)'
<1> USE There
<1> USE DEF portVars, lockVars, templates, deviceVars, deviceInfo
<1>1. attach(h)' = attach(h) /\ AddressOf(h)' = AddressOf(h)
  BY DEF attach, AddressOf
<1>2. SpeedInv(h)'
  <2>1. state[h] # "IDLE"
    BY StateFacts DEF NewStates
  <2> QED BY <1>1, <2>1, Speed DEF DeviceInv
<1>3. attach(h) =>
        IF \/ initial_check[h] /\ transaction_recv_state \in DescStates
           \/ transaction_recv_state = "SET_ADDRESS_DONE"
        THEN device_address[h] = 0
        ELSE device_address[h] = AddressOf(h)
  BY DEF DeviceInv, AddressInv, New, Known
<1>4. /\ attach(h) /\ transaction_recv_state \notin NamedStates
      /\ ~(initial_check[h] /\ transaction_recv_state \in DescStates)
      /\ transaction_recv_state # "SET_ADDRESS_DONE"
      => device_toggle[h] = bulk_out_toggle[h]
  BY DEF DeviceInv, ToggleInv, Configured, Known, New
<1>5. /\ transaction_recv_state = "SET_ADDRESS_DONE" => address = AddressOf(h)
      /\ "NAK" \in Answers =>
           /\ do_not_retry[h] => transaction_recv_state = "IN_RECV"
           /\ transaction_recv_state = "SET_CONFIGURATION_DONE" =>
                no_remote_wakeup[h]
  BY DEF DeviceInv, RegisterInv, RetryInv
<1> QED BY <1>1, <1>2, <1>3, <1>4, <1>5, Transfers

\* The next stage, the next packet, the same packet again.
LEMMA OwnRepeats ==
  ASSUME TypeOK, HostInv, NEW h \in Hubs,
         \/ NextStage(h) \/ state_transaction_cont(h)
         \/ state_transaction_retry(h)
  PROVE  DeviceInv(h)'
<1>1. /\ state[h] \in StageStates /\ goto(h, "TRANSACTION") /\ token' = "none"
      /\ UNCHANGED <<deviceInfo, portVars, lockVars, templates, deviceVars,
                     transaction_recv_state, tx_request, transaction_stage,
                     do_not_retry, bulk_out_toggle>>
  BY DEF NextStage, state_transaction_cont, state_transaction_retry, In,
     host_transact, StageStates
<1>2. /\ state[h] \in TransferStates /\ state[h] # "TRANSACTION"
      /\ At(h)' = "TRANSACTION"
  BY <1>1, MovesTo DEF moves, TransferStates, StageStates
<1>3. ShapeInv(h)
  BY <1>2, There DEF DeviceInv
<1>4. ShapeInv(h)'
  <2>1. CASE NextStage(h)
    <3>1. PICK pid \in {"IN", "OUT"} :
            /\ state[h] = IF pid = "IN" THEN "TRANSACTION_IN" ELSE "TRANSACTION_OUT"
            /\ transaction_pid' = pid
            /\ transaction_stage = 1 => transaction_size' = 0
      BY <2>1 DEF NextStage, In, host_transact
    <3>2. transaction_recv_state # "OUT_DONE"
      BY <1>2, <1>3, <3>1, There DEF ShapeInv
    <3>3. transaction_recv_state \in {"SET_ADDRESS_DONE", "SET_CONFIGURATION_DONE"}
            => NoDataShape(h)'
      BY <1>1, <1>2, <1>3, <3>1, There DEF ShapeInv, NoDataShape
    <3> QED BY <1>1, <3>2, <3>3 DEF ShapeInv
  <2>2. CASE state_transaction_cont(h)
    <3>1. state[h] = "TRANSACTION_CONT"
      BY <2>2 DEF state_transaction_cont, In
    <3>2. transaction_recv_state \notin
            {"SET_ADDRESS_DONE", "SET_CONFIGURATION_DONE", "OUT_DONE"}
      BY <1>2, <1>3, <3>1, There DEF ShapeInv, NoDataShape
    <3> QED BY <1>1, <3>2 DEF ShapeInv
  <2>3. CASE state_transaction_retry(h)
    <3>1. state[h] = "TRANSACTION_RETRY"
          /\ UNCHANGED <<transaction_pid, transaction_size>>
      BY <2>3 DEF state_transaction_retry, In
    <3>2. transaction_recv_state \in {"SET_ADDRESS_DONE", "SET_CONFIGURATION_DONE"}
            => NoDataShape(h)'
      BY <1>1, <1>2, <1>3, <3>1, There DEF ShapeInv, NoDataShape
    <3> QED BY <1>1, <1>2, <1>3, <3>1, <3>2, There DEF ShapeInv
  <2> QED BY <2>1, <2>2, <2>3
<1>5. ~Accepts(h, "IN") /\ ~Accepts(h, "OUT")
  BY <1>2 DEF Accepts
<1> QED BY <1>1, <1>2, <1>4, <1>5, GoesOn


\* A transfer that is over: the port goes on in the state it was made for.
LEMMA Finishes ==
  ASSUME TypeOK, HostInv, NEW h \in Hubs, state[h] = "TRANSACTION",
         goto(h, transaction_recv_state), turn' = h,
         UNCHANGED <<deviceInfo, portVars, templates, deviceVars, USB_DEV_AD,
                     USB_CTRL, transaction_recv_state>>,
         transaction_lock' \in {transaction_lock, NoHub},
         transaction_recv_state \in {"SET_ADDRESS_DONE", "SET_CONFIGURATION_DONE"}
           => Accepts(h, "IN"),
         (device_toggle[h] # bulk_out_toggle[h]) =
             (transaction_recv_state = "OUT_DONE" /\ Accepts(h, "OUT"))
           => device_toggle[h] = bulk_out_toggle'[h],
         do_not_retry'[h] => do_not_retry[h],
         transaction_recv_state \in DescriptorStates => outcome' # "nak"
  PROVE  DeviceInv(h)'
<1> USE DEF portVars, templates, deviceVars, deviceInfo
<1> DEFINE s == transaction_recv_state
<1>1. /\ Busy(h) /\ Serving(h) = s /\ DeviceInv(h) /\ OnBus(h)
      /\ s \in RecvStates /\ s \notin TransferStates
      /\ s \notin {"DELAY", "HALT"} /\ transaction_lock = h
  <2>1. state[h] \in TransferStates
    BY DEF TransferStates
  <2>2. "DELAY" \notin RecvStates /\ s \notin TransferStates
    BY <2>1, There, StateSets
  <2>3. OnBus(h)
    BY <2>1, There, StateSets DEF OnBus
  <2> QED BY <2>1, <2>2, <2>3, There
<1>2. /\ At(h)' = s /\ ~Busy(h)' /\ Serving(h)' = s /\ state'[h] = s
      /\ state'[h] # "TRANSACTION" /\ delay_next_state'[h] = "IDLE"
  <2>1. moves(h, s)
    BY DEF moves
  <2>2. /\ At(h)' = s /\ ~Busy(h)' /\ Serving(h)' = s /\ state'[h] = s
    BY <1>1, <2>1, ServingMoves
  <2>3. delay_next_state'[h] = "IDLE"
    BY DEF goto, TypeOK
  <2> QED BY <1>1, <2>2, <2>3 DEF TransferStates
<1>3. /\ New(h)' = New(h) /\ Known(h)' = Known(h)
      /\ Configured(h)' = Configured(h)
      /\ attach(h)' = attach(h) /\ AddressOf(h)' = AddressOf(h)
  BY <1>1, <1>2 DEF New, Known, Configured, attach, AddressOf
<1>4. ShapeInv(h)' /\ AnswerInv(h)'
  BY <1>2 DEF ShapeInv, AnswerInv
<1>5. AddressInv(h)'
  BY <1>1, <1>2, <1>3 DEF DeviceInv, AddressInv
<1>6. RegisterInv(h)'
  BY <1>1, <1>2, <1>3 DEF DeviceInv, RegisterInv
<1>7. ToggleInv(h)'
  <2>1. ASSUME attach(h), Configured(h) PROVE device_toggle[h] = bulk_out_toggle'[h]
    BY <1>1, <2>1 DEF DeviceInv, ToggleInv
  <2>2. Configured(h)' /\ attach(h)' => ~(device_toggle'[h] # bulk_out_toggle'[h])
    BY <1>3, <2>1
  <2>3. attach(h) /\ s = "SET_CONFIGURATION_DONE" => device_toggle[h] = FALSE
    BY <1>1 DEF DeviceInv, ToggleInv
  <2>4. ~Accepts(h, "OUT")'
    BY <1>2 DEF Accepts
  <2> QED BY <1>2, <1>3, <2>2, <2>3, <2>4 DEF ToggleInv
<1>8. RetryInv(h)'
  <2>1. "IDLE" \notin DescriptorStates
    BY DEF DescriptorStates
  <2> QED BY <1>1, <1>2, <2>1 DEF DeviceInv, RetryInv
<1>9. SpeedInv(h)'
  <2>1. transaction_lock' # h \/ UNCHANGED <<transaction_lock, USB_CTRL>>
    BY HubFacts
  <2> QED BY <1>1, <1>3, <2>1, Speed DEF DeviceInv
<1> QED BY <1>4, <1>5, <1>6, <1>7, <1>8, <1>9 DEF DeviceInv

\* The end of a transfer.
LEMMA OwnEnds ==
  ASSUME GoodAnswers, TypeOK, HostInv, NEW h \in Hubs,
         TransferStalls(h) \/ TransferSucceeds(h) \/ TransferNaks(h)
  PROVE  DeviceInv(h)'
<1> DEFINE s == transaction_recv_state
<1>1. /\ state[h] = "TRANSACTION" /\ token # "none"
      /\ UNCHANGED <<deviceInfo, portVars, templates, deviceVars, USB_DEV_AD,
                     USB_CTRL, transaction_recv_state, transaction_pid,
                     tx_request>>
  BY DEF TransferStalls, TransferSucceeds, TransferNaks, Ended, In
<1>2. /\ attach(h) /\ state[h] \in TransferStates
  <2>1. In(h, "TRANSACTION")
    BY DEF TransferStalls, TransferSucceeds, TransferNaks, Ended
  <2> QED BY <1>1, <2>1, AttachFact DEF HostInv, LockInv, TransferStates
<1>3. /\ AnswerInv(h) /\ ShapeInv(h) /\ RetryInv(h) /\ At(h) = "TRANSACTION"
      /\ Busy(h) /\ Serving(h) = s
  BY <1>1, <1>2, There DEF DeviceInv
<1>4. CASE TransferStalls(h)
  <2>1. /\ token = "STALL" /\ goto(h, s) /\ turn' = h /\ outcome' = "stall"
        /\ transaction_lock' \in {transaction_lock, NoHub}
        /\ UNCHANGED <<do_not_retry, bulk_out_toggle>>
    BY <1>4 DEF TransferStalls, finish, Return, unlock_transaction
  <2>2. s \notin {"SET_ADDRESS_DONE", "SET_CONFIGURATION_DONE"}
    <3>1. s \in ReleaseStates /\ s # "SET_ADDRESS_DONE"
      BY <1>1, <1>3, <2>1 DEF AnswerInv, GoodAnswers
    <3> QED BY <3>1 DEF ReleaseStates
  <2>3. ~Accepts(h, "OUT")
    BY <2>1 DEF Accepts
  <2>4. (device_toggle[h] # bulk_out_toggle[h]) = FALSE =>
          device_toggle[h] = bulk_out_toggle'[h]
    BY <2>1
  <2> QED BY <1>1, <2>1, <2>2, <2>3, <2>4, Finishes
<1>5. CASE TransferNaks(h)
  <2>1. /\ token = "NAK" /\ UNCHANGED <<do_not_retry, bulk_out_toggle,
             transaction_lock, transaction_stage, transaction_size>>
    BY <1>5 DEF TransferNaks
  <2>2. /\ "NAK" \in Answers /\ transaction_pid # "SETUP"
        /\ ~Accepts(h, "IN") /\ ~Accepts(h, "OUT")
    BY <1>1, <1>3, <2>1 DEF AnswerInv, Accepts
  <2>3. CASE do_not_retry[h]
    <3>1. s = "IN_RECV"
      BY <1>2, <1>3, <2>2, <2>3, There DEF RetryInv
    <3>2. goto(h, s) /\ turn' = h
      BY <1>5, <2>3 DEF TransferNaks, finish, Return
    <3>3. s \notin DescriptorStates
      BY <3>1 DEF DescriptorStates
    <3>4. (device_toggle[h] # bulk_out_toggle[h]) = FALSE =>
            device_toggle[h] = bulk_out_toggle'[h]
      BY <2>1
    <3> QED BY <1>1, <2>1, <2>2, <3>1, <3>2, <3>3, <3>4, Finishes
  <2>4. CASE ~do_not_retry[h]
    <3>1. delay(h, "TRANSACTION_RETRY")
      BY <1>5, <2>4 DEF TransferNaks
    <3>2. At(h)' = "TRANSACTION_RETRY"
      BY <3>1, MovesTo DEF moves
    <3>3. s \in {"SET_ADDRESS_DONE", "SET_CONFIGURATION_DONE"} => NoDataShape(h)'
      BY <1>1, <1>3, <2>1, <2>2, <3>2 DEF ShapeInv, NoDataShape
    <3>4. ShapeInv(h)'
      BY <1>1, <1>3, <2>1, <3>2, <3>3 DEF ShapeInv
    <3>5. PICK t \in StageStates : delay(h, t)
      BY <3>1 DEF StageStates
    <3> QED BY <1>1, <1>2, <2>1, <2>2, <3>4, <3>5, GoesOn DEF lockVars
  <2> QED BY <2>3, <2>4
<1>6. CASE TransferSucceeds(h)
  <2>1. /\ token = "ACK" /\ UNCHANGED transaction_lock
    BY <1>1, <1>2, <1>3, <1>6 DEF TransferSucceeds, AnswerInv
  <2>0. PICK received \in {0, 1} :
          /\ received <= transaction_size /\ GoesOnAfter(h, received)
    BY <1>6, <2>1 DEF TransferSucceeds, RxLengths, GoodAnswers
  <2>6. transaction_size = 0 => Left(received) = 0
    <3>1. SIZES \in Nat \ {0}
      BY EnvironmentAssumption
    <3>2. SIZES % SIZES = 0
      BY <3>1
    <3>3. transaction_size = 0 => received = 0
      BY <2>0
    <3> QED BY <3>1, <3>2, <3>3 DEF Left
  <2>2. s \in {"SET_ADDRESS_DONE", "SET_CONFIGURATION_DONE"} =>
          /\ Left(received) = 0 /\ transaction_size' = 0
          /\ tx_request.data = FALSE
          /\ Direction # "IN" \/ transaction_pid = "IN"
          /\ \/ transaction_pid = "SETUP" /\ transaction_stage = 0
             \/ transaction_pid = "IN" /\ transaction_stage = 1
    BY <1>3, <2>0, <2>6 DEF ShapeInv, NoDataShape, GoesOnAfter, Direction
  <2>3. s = "OUT_DONE" =>
          /\ Left(received) = 0 /\ transaction_pid = "OUT"
          /\ transaction_stage = 2
    BY <1>3, <2>6 DEF ShapeInv
  <2>4. CASE \E t \in StageStates : delay(h, t)
    <3>1. /\ UNCHANGED <<do_not_retry, bulk_out_toggle>>
          /\ \/ Left(received) # 0
             \/ transaction_pid = "SETUP" /\ tx_request.data
             \/ /\ transaction_stage = 0 /\ transaction_stage' = 1
                /\ Direction # "IN" => delay(h, "TRANSACTION_IN")
      <4>1. ~goto(h, transaction_recv_state)
        BY <1>3, <2>4 DEF goto, delay, TypeOK, RecvStates
      <4>2. CASE Left(received) # 0
        BY <2>0, <4>1, <4>2 DEF GoesOnAfter, finish
      <4>3. CASE transaction_pid = "SETUP" /\ tx_request.data
        BY <2>0, <4>1, <4>3 DEF GoesOnAfter, finish
      <4>4. CASE /\ ~(Left(received) # 0)
                 /\ ~(transaction_pid = "SETUP" /\ tx_request.data)
        <5>1. /\ transaction_stage = 0 /\ transaction_stage' = 1
              /\ delay(h, IF Direction = "IN" THEN "TRANSACTION_OUT"
                          ELSE "TRANSACTION_IN")
              /\ UNCHANGED <<do_not_retry, bulk_out_toggle>>
          BY <2>0, <4>1, <4>4 DEF GoesOnAfter, finish
        <5> QED BY <5>1
      <4> QED BY <4>2, <4>3, <4>4
    <3>2. s # "OUT_DONE"
      BY <2>3, <3>1
    <3>3. s \in {"SET_ADDRESS_DONE", "SET_CONFIGURATION_DONE"} =>
            /\ transaction_pid = "SETUP" /\ transaction_stage = 0
            /\ transaction_stage' = 1 /\ delay(h, "TRANSACTION_IN")
      BY <2>2, <3>1
    <3>4. s = "SET_ADDRESS_DONE" => ~Accepts(h, "IN")
      BY <3>3 DEF Accepts
    <3>5. ShapeInv(h)'
      <4>1. delay(h, "TRANSACTION_IN") => At(h)' = "TRANSACTION_IN"
        BY MovesTo DEF moves
      <4>2. s \in {"SET_ADDRESS_DONE", "SET_CONFIGURATION_DONE"} =>
              NoDataShape(h)'
        BY <1>1, <1>3, <2>2, <3>3, <4>1 DEF ShapeInv, NoDataShape
      <4> QED BY <1>1, <3>2, <4>2 DEF ShapeInv
    <3> QED BY <1>1, <1>2, <2>1, <2>4, <3>1, <3>2, <3>4, <3>5, GoesOn
            DEF lockVars
  <2>5. CASE ~\E t \in StageStates : delay(h, t)
    <3>1. /\ goto(h, s) /\ turn' = h /\ outcome' = "ok"
          /\ transaction_stage # 0
          /\ do_not_retry' = [do_not_retry EXCEPT ![h] = FALSE]
          /\ bulk_out_toggle' =
               [bulk_out_toggle EXCEPT ![h] = IF s = "OUT_DONE" THEN ~@ ELSE @]
      BY <2>0, <2>1, <2>5 DEF GoesOnAfter, finish, Return, StageStates
    <3>2. s \in {"SET_ADDRESS_DONE", "SET_CONFIGURATION_DONE"} => Accepts(h, "IN")
      BY <1>1, <2>1, <2>2, <3>1 DEF Accepts
    <3>3. s = "OUT_DONE" => Accepts(h, "OUT")
      BY <1>1, <2>1, <2>3 DEF Accepts
    <3>4. /\ do_not_retry'[h] = FALSE
          /\ s # "OUT_DONE" => bulk_out_toggle'[h] = bulk_out_toggle[h]
          /\ s = "OUT_DONE" => bulk_out_toggle'[h] = ~bulk_out_toggle[h]
      BY <3>1, Zenon DEF TypeOK
    <3>5. bulk_out_toggle[h] \in BOOLEAN /\ device_toggle[h] \in BOOLEAN
      BY DEF TypeOK
    <3>6. ASSUME (device_toggle[h] # bulk_out_toggle[h]) =
                    (s = "OUT_DONE" /\ Accepts(h, "OUT"))
          PROVE  device_toggle[h] = bulk_out_toggle'[h]
      <4>1. CASE s = "OUT_DONE"
        <5>1. device_toggle[h] # bulk_out_toggle[h]
          BY <3>3, <3>6, <4>1
        <5>2. device_toggle[h] = ~bulk_out_toggle[h]
          BY <3>5, <5>1, Zenon
        <5> QED BY <3>4, <4>1, <5>2, Zenon
      <4>2. CASE s # "OUT_DONE"
        <5>1. device_toggle[h] = bulk_out_toggle[h]
          BY <3>6, <4>2
        <5> QED BY <3>4, <4>2, <5>1
      <4> QED BY <4>1, <4>2
    <3> QED BY <1>1, <2>1, <3>1, <3>2, <3>4, <3>6, Finishes
  <2> QED BY <2>4, <2>5
<1> QED BY <1>4, <1>5, <1>6


\* The public functions, on a ready port.
LEMMA OwnApplication ==
  ASSUME TypeOK, HostInv, NEW h \in Hubs, Application(h)
  PROVE  DeviceInv(h)'
<1>1. /\ state[h] = "READY" /\ transaction_lock = NoHub
      /\ state[h] \notin TransferStates
      /\ DeviceInv(h) /\ ~initial_check[h]
      /\ "NAK" \in Answers => ~do_not_retry[h]
      /\ attach(h) => /\ device_address[h] = AddressOf(h)
                      /\ device_toggle[h] = bulk_out_toggle[h]
  <2>1. state[h] = "READY" /\ transaction_lock = NoHub
    BY DEF Application, usb_host_setup, usb_host_in, usb_host_out,
       usb_host_hid_get_report, usb_host_hub_switch, Call, usb_host_ready,
       is_transaction_locked
  <2>2. "READY" \notin TransferStates \cup NewStates \cup NamedStates \cup DescStates
    BY DEF TransferStates, StageStates, NewStates, NamedStates, DescStates
  <2> QED BY <2>1, <2>2, Here, PortFacts DEF HostInv
<1>2. CASE usb_host_hub_switch(h)
  <2>1. PICK s : s = "SET_ADDRESS" /\ goto(h, s)
    BY <1>2 DEF usb_host_hub_switch
  <2>2. device_address'[h] = 0 /\ UNCHANGED <<lockVars, do_not_retry, UHUB_CTRL>>
    BY <1>2 DEF usb_host_hub_switch, TypeOK
  <2>3. attach(h) => attach(h)'
    <3>1. \A d \in Behind(h) : d # NoDevice
      BY DevicesAssumption DEF Behind
    <3> QED BY <1>2, <3>1 DEF usb_host_hub_switch, attach, TypeOK
  <2>4. SpeedInv(h)'
    BY <1>1, <2>2, <2>3, HubFacts DEF DeviceInv, SpeedInv, lockVars
  <2>5. /\ s \in NewStates /\ s \notin TransferStates \cup DescriptorStates
        /\ s # "DELAY"
    BY <2>1 DEF NewStates, TransferStates, StageStates, DescriptorStates
  <2> QED BY <1>1, <2>1, <2>2, <2>4, <2>5, Lands DEF moves
<1>3. CASE ~usb_host_hub_switch(h)
  <2>1. PICK recv \in {"IN_RECV", "DONE", "OUT_DONE", "HID_GET_REPORT"} :
          /\ transaction_recv_state' = recv /\ goto(h, "TRANSACTION")
          /\ token' = "none"
          /\ recv = "OUT_DONE" => /\ transaction_pid' = "OUT"
                                  /\ transaction_stage' = 2
                                  /\ transaction_size' = 0
          /\ \/ UNCHANGED do_not_retry
             \/ /\ recv = "IN_RECV"
                /\ do_not_retry' = [do_not_retry EXCEPT ![h] = TRUE]
             \/ do_not_retry' = [do_not_retry EXCEPT ![h] = FALSE]
    <3> USE DEF host_setup_transfer, host_transact
    <3>1. ASSUME NEW dir, NEW data, usb_host_setup(h, dir, data)
          PROVE  /\ transaction_recv_state' \in {"IN_RECV", "DONE"}
                 /\ goto(h, "TRANSACTION") /\ token' = "none"
                 /\ UNCHANGED do_not_retry
      BY <3>1 DEF usb_host_setup
    <3>2. ASSUME NEW name, NEW stage, usb_host_in(h, name, stage)
          PROVE  /\ transaction_recv_state' = "IN_RECV"
                 /\ goto(h, "TRANSACTION") /\ token' = "none"
                 /\ do_not_retry' = [do_not_retry EXCEPT ![h] = TRUE]
      BY <3>2 DEF usb_host_in
    <3>3. usb_host_out(h) =>
                 /\ transaction_recv_state' = "OUT_DONE"
                 /\ goto(h, "TRANSACTION") /\ token' = "none"
                 /\ transaction_pid' = "OUT" /\ transaction_stage' = 2
                 /\ transaction_size' = 0 /\ UNCHANGED do_not_retry
      BY DEF usb_host_out
    <3>4. usb_host_hid_get_report(h) =>
                 /\ transaction_recv_state' = "HID_GET_REPORT"
                 /\ goto(h, "TRANSACTION") /\ token' = "none"
                 /\ do_not_retry' = [do_not_retry EXCEPT ![h] = FALSE]
      BY DEF usb_host_hid_get_report
    <3>5. \/ \E dir, data : usb_host_setup(h, dir, data)
          \/ \E name, stage : usb_host_in(h, name, stage)
          \/ usb_host_out(h) \/ usb_host_hid_get_report(h)
      BY <1>3 DEF Application
    <3>6. CASE \E dir, data : usb_host_setup(h, dir, data)
      BY <3>1, <3>6
    <3>7. CASE \E name, stage : usb_host_in(h, name, stage)
      BY <3>2, <3>7
    <3> QED BY <3>3, <3>4, <3>5, <3>6, <3>7
  <2>2. /\ USB_DEV_AD' = AddressOf(h) /\ USB_CTRL' = UHUB_CTRL[h]
        /\ UNCHANGED <<deviceInfo, portVars, deviceVars, bulk_out_toggle>>
    BY <1>3 DEF Application, usb_host_setup, usb_host_in, usb_host_out,
       usb_host_hid_get_report, lock_transaction, callFrame
  <2>3. attach(h)' = attach(h) /\ AddressOf(h)' = AddressOf(h)
    BY <2>2 DEF attach, AddressOf, deviceVars, portVars
  <2>4. SpeedInv(h)'
    BY <1>1, <2>2, <2>3, Speed DEF DeviceInv, portVars
  <2>5. /\ recv \in RecvStates /\ recv \notin NamedStates \cup DescStates
        /\ recv \notin {"SET_ADDRESS_DONE", "SET_CONFIGURATION_DONE"}
    BY DEF RecvStates, NamedStates, DescStates
  <2>6. At(h)' = "TRANSACTION"
    BY <2>1, MovesTo DEF moves
  <2>7. ShapeInv(h)'
    BY <2>1, <2>5, <2>6 DEF ShapeInv
  <2>8. "NAK" \in Answers => (do_not_retry'[h] => recv = "IN_RECV")
    BY <1>1, <2>1 DEF TypeOK
  <2> QED BY <1>1, <2>1, <2>2, <2>3, <2>4, <2>5, <2>7, <2>8, Transfers
          DEF deviceVars, portVars
<1> QED BY <1>2, <1>3

\* Every step of a port keeps what that port knows.
LEMMA DeviceOwn ==
  ASSUME GoodAnswers, TypeOK, HostInv, NEW h \in Hubs, fsm(h) \/ Application(h)
  PROVE  DeviceInv(h)'
BY OwnWaits, OwnDisconnect, OwnResets, OwnAddress, OwnDescriptors, OwnSetups,
   OwnReleases, OwnEnds, OwnRepeats, OwnApplication DEF fsm


-----------------------------------------------------------------------------
(* The other port                                                            *)

\* What is kept for each port.
ports == <<no_remote_wakeup, hub_address, UHUB_CTRL, do_not_retry,
           bulk_out_toggle, device, device_address, device_toggle>>
PortKept(k) ==
  /\ no_remote_wakeup'[k] = no_remote_wakeup[k]
  /\ hub_address'[k] = hub_address[k] /\ UHUB_CTRL'[k] = UHUB_CTRL[k]
  /\ do_not_retry'[k] = do_not_retry[k]
  /\ bulk_out_toggle'[k] = bulk_out_toggle[k]
  /\ device'[k] = device[k] /\ device_address'[k] = device_address[k]
  /\ device_toggle'[k] = device_toggle[k]

\* The steps that change nothing of it, of any port.
LEMMA QuietSteps ==
  ASSUME NEW h \in Hubs,
         \/ Wait(h) \/ DelayEnds(h) \/ state_idle(h) \/ state_reset(h)
         \/ state_set_address(h) \/ state_set_address_done(h)
         \/ state_get_device_desc(h)
         \/ state_get_string_desc(h) \/ state_get_string_desc_recv(h)
         \/ state_get_configuration_desc(h) \/ state_set_configuration(h)
         \/ state_extra_setup(h) \/ state_get_hid_report_desc(h)
         \/ state_hid_set_protocol(h) \/ state_hid_set_protocol_done(h)
         \/ state_get_hub_desc(h)
         \/ state_set_port_power_feature(h)
         \/ state_set_port_power_feature_done(h)
         \/ state_clear_port_connection_feature(h)
         \/ state_clear_port_connection_feature_done(h)
         \/ EnumerationEnds(h) \/ state_out_done(h)
         \/ TransferStalls(h) \/ TransferNaks(h) \/ TransferFails(h)
         \/ NextStage(h) \/ state_transaction_cont(h)
         \/ state_transaction_retry(h) \/ usb_host_out(h)
         \/ (\E dir, data : usb_host_setup(h, dir, data))
  PROVE  UNCHANGED ports
<1> USE DEF ports, deviceInfo, portVars, deviceVars
<1>1. Wait(h) \/ DelayEnds(h) => UNCHANGED ports
  BY DEF Wait, DelayEnds
<1>2. state_idle(h) \/ state_reset(h) \/ state_set_address_done(h)
      \/ state_extra_setup(h) \/ state_hid_set_protocol_done(h) => UNCHANGED ports
  BY DEF state_idle, state_reset, state_set_address_done, state_extra_setup,
     state_hid_set_protocol_done, pause
<1>3. state_set_address(h) \/ state_get_device_desc(h) => UNCHANGED ports
  BY DEF state_set_address, state_get_device_desc
<1>4. state_get_configuration_desc(h) \/ state_set_configuration(h)
      \/ state_get_hid_report_desc(h) \/ state_hid_set_protocol(h)
      \/ state_get_hub_desc(h) => UNCHANGED ports
  BY DEF state_get_configuration_desc, state_set_configuration,
     state_get_hid_report_desc, state_hid_set_protocol, state_get_hub_desc, send
<1>5. state_get_string_desc(h) \/ state_get_string_desc_recv(h) => UNCHANGED ports
  BY DEF state_get_string_desc, state_get_string_desc_recv, send, pause
<1>6. state_set_port_power_feature(h) \/ state_clear_port_connection_feature(h)
      => UNCHANGED ports
  BY DEF state_set_port_power_feature, state_clear_port_connection_feature,
     send, pause
<1>7. state_set_port_power_feature_done(h)
      \/ state_clear_port_connection_feature_done(h) => UNCHANGED ports
  BY DEF state_set_port_power_feature_done, next_port, pause,
     state_clear_port_connection_feature_done
<1>8. EnumerationEnds(h) \/ state_out_done(h) => UNCHANGED ports
  BY DEF EnumerationEnds, state_out_done, pause
<1>9. TransferStalls(h) \/ TransferNaks(h) \/ TransferFails(h) => UNCHANGED ports
  BY DEF TransferStalls, TransferNaks, TransferFails, Ended
<1>10. NextStage(h) \/ state_transaction_cont(h) \/ state_transaction_retry(h)
       => UNCHANGED ports
  BY DEF NextStage, state_transaction_cont, state_transaction_retry
<1>11. usb_host_out(h) \/ (\E dir, data : usb_host_setup(h, dir, data))
       => UNCHANGED ports
  BY DEF usb_host_out, usb_host_setup, callFrame
<1> QED BY <1>1, <1>2, <1>3, <1>4, <1>5, <1>6, <1>7, <1>8, <1>9, <1>10, <1>11

\* A turn of one port does nothing to what is known of another.
LEMMA OthersKept ==
  ASSUME TypeOK, NEW h \in Hubs, fsm(h) \/ Application(h),
         NEW k \in Hubs \ {h}
  PROVE  PortKept(k)
<1>1. UNCHANGED ports => PortKept(k)
  BY DEF ports, PortKept
<1>2. CASE Disconnect(h) \/ state_enable(h)
  BY <1>2 DEF Disconnect, state_enable, pause, PortKept, deviceInfo, deviceVars,
     TypeOK
<1>3. CASE state_connect(h) \/ InitialCheckDone(h)
  <2>1. PICK check : bus_reset(h, check)
    BY <1>3 DEF state_connect, InitialCheckDone
  <2>2. UNCHANGED <<no_remote_wakeup, bulk_out_toggle>>
    BY <1>3 DEF state_connect, InitialCheckDone, deviceInfo
  <2> QED BY <2>1, <2>2 DEF bus_reset, PortKept, TypeOK
<1>4. CASE state_get_device_desc_recv(h)
  BY <1>4 DEF state_get_device_desc_recv, pause, portVars, deviceVars, PortKept
<1>5. CASE state_get_configuration_desc_recv(h)
  <2>1. UNCHANGED <<portVars, deviceVars, do_not_retry, bulk_out_toggle>>
    BY <1>5 DEF state_get_configuration_desc_recv, pause
  <2>2. no_remote_wakeup'[k] = no_remote_wakeup[k]
    BY <1>5 DEF state_get_configuration_desc_recv, deviceInfo, TypeOK
  <2> QED BY <2>1, <2>2 DEF PortKept, portVars, deviceVars
<1>6. CASE state_set_configuration_done(h)
  BY <1>6 DEF state_set_configuration_done, pause, portVars, deviceVars,
     deviceInfo, PortKept, TypeOK
<1>7. CASE state_set_feature(h)
  <2>1. UNCHANGED <<deviceInfo, portVars, deviceVars, bulk_out_toggle>>
    BY <1>7 DEF state_set_feature
  <2>2. do_not_retry'[k] = do_not_retry[k]
    BY <1>7 DEF state_set_feature, TypeOK
  <2> QED BY <2>1, <2>2 DEF PortKept, portVars, deviceVars, deviceInfo
<1>8. CASE state_get_hub_desc_recv(h)
  BY <1>8 DEF state_get_hub_desc_recv, pause, portVars, deviceVars, PortKept
<1>9. CASE ReportArrives(h)
  BY <1>9 DEF ReportArrives, portVars, deviceVars, deviceInfo, PortKept, TypeOK
<1>10. CASE TransferSucceeds(h)
  <2>1. UNCHANGED <<deviceInfo, portVars, deviceVars>>
    BY <1>10 DEF TransferSucceeds, Ended
  <2>2. /\ do_not_retry'[k] = do_not_retry[k]
        /\ bulk_out_toggle'[k] = bulk_out_toggle[k]
    BY <1>10 DEF TransferSucceeds, GoesOnAfter, TypeOK
  <2> QED BY <2>1, <2>2 DEF PortKept, portVars, deviceVars, deviceInfo
<1>11. CASE usb_host_hub_switch(h)
  BY <1>11 DEF usb_host_hub_switch, deviceInfo, PortKept, TypeOK
<1>12. ASSUME NEW name, NEW stage, usb_host_in(h, name, stage) PROVE PortKept(k)
  BY <1>12 DEF usb_host_in, callFrame, deviceInfo, portVars, deviceVars, PortKept,
     TypeOK
<1>13. CASE usb_host_hid_get_report(h)
  BY <1>13 DEF usb_host_hid_get_report, callFrame, deviceInfo, portVars,
     deviceVars, PortKept, TypeOK
<1> QED BY <1>1, <1>2, <1>3, <1>4, <1>5, <1>6, <1>7, <1>8, <1>9, <1>10, <1>11,
           <1>12, <1>13, QuietSteps DEF fsm, Application


\* What the ports share.
bus == <<transaction_recv_state, transaction_pid, transaction_stage,
         transaction_size, tx_request, token, USB_DEV_AD, address>>

\* A port that does not own the lock, and does not get it, changes nothing of
\* it but the speed, which it drops when its device has gone.
LEMMA SharedKept ==
  ASSUME TypeOK, HostInv, NEW h \in Hubs, fsm(h) \/ Application(h)
  PROVE  \/ /\ UNCHANGED bus /\ transaction_lock' \in {transaction_lock, NoHub}
            /\ UNCHANGED USB_CTRL \/ Disconnect(h)
         \/ transaction_lock \in {h, NoHub} /\ transaction_lock' \in {h, NoHub}
<1> DEFINE A == /\ UNCHANGED bus /\ transaction_lock' \in {transaction_lock, NoHub}
                /\ UNCHANGED USB_CTRL \/ Disconnect(h)
           B == transaction_lock \in {h, NoHub} /\ transaction_lock' \in {h, NoHub}
<1> USE DEF transferVars, lockVars, templates, bus, In
<1>1. Wait(h) \/ DelayEnds(h) \/ Disconnect(h) => A
  BY DEF Wait, DelayEnds, Disconnect, unlock_transaction
<1>2. state_idle(h) \/ state_connect(h) \/ state_reset(h) \/ state_enable(h)
      \/ InitialCheckDone(h) => A
  BY DEF state_idle, state_connect, state_reset, state_enable,
     InitialCheckDone, bus_reset, pause, unlock_transaction
<1>3. EnumerationEnds(h) \/ ReportArrives(h) \/ state_out_done(h) => A
  BY DEF EnumerationEnds, ReportArrives, state_out_done, pause,
     unlock_transaction
<1>4. CASE /\ ~(Wait(h) \/ DelayEnds(h) \/ Disconnect(h) \/ state_idle(h)
                \/ state_connect(h) \/ state_reset(h) \/ state_enable(h)
                \/ InitialCheckDone(h) \/ EnumerationEnds(h)
                \/ ReportArrives(h) \/ state_out_done(h))
           /\ fsm(h)
  <2> USE PortFacts DEF HostInv
  <2>1. state_set_address(h) \/ state_set_address_done(h)
        \/ state_get_device_desc(h) => B
    BY DEF state_set_address, state_set_address_done, state_get_device_desc,
       lock_transaction, is_transaction_locked
  <2>2. state[h] \in Enumerating /\ UNCHANGED transaction_lock => B
    OBVIOUS
  <2>3. state_get_device_desc_recv(h) => B
    BY DEF state_get_device_desc_recv
  <2>4. state_get_string_desc(h) \/ state_get_string_desc_recv(h)
        \/ state_get_configuration_desc(h)
        \/ state_get_configuration_desc_recv(h) =>
          state[h] \in Enumerating /\ UNCHANGED transaction_lock
    BY DEF state_get_string_desc, state_get_string_desc_recv, send,
       state_get_configuration_desc, state_get_configuration_desc_recv,
       Enumerating
  <2>5. state_set_configuration(h) \/ state_set_configuration_done(h)
        \/ state_set_feature(h) \/ state_extra_setup(h)
        \/ state_get_hid_report_desc(h) \/ state_hid_set_protocol(h)
        \/ state_hid_set_protocol_done(h) \/ state_get_hub_desc(h)
        \/ state_get_hub_desc_recv(h) =>
          state[h] \in Enumerating /\ UNCHANGED transaction_lock
    BY DEF state_set_configuration, state_set_configuration_done, send,
       state_set_feature, state_extra_setup, state_get_hid_report_desc,
       state_hid_set_protocol, state_hid_set_protocol_done,
       state_get_hub_desc, state_get_hub_desc_recv, Enumerating
  <2>6. state_set_port_power_feature(h) \/ state_set_port_power_feature_done(h)
        \/ state_clear_port_connection_feature(h)
        \/ state_clear_port_connection_feature_done(h) =>
          state[h] \in Enumerating /\ UNCHANGED transaction_lock
    BY DEF state_set_port_power_feature, state_set_port_power_feature_done,
       state_clear_port_connection_feature, next_port, send,
       state_clear_port_connection_feature_done, Enumerating
  <2>7. TransferStalls(h) \/ TransferSucceeds(h) \/ TransferNaks(h)
        \/ TransferFails(h) => B
    BY DEF TransferStalls, TransferSucceeds, TransferNaks, TransferFails,
       Ended, unlock_transaction, TransferStates
  <2>8. NextStage(h) \/ state_transaction_cont(h) \/ state_transaction_retry(h)
          => B
    BY DEF NextStage, state_transaction_cont, state_transaction_retry,
       TransferStates, StageStates
  <2> QED BY <1>4, <2>1, <2>2, <2>3, <2>4, <2>5, <2>6, <2>7, <2>8 DEF fsm
<1>5. CASE Application(h)
  BY <1>5, HubFacts DEF Application, usb_host_setup, usb_host_in, usb_host_out,
     usb_host_hid_get_report, usb_host_hub_switch, lock_transaction, Call,
     usb_host_ready, is_transaction_locked
<1> QED BY <1>1, <1>2, <1>3, <1>4, <1>5

\* The other port notices nothing.
LEMMA DeviceOthers ==
  ASSUME TypeOK, HostInv, NEW h \in Hubs, fsm(h) \/ Application(h),
         NEW k \in Hubs \ {h}
  PROVE  DeviceInv(k)'
<1>1. turn \in {h, App} /\ turn # k /\ k # NoHub
  BY HubFacts, FsmKinds, ApplicationKinds
<1>2. Apart(h) /\ PortKept(k)
  BY FsmKinds, ApplicationKinds, KindApart, OthersKept
     DEF HostInv, LockInv, PortKinds
<1>3. /\ state'[k] = state[k] /\ delay_next_state'[k] = delay_next_state[k]
      /\ At(k)' = At(k) /\ Busy(k)' = Busy(k)
      /\ initial_check'[k] = initial_check[k]
      /\ attach(k)' = attach(k) /\ AddressOf(k)' = AddressOf(k)
  BY <1>2 DEF Apart, PortKept, attach, AddressOf, Busy
<1>4. DeviceInv(k) /\ state[k] \notin DescriptorStates
  BY <1>1 DEF HostInv, DeviceInv, RetryInv
<1>5. CASE /\ UNCHANGED bus /\ transaction_lock' \in {transaction_lock, NoHub}
           /\ UNCHANGED USB_CTRL \/ Disconnect(h)
  <2>1. /\ Serving(k)' = Serving(k) /\ New(k)' = New(k) /\ Known(k)' = Known(k)
        /\ Configured(k)' = Configured(k) /\ OnBus(k)' = OnBus(k)
        /\ Accepts(k, "IN")' = Accepts(k, "IN")
        /\ Accepts(k, "OUT")' = Accepts(k, "OUT")
        /\ NoDataShape(k)' = NoDataShape(k)
    BY <1>3, <1>5 DEF Serving, New, Known, Configured, OnBus, Accepts,
       NoDataShape, bus
  <2>2. ShapeInv(k)' /\ AnswerInv(k)' /\ AddressInv(k)' /\ RegisterInv(k)'
    BY <1>2, <1>3, <1>4, <1>5, <2>1 DEF DeviceInv, ShapeInv, AnswerInv,
       AddressInv, RegisterInv, bus, PortKept
  <2>3. ToggleInv(k)' /\ RetryInv(k)'
    BY <1>2, <1>3, <1>4, <2>1 DEF DeviceInv, ToggleInv, RetryInv, PortKept
  <2>4. SpeedInv(k)'
    <3>1. Unpluggable = {} => ~Disconnect(h)
      BY DEF Disconnect, Detached, HostInv, DeviceInv, SpeedInv
    <3> QED BY <1>1, <1>2, <1>3, <1>4, <1>5, <3>1
            DEF DeviceInv, SpeedInv, PortKept
  <2> QED BY <2>2, <2>3, <2>4 DEF DeviceInv
<1>6. CASE /\ transaction_lock \in {h, NoHub}
           /\ transaction_lock' \in {h, NoHub}
  <2>1. ~OnBus(k) /\ state[k] # "SET_ADDRESS_DONE"
    BY <1>1, <1>6 DEF HostInv, LockInv, PortInv
  <2>2. ~Busy(k)
    BY <2>1, NotOnBus DEF Busy
  <2>3. At(k) # "SET_ADDRESS_DONE" /\ state[k] # "TRANSACTION"
    BY <2>1, <2>2 DEF HostInv, LockInv, ResetInv, ResetPort, At, Busy,
       TransferStates
  <2>4. /\ Serving(k)' = Serving(k) /\ New(k)' = New(k) /\ Known(k)' = Known(k)
        /\ Configured(k)' = Configured(k) /\ OnBus(k)' = OnBus(k)
        /\ Serving(k) # "SET_ADDRESS_DONE"
        /\ ~Accepts(k, "OUT")' /\ ~Accepts(k, "OUT")
    BY <1>3, <2>2, <2>3 DEF Serving, New, Known, Configured, OnBus, Accepts
  <2>5. ShapeInv(k)' /\ AnswerInv(k)'
    BY <1>3, <2>2, <2>3 DEF ShapeInv, AnswerInv
  <2>6. AddressInv(k)' /\ RegisterInv(k)'
    BY <1>2, <1>3, <1>4, <2>1, <2>2, <2>4 DEF DeviceInv, AddressInv,
       RegisterInv, PortKept
  <2>7. ToggleInv(k)' /\ RetryInv(k)'
    BY <1>2, <1>3, <1>4, <2>2, <2>4 DEF DeviceInv, ToggleInv, RetryInv, PortKept
  <2>8. SpeedInv(k)'
    BY <1>1, <1>3, <1>4, <1>6 DEF DeviceInv, SpeedInv
  <2> QED BY <2>5, <2>6, <2>7, <2>8 DEF DeviceInv
<1> QED BY <1>5, <1>6, SharedKept


\* The controller works for a port that waits for it.
LEMMA IssuerStep ==
  ASSUME TypeOK, HostInv, NEW h \in Hubs, fsm(h) \/ Application(h)
  PROVE  IssuerInv'
<1> USE DEF transferVars, In
<1>1. \/ UH_EP_PID' = FALSE
      \/ issuer' = h /\ goto(h, "TRANSACTION")
      \/ UNCHANGED <<UH_EP_PID, issuer>> /\ state[h] # "TRANSACTION"
      \/ UNCHANGED <<UH_EP_PID, issuer, delayVars>>
  <2> USE DEF host_setup_transfer, host_transact, send, pause
  <2>1. Wait(h) => UNCHANGED <<UH_EP_PID, issuer, delayVars>>
    BY DEF Wait
  <2>2. DelayEnds(h) =>
          UNCHANGED <<UH_EP_PID, issuer>> /\ state[h] # "TRANSACTION"
    BY DEF DelayEnds
  <2>3. Disconnect(h) \/ TransferStalls(h) \/ TransferSucceeds(h)
        \/ TransferNaks(h) \/ TransferFails(h) => UH_EP_PID' = FALSE
    BY DEF Disconnect, TransferStalls, TransferSucceeds, TransferNaks,
       TransferFails, Ended
  <2>4. state_idle(h) \/ state_connect(h) \/ state_reset(h) \/ state_enable(h)
        \/ state_set_address_done(h) \/ InitialCheckDone(h) =>
          UNCHANGED <<UH_EP_PID, issuer>> /\ state[h] # "TRANSACTION"
    BY DEF state_idle, state_connect, state_reset, state_enable, bus_reset,
       state_set_address_done, InitialCheckDone
  <2>5. state_get_device_desc_recv(h) \/ state_get_string_desc_recv(h)
        \/ state_get_configuration_desc_recv(h)
        \/ state_set_configuration_done(h) \/ state_extra_setup(h)
        \/ state_hid_set_protocol_done(h) \/ state_get_hub_desc_recv(h) =>
          UNCHANGED <<UH_EP_PID, issuer>> /\ state[h] # "TRANSACTION"
    BY DEF state_get_device_desc_recv, state_get_string_desc_recv,
       state_get_configuration_desc_recv, state_set_configuration_done,
       state_extra_setup, state_hid_set_protocol_done, state_get_hub_desc_recv
  <2>6. state_set_port_power_feature_done(h)
        \/ state_clear_port_connection_feature_done(h)
        \/ EnumerationEnds(h) \/ ReportArrives(h) \/ state_out_done(h) =>
          UNCHANGED <<UH_EP_PID, issuer>> /\ state[h] # "TRANSACTION"
    BY DEF state_set_port_power_feature_done, next_port, EnumerationEnds,
       state_clear_port_connection_feature_done, ReportArrives, state_out_done
  <2>7. state_set_address(h) \/ state_get_device_desc(h)
        \/ state_get_configuration_desc(h) \/ state_set_configuration(h)
        \/ state_get_hid_report_desc(h) \/ state_hid_set_protocol(h)
        \/ state_get_hub_desc(h) \/ NextStage(h)
        \/ state_transaction_cont(h) \/ state_transaction_retry(h) =>
          issuer' = h /\ goto(h, "TRANSACTION")
    BY DEF state_set_address, state_get_device_desc, NextStage,
       state_get_configuration_desc, state_set_configuration,
       state_get_hid_report_desc, state_hid_set_protocol,
       state_get_hub_desc, state_transaction_cont, state_transaction_retry
  <2>8. ASSUME \/ state_get_string_desc(h) \/ state_set_feature(h)
               \/ state_set_port_power_feature(h)
               \/ state_clear_port_connection_feature(h)
        PROVE  \/ issuer' = h /\ goto(h, "TRANSACTION")
               \/ UNCHANGED <<UH_EP_PID, issuer>> /\ state[h] # "TRANSACTION"
    BY <2>8 DEF state_get_string_desc, state_set_feature,
       state_set_port_power_feature, state_clear_port_connection_feature
  <2>9. ASSUME Application(h)
        PROVE  \/ issuer' = h /\ goto(h, "TRANSACTION")
               \/ UNCHANGED <<UH_EP_PID, issuer>> /\ state[h] # "TRANSACTION"
    BY <2>9 DEF Application, usb_host_setup, usb_host_in, usb_host_out,
       usb_host_hid_get_report, usb_host_hub_switch, Call, usb_host_ready
  <2> QED BY <2>1, <2>2, <2>3, <2>4, <2>5, <2>6, <2>7, <2>8, <2>9 DEF fsm
<1>2. \A k \in Hubs \ {h} : state'[k] = state[k]
  BY FsmKinds, ApplicationKinds, KindApart DEF HostInv, LockInv, PortKinds, Apart
<1>3. goto(h, "TRANSACTION") => state'[h] = "TRANSACTION"
  BY DEF goto, TypeOK
<1>4. CASE UNCHANGED <<UH_EP_PID, issuer>> /\ state[h] # "TRANSACTION"
  BY <1>2, <1>4 DEF HostInv, IssuerInv
<1>5. CASE UNCHANGED <<UH_EP_PID, issuer, delayVars>>
  BY <1>5 DEF HostInv, IssuerInv, delayVars
<1> QED BY <1>1, <1>3, <1>4, <1>5 DEF IssuerInv

-----------------------------------------------------------------------------
(* The environment                                                           *)

\* A transfer that is not answered is one whose device has gone.
LEMMA OwnRegister ==
  ASSUME TypeOK, HostInv, NEW h \in Hubs, state[h] = "TRANSACTION",
         token = "none", attach(h)
  PROVE  USB_DEV_AD = device_address[h]
<1>1. state[h] \in TransferStates
  BY DEF TransferStates
<1>2. ~Accepts(h, "IN") /\ Busy(h) /\ DeviceInv(h)
  BY <1>1, There DEF Accepts
<1> QED BY <1>1, <1>2, There DEF DeviceInv, AddressInv, New, Known

\* The end of a transfer changes what its own device has.
LEMMA CompletesOwn ==
  ASSUME GoodAnswers, TypeOK, HostInv, NEW t, TransferCompletes(t),
         NEW h \in Hubs, h = issuer
  PROVE  DeviceInv(h)'
<1>1. state[h] = "TRANSACTION" /\ token = "none"
  BY DEF TransferCompletes, HostInv, IssuerInv
<1>2. state[h] \in TransferStates
  BY <1>1 DEF TransferStates
<1>3. DeviceInv(h) /\ Busy(h) /\ Serving(h) = transaction_recv_state
  BY <1>1, <1>2, There
<1>4. /\ UNCHANGED <<turn, delayVars, deviceInfo, portVars, lockVars, templates,
                     transaction_recv_state, transaction_pid, transaction_stage,
                     transaction_size, tx_request, device, do_not_retry,
                     bulk_out_toggle, outcome>>
      /\ token' = t
  BY DEF TransferCompletes
<1>5. /\ Serving(h)' = Serving(h) /\ New(h)' = New(h) /\ Known(h)' = Known(h)
      /\ Configured(h)' = Configured(h) /\ OnBus(h)' = OnBus(h)
      /\ Busy(h)' = Busy(h) /\ NoDataShape(h)' = NoDataShape(h)
      /\ At(h)' = At(h) /\ state'[h] = state[h]
      /\ attach(h)' = attach(h) /\ AddressOf(h)' = AddressOf(h)
  BY <1>4 DEF Serving, New, Known, Configured, OnBus, Busy, NoDataShape, At,
     attach, AddressOf, delayVars, portVars
<1>6. /\ Accepts(h, "IN")' = (t = "ACK" /\ transaction_pid = "IN")
      /\ Accepts(h, "OUT")' = (t = "ACK" /\ transaction_pid = "OUT")
      /\ ~Accepts(h, "IN") /\ ~Accepts(h, "OUT")
  BY <1>1, <1>4, <1>5 DEF Accepts
<1>7. ShapeInv(h)'
  BY <1>3, <1>4, <1>5 DEF DeviceInv, ShapeInv
<1>8. AnswerInv(h)'
  <2>1. ~Reached => ~attach(h)
    BY <1>1, OwnRegister DEF Reached
  <2>2. t = "TIMEOUT" => ~attach(h)
    BY <2>1 DEF TransferCompletes, MayAnswer, GoodAnswers
  <2>3. /\ transaction_pid = "SETUP" => t \notin {"NAK", "STALL"}
        /\ t = "STALL" => "STALL" \in Answers /\ transaction_recv_state \in StallAt
        /\ t = "NAK" => "NAK" \in Answers
    BY DEF TransferCompletes, MayAnswer
  <2> QED BY <1>4, <1>5, <2>2, <2>3 DEF AnswerInv
<1>9. AddressInv(h)'
  <2>1. CASE Accepted("SET_ADDRESS_DONE", "IN", t)
    <3>1. /\ Serving(h) = "SET_ADDRESS_DONE" /\ Accepts(h, "IN")'
          /\ address = AddressOf(h)
      BY <1>3, <1>6, <2>1 DEF Accepted, DeviceInv, RegisterInv
    <3>2. device_address'[h] = AddressOf(h)
      BY <1>1, <2>1, <3>1 DEF TransferCompletes, TypeOK
    <3>3. ~New(h) /\ ~Known(h)
      BY <3>1 DEF New, Known, NewStates, DescStates
    <3> QED BY <1>5, <3>1, <3>2, <3>3 DEF AddressInv
  <2>2. CASE ~Accepted("SET_ADDRESS_DONE", "IN", t)
    <3>1. UNCHANGED device_address
      BY <2>2 DEF TransferCompletes
    <3>2. Serving(h) = "SET_ADDRESS_DONE" => ~Accepts(h, "IN")'
      BY <1>3, <1>6, <2>2 DEF Accepted
    <3> QED BY <1>3, <1>5, <1>6, <3>1, <3>2 DEF DeviceInv, AddressInv
  <2> QED BY <2>1, <2>2
<1>10. RegisterInv(h)' /\ SpeedInv(h)'
  BY <1>3, <1>4, <1>5 DEF DeviceInv, RegisterInv, SpeedInv, lockVars, templates,
     portVars
<1>11. RetryInv(h)'
  BY <1>3, <1>4, <1>5 DEF DeviceInv, RetryInv, delayVars, deviceInfo
<1>12. ToggleInv(h)'
  <2>1. bulk_out_toggle[h] \in BOOLEAN /\ device_toggle[h] \in BOOLEAN
    BY <1>1 DEF TypeOK
  <2>2. CASE Accepted("SET_CONFIGURATION_DONE", "IN", t)
    <3>1. Serving(h) = "SET_CONFIGURATION_DONE"
      BY <1>3, <2>2 DEF Accepted
    <3>2. device_toggle'[h] = FALSE
      BY <1>1, <2>2 DEF TransferCompletes, TypeOK
    <3>3. ~Configured(h)
      BY <3>1 DEF Configured, NamedStates
    <3> QED BY <1>5, <3>2, <3>3 DEF ToggleInv
  <2>3. CASE /\ ~Accepted("SET_CONFIGURATION_DONE", "IN", t)
             /\ Accepted("OUT_DONE", "OUT", t)
    <3>1. Serving(h) = "OUT_DONE" /\ Accepts(h, "OUT")'
      BY <1>3, <1>6, <2>3 DEF Accepted
    <3>2. attach(h) /\ Configured(h) => device_toggle[h] = bulk_out_toggle[h]
      BY <1>3, <1>6 DEF DeviceInv, ToggleInv
    <3>3. device_toggle[h] = bulk_out_toggle[h] => device_toggle'[h] = ~device_toggle[h]
      BY <1>1, <2>3, Zenon DEF TransferCompletes, TypeOK
    <3>4. device_toggle[h] = bulk_out_toggle[h] => device_toggle'[h] # bulk_out_toggle[h]
      BY <2>1, <3>3
    <3> QED BY <1>3, <1>4, <1>5, <3>1, <3>2, <3>4 DEF ToggleInv
  <2>4. CASE /\ ~Accepted("SET_CONFIGURATION_DONE", "IN", t)
             /\ ~Accepted("OUT_DONE", "OUT", t)
    <3>1. UNCHANGED device_toggle
      BY <2>4 DEF TransferCompletes
    <3>2. /\ Serving(h) = "SET_CONFIGURATION_DONE" => ~Accepts(h, "IN")'
          /\ Serving(h) = "OUT_DONE" => ~Accepts(h, "OUT")'
      BY <1>3, <1>6, <2>4 DEF Accepted
    <3> QED BY <1>3, <1>4, <1>5, <1>6, <3>1, <3>2 DEF DeviceInv, ToggleInv
  <2> QED BY <2>2, <2>3, <2>4
<1> QED BY <1>1, <1>7, <1>8, <1>9, <1>10, <1>11, <1>12 DEF DeviceInv


\* What the environment leaves alone: the host.
host == <<delayVars, deviceInfo, portVars, lockVars, templates, outcome,
          transaction_recv_state, transaction_pid, transaction_stage,
          transaction_size, tx_request, UH_EP_PID, issuer, do_not_retry,
          bulk_out_toggle>>

\* Then a port still serves what it served.
LEMMA HostKept ==
  ASSUME NEW h \in Hubs, UNCHANGED host
  PROVE  /\ Serving(h)' = Serving(h) /\ New(h)' = New(h) /\ Known(h)' = Known(h)
         /\ Configured(h)' = Configured(h) /\ OnBus(h)' = OnBus(h)
         /\ Busy(h)' = Busy(h) /\ NoDataShape(h)' = NoDataShape(h)
         /\ At(h)' = At(h) /\ state'[h] = state[h]
         /\ AddressOf(h)' = AddressOf(h)
BY DEF host, Serving, New, Known, Configured, OnBus, Busy, NoDataShape, At,
   AddressOf, delayVars, portVars

\* The invariants of a port that are not about its device.
LEMMA HostSide ==
  ASSUME HostInv, NEW h \in Hubs, UNCHANGED <<host, turn>>
  PROVE  ShapeInv(h)' /\ RegisterInv(h)' /\ RetryInv(h)'
<1>1. DeviceInv(h) /\ UNCHANGED host
  BY DEF HostInv
<1>2. ShapeInv(h)' /\ RegisterInv(h)'
  BY <1>1, HostKept DEF DeviceInv, ShapeInv, RegisterInv, host, lockVars,
     templates
<1>3. RetryInv(h)'
  BY <1>1, HostKept DEF DeviceInv, RetryInv, host, delayVars, deviceInfo
<1> QED BY <1>2, <1>3

\* A port whose device stays what it is.
LEMMA DeviceKept ==
  ASSUME HostInv, NEW h \in Hubs, UNCHANGED <<host, turn>>,
         attach(h)' = attach(h), device_address'[h] = device_address[h],
         device_toggle'[h] = device_toggle[h], ~Busy(h) \/ UNCHANGED token
  PROVE  DeviceInv(h)'
<1>1. DeviceInv(h) /\ UNCHANGED host
  BY DEF HostInv
<1>2. state[h] = "TRANSACTION" => Busy(h)
  BY DEF Busy, At, TransferStates
<1>3. Busy(h) => Accepts(h, "IN")' = Accepts(h, "IN")
                 /\ Accepts(h, "OUT")' = Accepts(h, "OUT")
  BY <1>1, HostKept DEF Accepts, host
<1>4. AnswerInv(h)'
  BY <1>1, <1>2, HostKept DEF DeviceInv, AnswerInv, host
<1>5. AddressInv(h)'
  BY <1>1, <1>3, HostKept DEF DeviceInv, AddressInv
<1>6. ToggleInv(h)'
  BY <1>1, <1>3, HostKept DEF DeviceInv, ToggleInv, host
<1>7. SpeedInv(h)'
  BY <1>1, HostKept DEF DeviceInv, SpeedInv, host, lockVars, portVars
<1> QED BY <1>4, <1>5, <1>6, <1>7, HostSide DEF DeviceInv

\* The other port is not on the bus when a transfer ends.
LEMMA CompletesStep ==
  ASSUME GoodAnswers, TypeOK, HostInv, NEW t, TransferCompletes(t),
         NEW h \in Hubs
  PROVE  DeviceInv(h)'
<1>1. issuer \in Hubs /\ state[issuer] = "TRANSACTION"
  BY DEF TransferCompletes, HostInv, IssuerInv
<1>2. CASE h # issuer
  <2>1. transaction_lock = issuer
    BY <1>1, PortFacts DEF HostInv, TransferStates
  <2>2. ~Busy(h)
    BY <1>2, <2>1, StateSets DEF Busy, OnBus, HostInv, LockInv, PortInv
  <2>3. /\ UNCHANGED <<host, turn>> /\ attach(h)' = attach(h)
        /\ device_address'[h] = device_address[h]
        /\ device_toggle'[h] = device_toggle[h]
    BY <1>2 DEF TransferCompletes, host, attach, TypeOK
  <2> QED BY <2>2, <2>3, DeviceKept
<1> QED BY <1>2, CompletesOwn

\* A device comes to a port that has not asked for one, and goes from any.
LEMMA PlugStep ==
  ASSUME TypeOK, HostInv, NEW p \in Hubs, Plug(p) \/ Unplug(p), NEW h \in Hubs,
         GoodAnswers
  PROVE  DeviceInv(h)'
<1>1. UNCHANGED <<host, turn, token>> /\ UNCHANGED host
  BY DEF Plug, Unplug, host, transferVars
<1>2. CASE h # p
  <2>1. /\ attach(h)' = attach(h) /\ device_address'[h] = device_address[h]
        /\ device_toggle'[h] = device_toggle[h]
    BY <1>2 DEF Plug, Unplug, attach, TypeOK
  <2> QED BY <1>1, <2>1, DeviceKept
<1>3. CASE h = p /\ Plug(p)
  <2>1. At(h) \in {"IDLE", "RESET", "ENABLE"} /\ state[h] # "TRANSACTION"
    <3>1. resetting[h] => At(h) \in {"RESET", "ENABLE"}
      BY DEF HostInv, LockInv, ResetInv, ResetPort
    <3> QED BY <1>3, <3>1 DEF Plug, At
  <2>2. /\ ~Busy(h) /\ Serving(h) \in {"IDLE", "RESET", "ENABLE"}
        /\ New(h) /\ ~Known(h) /\ ~Configured(h)
    BY <2>1 DEF Busy, Serving, New, Known, Configured, NewStates,
       TransferStates, StageStates
  <2>3. attach(h)' /\ device_address'[h] = 0
    BY <1>3, DevicesAssumption DEF Plug, attach, TypeOK
  <2>4. AnswerInv(h)' /\ AddressInv(h)' /\ ToggleInv(h)'
    BY <1>1, <2>1, <2>2, <2>3, HostKept DEF AnswerInv, AddressInv, ToggleInv
  <2>5. SpeedInv(h)'
    BY <1>1, <2>3 DEF HostInv, DeviceInv, SpeedInv, host, lockVars, portVars
  <2> QED BY <1>1, <2>4, <2>5, HostSide DEF DeviceInv
<1>4. CASE h = p /\ Unplug(p)
  <2>1. ~attach(h)' /\ Unpluggable # {}
    BY <1>4 DEF Unplug, attach, TypeOK
  <2>2. AnswerInv(h)'
    BY <1>1, <2>1 DEF HostInv, DeviceInv, AnswerInv, host, delayVars
  <2> QED BY <1>1, <2>1, <2>2, HostSide
          DEF DeviceInv, AddressInv, ToggleInv, SpeedInv
<1> QED BY <1>2, <1>3, <1>4

\* The main loop polls when no port has a descriptor to read.
LEMMA PollStep ==
  ASSUME HostInv, usb_host_poll, NEW h \in Hubs
  PROVE  DeviceInv(h)'
<1>1. DeviceInv(h) /\ state[h] \notin DescriptorStates
  BY HubFacts DEF usb_host_poll, HostInv, DeviceInv, RetryInv
<1>2. UNCHANGED host /\ UNCHANGED <<token, deviceVars>>
  BY DEF usb_host_poll, host, transferVars
<1>3. attach(h)' = attach(h) /\ Accepts(h, "IN")' = Accepts(h, "IN")
      /\ Accepts(h, "OUT")' = Accepts(h, "OUT")
  BY <1>2, HostKept DEF attach, Accepts, host, deviceVars
<1>4. ShapeInv(h)' /\ AnswerInv(h)' /\ RegisterInv(h)'
  BY <1>1, <1>2, <1>3, HostKept DEF DeviceInv, ShapeInv, AnswerInv, RegisterInv,
     host, lockVars, templates
<1>5. AddressInv(h)' /\ ToggleInv(h)'
  BY <1>1, <1>2, <1>3, HostKept DEF DeviceInv, AddressInv, ToggleInv, host,
     deviceVars
<1>6. RetryInv(h)' /\ SpeedInv(h)'
  BY <1>1, <1>2, <1>3, HostKept DEF DeviceInv, RetryInv, SpeedInv, host,
     deviceInfo, lockVars, portVars, delayVars
<1> QED BY <1>4, <1>5, <1>6 DEF DeviceInv

\* Every step keeps HostInv,
LEMMA HostStep ==
  ASSUME GoodAnswers, TypeOK, HostInv, [Next]_vars
  PROVE  HostInv'
<1>1. LockInv'
  BY LockStep DEF HostInv, GoodAnswers
<1>2. IssuerInv' /\ \A h \in Hubs : DeviceInv(h)'
  <2>1. ASSUME NEW p \in Hubs, fsm(p) \/ Application(p)
        PROVE  IssuerInv' /\ \A h \in Hubs : DeviceInv(h)'
    BY <2>1, IssuerStep, DeviceOwn, DeviceOthers
  <2>2. ASSUME NEW t, TransferCompletes(t)
        PROVE  IssuerInv' /\ \A h \in Hubs : DeviceInv(h)'
    BY <2>2, CompletesStep DEF TransferCompletes, HostInv, IssuerInv, delayVars
  <2>3. ASSUME NEW p \in Hubs, Plug(p) \/ Unplug(p)
        PROVE  IssuerInv' /\ \A h \in Hubs : DeviceInv(h)'
    BY <2>3, PlugStep DEF Plug, Unplug, HostInv, IssuerInv, delayVars,
       transferVars
  <2>4. CASE usb_host_poll
    BY <2>4, PollStep DEF usb_host_poll, HostInv, IssuerInv, delayVars,
       transferVars
  <2>5. CASE UNCHANGED vars
    <3>1. /\ UNCHANGED <<host, turn>> /\ UNCHANGED host
          /\ UNCHANGED <<token, device, device_address, device_toggle>>
      BY <2>5 DEF vars, host, transferVars, deviceVars
    <3>2. \A h \in Hubs : attach(h)' = attach(h)
      BY <3>1 DEF attach
    <3>3. IssuerInv'
      BY <3>1 DEF HostInv, IssuerInv, host, delayVars
    <3> QED BY <3>1, <3>2, <3>3, DeviceKept
  <2> QED BY <2>1, <2>2, <2>3, <2>4, <2>5 DEF Next
<1> QED BY <1>1, <1>2 DEF HostInv

\* which holds at the start
LEMMA InitHost == Init => HostInv
<1> SUFFICES ASSUME Init PROVE HostInv
  OBVIOUS
<1>1. ASSUME NEW h \in Hubs PROVE DeviceInv(h)
  <2>1. /\ state[h] = "IDLE" /\ delay_next_state[h] = "IDLE" /\ ~attach(h)
        /\ ~do_not_retry[h] /\ transaction_lock # h /\ ~initial_check[h]
    BY <1>1, HubFacts DEF Init, attach
  <2>2. At(h) = "IDLE" /\ ~Busy(h) /\ Serving(h) = "IDLE"
    BY <2>1 DEF At, Busy, Serving, TransferStates, StageStates
  <2>3. ~OnBus(h)
    BY <2>1, <2>2 DEF OnBus, BusStates, TransferStates, StageStates,
       SendStates, RecvStates
  <2> QED BY <2>1, <2>2, <2>3 DEF DeviceInv, ShapeInv, AnswerInv, AddressInv,
          RegisterInv, ToggleInv, RetryInv, SpeedInv, DescriptorStates
<1>2. IssuerInv
  BY DEF Init, IssuerInv
<1> QED BY <1>1, <1>2, InitLock DEF HostInv

\* and therefore always.
LEMMA HostInvariant ==
  ASSUME GoodAnswers
  PROVE  Spec => [](TypeOK /\ HostInv)
<1>1. Init => TypeOK /\ HostInv
  BY InitTypeOK, InitHost
<1>2. TypeOK /\ HostInv /\ [Next]_vars => (TypeOK /\ HostInv)'
  BY NextTypeOK, HostStep DEF HostInv, LockInv
<1> QED BY <1>1, <1>2, PTL DEF Spec

(* Whatever the devices, the calls and the bounds: when a port is ready, the *)
(* address the public functions use for it is the one its device has taken,  *)
(* and the next bulk OUT packet carries the toggle the device expects, after *)
(* any number of requests, resets, switches behind a hub and replacements.   *)
THEOREM HostKnowsItsDevice ==
  ASSUME GoodAnswers
  PROVE  Spec => []DeviceAgreement
<1>1. TypeOK /\ HostInv => DeviceAgreement
  <2> SUFFICES ASSUME TypeOK, HostInv, NEW h \in Hubs, usb_host_ready(h),
                      attach(h)
               PROVE  /\ device_address[h] = AddressOf(h)
                      /\ bulk_out_toggle[h] = device_toggle[h]
    BY DEF DeviceAgreement
  <2>1. /\ state[h] = "READY"
        /\ "READY" \notin TransferStates \cup NewStates \cup DescStates
        /\ "READY" \notin NamedStates
    BY DEF usb_host_ready, TransferStates, StageStates, NewStates, DescStates,
       NamedStates
  <2> QED BY <2>1, Here
<1> QED BY <1>1, HostInvariant, PTL

(* A transfer runs with the speed and the address of the device it is for,   *)
(* for the whole of an enumeration, which lock_transaction sets them once    *)
(* for; and no state that reads a descriptor is entered after a NAK.         *)
THEOREM AnswersAreOwn ==
  ASSUME GoodAnswers, Unpluggable = {}
  PROVE  Spec => []OwnAnswers
<1>1. TypeOK /\ HostInv => OwnAnswers
  <2> SUFFICES ASSUME TypeOK, HostInv PROVE RegistersMatch /\ FreshDescriptor
    BY DEF OwnAnswers
  <2>1. FreshDescriptor
    BY DEF FreshDescriptor, HostInv, DeviceInv, RetryInv
  <2>2. ASSUME UH_EP_PID, token = "none"
        PROVE  /\ USB_CTRL = UHUB_CTRL[issuer]
               /\ attach(issuer) => USB_DEV_AD = device_address[issuer]
    <3>1. issuer \in Hubs /\ state[issuer] = "TRANSACTION"
      BY <2>2 DEF HostInv, IssuerInv
    <3>2. transaction_lock = issuer
      BY <3>1, PortFacts DEF HostInv, TransferStates
    <3>3. USB_CTRL = UHUB_CTRL[issuer]
      BY <3>1, <3>2 DEF HostInv, DeviceInv, SpeedInv
    <3> QED BY <2>2, <3>1, <3>3, OwnRegister
  <2> QED BY <2>1, <2>2 DEF RegistersMatch
<1> QED BY <1>1, HostInvariant, PTL
=============================================================================
