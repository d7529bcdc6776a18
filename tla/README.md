# A verification of chlib

chlib is a C library for the CH559 (8051) micro controller: a USB host with
HID drivers, a USB device, BLE over a USB dongle, storage in flash, a timer and
a few simple peripherals.  There is no operating system.  A program is one main
loop that calls `..._poll()` functions, state machines that advance a little
per call, plus a few interrupt handlers.  What is hard about it is therefore
the order in which state machines that share one controller advance, and what
the world outside (devices, hosts, centrals, power) does meanwhile.

This directory holds TLA+ models of the parts with most of that difficulty,
TLC configurations that check them on small instances, and TLAPS proofs of the
properties that matter most for every value of the constants.  All paths below
are relative to `src/src/`.

## 1. Inventory

| component | state | operations and interactions | what is hard | what makes it correct |
|---|---|---|---|---|
| **USB host** `usb/usb_host.c` | `state`, `delay_*`, `hub_address`, `initial_check`, `resetting`, `is_hid`, toggles, per port; one transfer context (`transaction_*`), one `transaction_lock`, shared request templates, shared controller registers | `usb_host_poll` runs `fsm` of each port; `usb_host_setup/in/out/hid_get_report/hub_switch` from the application; callbacks `check_*`, `in`, `hid_report` | two state machines share one controller; devices answer NAK, STALL or not at all and disappear at any moment; the lock is taken and released in many states | one port uses the bus at a time, and its transfer has its own address and speed; every port gets its turn; host and device agree on address and toggle |
| **Flash** `flash.c` | `flash_size`, `flash_magic`, two flash areas | `flash_init`, `flash_read`, `flash_write`; commands of the ROM controller | power goes between two commands, commands fail | the block changes at once or not at all |
| **Timer 3** `timer3.c` | the hardware counter | raw, ms and us ticks, three comparisons | the counter moves on between the two byte reads, and starts again every second | a value read was there; a comparison was right at some moment |
| **delays** of `usb_host.c` | `delay_begin`, `delay_end` | `delay_us`, `delay_ms`, `state_delay_*` | intervals across the restart | a delay ends, and not much too early |
| **BLE peripheral** `usb/ble/ble_peripheral.c`, `ble/hci.c`, `ble/l2cap.c` | `state`, `bringup_step`, `tx_buf`, `acl_tx_buf`, `encrypted_state`, `smp_phase3_pending` | `ble_peripheral_poll` on the USB host; `in_cb` for events and ACL packets; `ble_peripheral_send_notification` | one transmit slot for everything; two pipes without an order; unplugging and disconnecting in the middle of any dialogue | nothing asked is left unanswered; it advertises again; both sides hold the same bond |
| **Security Manager** `ble/smp.c` | `struct smp_session`, cached TK round keys | `smp_handle_pdu`, `smp_next_phase3_pdu`, `smp_lookup_ltk`, `smp_set/get_bond` | state that outlives a pairing or a connection | an honest pairing succeeds; a saved bond was distributed |
| **BLE HID** `usb/ble/ble_hid_peripheral.c` | `encrypted_state`, `notify_state`, `v_hid_cccd` | callbacks of BLE peripheral, `ble_hid_peripheral_send_report` | CCCD that survives connections | reports only on an encrypted link |
| **ATT server** `ble/att.c` | none (a database of attributes) | `att_dispatch` | range and length arithmetic | a response is within the MTU, handles ascend |
| **USB device** `usb/usb_device.c` | `state`, `last_setup_req`, `sending_data_ptr`, endpoint registers | an interrupt handler and `usb_device_send` of the main loop | both change the same registers; a host that abandons requests, resets the bus, loses an acknowledgement | control transfers carry the right bytes; a packet is read once and in order; address and line coding follow the host |
| **CDC**, **HID device** `usb/cdc_device.c`, `usb/hid_device.c` | `last_request`, line coding | endpoint callbacks, a blocking send | a host that stops reading | every packet is sent once, and sending ends |
| **HID host** `usb/hid/hid.c` | `struct hid_info`, `next_hub` | `hid_poll` over the USB host, callbacks of the enumeration; a parser of report descriptors | a device that replaces another; requests that are refused unseen; bit offsets that accumulate | layout and driver are those of the device that is there; controls are where the descriptor puts them |
| **HID drivers** `usb/hid/hid_*.c` | `usb_info[].state`, `switch_info` | `check_*`, `initialize`, `poll` and `report` of each controller | dialogues with NAKs and stray packets; a grip that is two controllers | a device gets its commands in order, and the application only its reports |
| **I2C** `i2c.c` | `host_state`, `host_data`, `host_ack`; the device's place in its interrupt | timer interrupt and main loop of the host; the device's interrupt follows SCL | shared variables, clock stretching, two sides that drive one wire | both sides agree on each byte and acknowledgement |
| **LED** `led.c` | pattern position | `led_poll` on timer 3 | end of a pattern | the index stays in the pattern |
| **AES** `crypto/aes.c` | none | key expansion, block | none | published vectors (`test/aes_test.cc`) |
| pins, ADC, PWM, UART, chip setup | none | single register accesses | none | - |

`hid_poll`, `ble_peripheral_poll` and applications sit on the USB host; the USB
host, LED and the security manager's random numbers sit on timer 3; BLE HID
sits on BLE peripheral, which uses ATT, SMP, HCI and L2CAP as functions.

## 2. Modules

| module | models | abstract specification |
|---|---|---|
| `UsbHost` (`MCUsbHost`, `UsbHostProofs`) | `usb_host.c`, both ports, their devices and the hub behind one | - |
| `FlashStore` | one block that changes at once | is one |
| `Flash` (`MCFlash`, `FlashProofs`) | `flash.c` on the ROM controller | `FlashStore` |
| `Timer3` | the byte reads of `timer3.c` | - |
| `Delay` (`DelayProofs`, also about `Timer3`) | ms ticks, intervals and delays | - |
| `UsbDevice` (`UsbDeviceProofs`) | `usb_device.c` with `cdc_device.c` or `hid_device.c`, and a host | - |
| `I2c` (`I2cProofs`) | `i2c.c` as host and as device on one bus | - |
| `HidReport` | `check_hid_report_desc` of `hid.c`, and what a descriptor means | its second half |
| `Hid` (`MCHid`, `HidProofs`) | `hid.c` and the drivers, over two ports of the USB host, with `HidReport` | - |
| `Smp` | `smp.c`, functions of a session | - |
| `BlePeripheral` (`BleProofs`, `BleBondProofs`) | `ble_peripheral.c` with `Smp` and `ble_hid_peripheral.c`, a dongle and a central | - |

**UsbHost.**  `turn` says who runs: a port's `fsm(h)` or the application
between two polls.  Each function `state_*` of the code is an action of the
same name, guarded by `state[h]`; `fsm` returning true (call me again) keeps the
turn, false passes it on (`Return`).  The device is part of the model: its
address, its toggle and its answer, chosen when a transfer completes.  Payloads
are reduced to what the code branches on (is it a hub, HID, has it strings, how
many packets).  `goto` resets `delay_next_state` to one value outside a delay,
because nothing reads it there.  `transaction_size` counts packets and wraps at
`SIZES` as the code's `uint16_t` wraps at 2^16: `usb_host.c:758` subtracts what has
arrived without comparing it with what was asked for, and a device may send more
(`Overlong`), or nothing, in which case `USB_RX_LEN` is the one of before.

**Flash.**  One step is one command of the ROM controller, so a `Shutdown` can
fall between any two.  `pc` names the command that comes next; `failed` is a
history variable with the kinds of command that have failed.  An erase or a
program command is atomic.  `flash_write` looks neither for a block nor for the end
of one: it may be called before `flash_init` or after one that has failed
(`misused` is the history of a write that found no block), and a request may run
past the end.

**Timer3** has one step per register read and an independent `Tick`.  **Delay**
treats a read as one step and looks at the intervals instead.  The seconds
(`timer3_int`, `sec_from_init`) and `timer3_tick_from_usec` are left out.

**UsbDevice.**  `usb_int` is one step, since nothing interrupts it; the main
loop has one step for each access to the endpoint's registers (`send_copy`,
`send_len`, `send_load`, `send_store`), so that an interrupt can fall between
reading `UEPn_CTRL` and writing it back.  The host is a state machine of the
stages of a control transfer; it may start another request at any stage, reset
the bus, and have its acknowledgement lost, in which case it takes the packet and
the device does not know.  The serial interface engine answers NAK as long as
`UIF_TRANSFER` is up (`Answers`), as the code's `bUC_INT_BUSY` asks.  A byte of a
descriptor is its offset, a packet its number.  The requests include ones the device
does not know (`UnknownRequests`), which halt it in `NOTREACHED`; an OUT that is sent
again because the device's acknowledgement was lost is left out.

**I2c.**  One step of the host is one timer tick, one case of
`i2c_int_tmr0`, but for the end of a bit, which is two: SDA is released, then SCL
pulled low (`data_end`).  One step of the device is one wait of `i2c_int_gpio`
(`wait_posedge` and `wait_negedge` wait for the other level first: `See`), or one
callback, during which it stretches the clock.  The device is quicker than a
tick (`~Reacts`), which has 120 clock cycles, but not than the two writes of
`data_end`.  In `on_first_low` it reads SCL and then SDA, so that it may see either of two
edges first.  The lines are open drain:
`SDA` and `SCL` are computed from what both sides drive.

**HidReport** is a fold of `parse_item` over the items of a descriptor.  The
descriptors are made from layouts, sequences of reports with named groups of
fields; `Meaning` says from the layout where each control is, without looking at
items, and `Finds` compares.

**Hid** uses the USB host as the contract `UsbHost` shows it to keep: one owner
of the bus, callbacks in the order of the enumeration, one answer per request,
requests refused unless the port is ready (`submit` keeps the first of several
calls of one poll).  `hid_info.source` notes for each part of the layout which
driver wrote it, for this device or "before"; `got` is what the device was sent.
The Nintendo dialogue is a table of nine commands with three states each, in the
order of the `enum`.

**Smp** has no variables: a function of `smp.c` becomes an operator on a session
record.  A confirm value is represented by the TK it was made with, since that
is what `on_pairing_random` finds out; a key by the number of the bond it
belongs to, because `random_fill` is expected not to repeat.  The central has no
keys to distribute: `smp.c:337` accepts their PDUs silently, `smp_handle_pdu` has no
such case.

**BlePeripheral.**  `usb` is the one transfer under way.  `ble_peripheral_poll`
starts transfers (`poll_*`); the end of an IN is `in_cb` with the whole handler
tree below it (`in_event`, `in_acl`) and happens in whatever state the main
loop has reached by then, which is the point.  `stage_tx(s, next)` is a function
of the value `state` has when it is called; `ble_send_acl` writes `acl_tx_buf`
first and stages afterwards, as the code does.  `staged` and `sent` are history.

## 3. Runs

| run | question | bounds | result |
|---|---|---|---|
| `usb_lock` | is the lock owned exactly while a port talks to its device; do host and device agree on address and toggle | two ports with pads, or a hub with a pad behind it on port 1; one replacement; every public function; ACK, STALL, error or no answer, more data than was asked for | holds |
| `usb_live` | does every transfer run with its own speed and address, is no descriptor read from a NAK; do transfers end, waiters get the lock, devices become ready | full speed pad and low speed mouse on two ports, two packets per data stage, ACK and NAK, an application that polls whenever it can | holds |
| `usb_stall` | `OwnTransfer` when an optional request is answered STALL | two keyboards | **violated** |
| `usb_unplug` | `TransactionCompletes` when the other port's pad is pulled out | two pads, one unplugging | **violated** |
| `flash_store` | is a write atomic, what is left when a command fails | four words, three first images, requests inside and past the end of the block, with and without `flash_init`, a failing erase and a failing program | holds |
| `delay_short` | are reads and comparisons right while the counter moves; do delays below a second end, at most a millisecond too early | 24 ticks per second in bytes of 4, ms of 3 ticks, any begin | holds |
| `delay_second` | does a delay of a whole second end | as above | **violated** |
| `ble_pairing` | do pairings end and keys agree, is a staged packet sent as built, is nothing left unanswered | two connections, two pairings, two requests, one report, one unplugging or restart | holds |
| `ble_notify` | `StagedPacketIntact` for an application that sends from its main loop | as above, no fault | **violated** |
| `usb_device` | do control transfers carry the right bytes and end, is every packet read once, does no handler hang but for an unknown request | descriptors of two packets, asked for in part, in whole or with room to spare, four requests, two packets each way, one bus reset, one lost acknowledgement | holds |
| `i2c_bytes` | do both sides agree on every byte, does SDA move under a high SCL only where it should, does every call return | bytes of 3 bits, three transactions of two bytes, any address, data and answers, a device whose address begins with a one | holds |
| `hid_drivers` | are layout and driver those of the device, are commands sent in order, does no driver wait in vain | thirteen kinds of devices on two ports, two plugs in all, 577 layouts of a pad | holds |

Why the bounds are enough: the USB host has two ports and one transfer context, so
two devices show every interleaving of two owners; a hub has the bus to itself
(`OneIfHub`), since what it adds, another address on the same port, does not
depend on the other port and what the other port adds is in the rest of the run; a
device comes back at most once, because nothing but `hub_address`, `do_not_retry`
and the controller's registers outlives an unplugging, and one replacement shows
each of them.  Two packets make the difference between a first and a last one.
Four words of flash are the two of MAGIC, one that is written and one that is not.
`timer3` needs a high byte that changes and one that restarts, and a delay more
than one of each.  Two connections show what one leaves to the next.  A descriptor
of four bytes with `ep0_size` 2 has a first, a last and an empty packet; one reset
and one lost acknowledgement fall at every place of two packets.  A byte of three
bits has a first, a middle and a last one, and two bytes show what one leaves to
the next. Two plugs are two ports in use or one device behind another, which is
all `hid_info` can remember; an unusual layout is tried with a pad that is alone
(`OddPadAlone`), because the parser keeps nothing from one descriptor to the next.
Two reports are the ones before and behind a report ID.

`usb_lock` has no device that answers SET_ADDRESS with STALL: the host then goes
on with the address the device refused, until the next request fails.

### What was found

* `usb_stall`: `state_transaction` gives the lock back on every STALL
  (`usb_host.c:765`).  States that end a request do that anyway, but others
  (`EXTRA_SETUP`, `HID_SET_PROTOCOL_DONE`, strings) go on without the lock, and
  the other port starts a transfer over theirs.
* `usb_unplug`: a detached port stops the controller (`usb_host.c:878`) without
  looking whose transfer it stops; the other port waits for ever.
* `delay_second`: `delay_ms(hub, 1000, STATE_CONNECT)` begun in millisecond 0
  waits for a counter outside 0..1000 ms, which never comes.
* `ble_notify`: a report that `ble_peripheral_send_notification` accepts while an
  IN transfer is under way is overwritten in `acl_tx_buf` by the response to what
  that transfer brings, and the response itself is refused
  (`ble_peripheral.c:361`).  `ble_pairing` shows that the packet stays intact when
  reports are sent from the `sent` callback, which never runs during an IN, or
  from the main loop with no transfer under way (`SendFrom = {"quiet", "sent"}`);
  `example/ble_example.c` sends from its main loop at any time.

Seen while modelling, and left out of the passing runs by a constant or a
condition that is named there:

* `FreshDescriptor` needs devices that stay plugged in: `do_not_retry` of an
  application's request outlives the device, and the next device's first
  descriptor may then be "read" from a NAK.
* The same flag is set by `state_set_feature` (`usb_host.c:588`), and a NAK to
  SET_FEATURE keeps it (`usb_host.c:817`).  A NAK to the request that follows, for
  the HID report descriptor, is then taken for its end, and the "descriptor" is
  what an earlier transfer left in `buffer`.  A device that can wake up its host
  and answers NAK to SET_FEATURE is enough: with `wakeup |-> TRUE` in `usb_live`,
  `OwnAnswers` fails.  So `usb_live` has no such device, and `GoodAnswers` of the
  proofs excludes NAKs of such devices.
* A delay that spans the restart of the counter ends with it, which
  `AtMostOneMsecShort` excludes.  Other delays may be short, too: `delay_ms` rounds
  its begin down to a millisecond, so that it may end almost one millisecond early.
  The 15 ms that `state_get_device_desc_recv` asks for (`usb_host.c:422`) may be
  little more than 14, where the comment in `state_connect` wants more than 15
  (`usb_host.c:333`).  `delay_us` is not short.
* `transaction_size` wraps when a device sends more than it was asked for, or when an
  IN ends without an answer and `USB_RX_LEN` is the one of an earlier packet; the host
  then goes on reading for as long as packets are full, whatever was asked for.
* `flash_write` drops what is past the end of the block and returns true
  (`flash.c:129`).  It returns true, too, when there is no block, before `flash_init` or
  after one that has failed; the bytes are then stored, but `flash_read` refuses to
  read them.  `ReadsWhatWasWritten` and `Refines` say what is left of the promise.
* After a failed program command `restore()` runs on an incomplete backup;
  `BackupWorks` holds until a command fails (`BackupComplete` proves it).
* With `PairsAgain = TRUE` a second pairing on one connection fails if it uses
  another method (the cached TK is stale), and after a finished one it saves a
  bond that was never sent (`phase3_index` is only reset by `smp_init`).
* Events and ACL packets arrive through two pipes.  Without `Settled` (a packet
  of a connection is not polled before the connection's event) a pairing request
  can be answered with the old handle and never end.
* Without a bound on reports, an application that sends in every `sent` callback
  keeps the IN pipes from being polled.
* `attr_write` is called for write commands that `do_write` has refused.
* USB device: an application that echoes from `recv`, as `example/cdc_example`
  does, spins in the interrupt handler for ever when the host sends a second
  packet before it has read the first echo (`HostReadsFirst = FALSE` violates
  `HandlerReturns`): the engine answers NAK to the IN it waits for.
* USB device: a bus reset between the read and the write of `UEPn_CTRL` in
  `usb_device_send` restores a control register of before the reset; the packet
  may be taken for an old one and is lost (`dropped`).  `state` stays READY over a
  reset; SET_CONFIGURATION does not reset the toggles; a received packet is handed
  on without a look at its toggle; `stall()` is never called and an unknown
  request halts the board.
* I2C: `i2c_end` lets SCL rise and then SDA (`i2c.c:277`), but SDA is let go
  already: after a write by the end of the last bit, after a read by the end of
  the acknowledge.  There is no rising edge and so no STOP condition.  An
  addressed device recognises no repeated START either; it has to time out, and
  the model's application waits for that (`i2c_begin`).  `i2c_read` always
  acknowledges, so that the device drives the next byte for ever and the read is
  the last transaction.  The guard of `i2c_begin` thus leaves out transactions
  back to back and repeated STARTs, which `example/i2c_host_example.c` has.  With
  `Pauses = TRUE`, a device that times out in the middle, `BytesArrive` fails.
* I2C: the host ends a bit by releasing SDA and then pulling SCL low
  (`i2c.c:242`).  After a zero SDA rises with SCL high, which is a STOP condition on the
  wire.  Only the device's wait in the first bit of a byte looks for one
  (`i2c.c:164`), and it reads SCL first; when it falls between the two writes, or reads
  SDA after both, it leaves the transaction, and the byte is refused though nothing
  was wrong with it.  `BytesArrive` still holds: it does not say that a byte is taken,
  but that none is reported as taken that was not.
* I2C: `i2c_int_gpio` takes any falling edge of SDA for a START condition
  (`i2c.c:53`), also one with SCL low.  A device that has refused a read address
  waits for MACK and STOP; an application that goes on in the transaction nevertheless
  (`GoesOn = TRUE`) gives it both in the middle of a byte, and the device is idle
  when the next bit falls.  The bits that follow are an address to it, the first of
  them a zero.  If they are its own (`OwnAddress < 2^(BITS - 2)`), it accepts a byte that
  was never sent to it, and `BytesArrive` fails.  With an address that begins with a one
  (`i2c_bytes`; `example/i2c_device_example.c` has 0x50) it holds, as `I2cProofs` shows.
  With a low address and an application that ends the transaction (`GoesOn = FALSE`) it
  holds in TLC's instances; that is not proved.  `example/i2c_host_example.c` goes
  on without a look at what `i2c_begin` returns, with a device at 0x08.
* HID: the Xbox drivers write twelve of the thirteen button bits: META keeps the
  bit of an earlier device (`LayoutIsDevices` leaves it out).
* HID: an axis without a usage of its own takes the next free slot and may fill all
  six; X and Y that follow are then lost, and so the groups come in an order
  where they are not.  A data field of four bits without a usage that follows a hat
  moves the hat: `usages` keeps its entries, only the index starts over.
* HID: `usb_host_setup` and the others answer whether they were accepted, and the
  drivers do not look; nor do they learn of a STALL, which ends an OUT as an ACK does.
  The missing `break`s of `hid_switch_poll` do no harm, because the second call of a
  poll is refused.

## 4. Fairness

* `usb_live`, `usb_unplug`: the main loop calls `usb_host_poll` for ever (weak
  fairness of each port's `fsm` and of the application's turn).  A transfer the
  controller has started ends (weak fairness), and a device does not answer NAK
  for ever (strong fairness of ACK): without it a device could keep a port from
  ever getting ready, which is its right but not the code's fault.  A delay ends
  when its poll finds the interval over: strong fairness of `DelayEnds`.  Module
  `Delay` is where this is checked, for delays of less than a second; for the
  delay of a whole second it is false (`delay_second`).
* `usb_device`: the interrupt is served and the main loop runs on (weak
  fairness); a host goes on with the stage it is in and reads a packet that is
  there without always losing its acknowledgement (strong fairness).  Nothing makes
  it send anything: `SendReturns` is about a host that has configured the device.
* `i2c_bytes`: the timer ticks, the device goes on, callbacks return (weak
  fairness of each side).
* `hid_drivers` states none.  That every device is polled for ever would need
  fairness of the whole host, and TLC does not finish with it; `NoDeadEnd` is
  the part that depends on the drivers.
* `delay_*`: the counter counts, and a poll falls sooner or later into each part
  of the second that comes again and again (strong fairness).
* `ble_*`: the main loop polls, and a transfer ends.  At most one such step is
  enabled at a time, so weak fairness of their union is weak fairness of each.
  Nothing is assumed of the central but that it answers what it has received.
  `PairingEnds`, `RequestsAnswered`, `Advertises` and `EncryptionReported` are checked
  without sends from the main loop during a transfer (`"loop" \notin SendFrom`): the
  one transmit slot is then never taken when a callback needs it.  With such sends
  (`example/ble_example.c`) a response, a key or ADV_ENABLE can be refused for good.

## 5. Proofs

`FlashProofs` (no assumption but the ones of `Flash`, none of them about the order of
calls): `TypeCorrect`,
`ProgramsErased`, `BackupComplete`, `WritesAreRead` and `Refinement` for every
size of the block, every magic that is not all erased, all first images, all
requests and any set of faults.  None of the properties is inductive: what
`restore()` copies is right only because of what the code flash holds word by
word, which in turn is what the loop of `flash_write` has put there.  The
invariant is `Inv`: `Types`, and as long as no command has failed `Good`, which
says for each `pc` what both areas hold (`FormatInv`, `WriteInv`, `RestoreInv`,
`IdleInv`), the loops being described by `Copied(f, v)`: everything from word
`w` on is still erased or already copied.  `NextTypes` and `NextGood` show that
a step keeps them, `GoodStepRefines` that a step before the first failure is a
step of `FlashStore` or leaves its variables alone, `BrokenStepRefines` that
afterwards, or after a write that found no block, until the next power-up, the abstract
store is "broken" and stays so.

`UsbHostProofs`: `TypeCorrect` for every set of ports, devices, calls and answers,
of any length: nothing keeps `transaction_size` from wrapping, and what the
theorem says of it is that the model's arithmetic is that of its width.  Under the
assumption `StallAt \subseteq ReleaseStates` (a STALL comes only where the next
state gives the lock back or takes it again; `usb_stall` shows that it is needed):
`LockDiscipline` (`LockMatchesPorts`, that is `LockHeldOnBus` and `NoLeakedLock`),
`TransfersAreOwn` (`OwnTransfer`) and `TemplatesProtected` (`TemplatesUnderLock`).
The three need one another: a port on the bus owns the lock because no other could
take it, and a transfer is its own because its issuer still owns the lock.  The
invariant `LockInv` has `ResetInv` (a port in a bus reset is in one of the states
of a reset, so that its missing detach test does no harm), `StallInv` (a STALL is
under way only for a request that may have one) and, for each port, `PortInv`,
which ties the state to the lock, to the issuer of the transfer and to the state
it will go on in.  The many actions are first sorted into a few kinds of step
(`FsmKinds`, `ApplicationKinds`, `NextKinds`: takes the lock, gives it back,
starts a transfer, goes on, ...); the invariant is then shown for each kind, for
the port that moves (`LockOwn`) and for the others (`LockOthers`).  TLC checked
the invariants on the instances of the runs before they were proved.

The second half of `UsbHostProofs` goes on from there to what the host believes of
a device: `HostKnowsItsDevice` (`DeviceAgreement`) and `AnswersAreOwn`
(`OwnAnswers`).  What makes them hard is the moment between a device's
acknowledgement and the host's learning of it: the device has its new address, or
its toggle has turned, while `fsm` is still in a state of the transfer.  `HostInv`
therefore speaks of the state a port *serves* (`Serving`: the state the transfer
or delay will go on in) and adds to `LockInv`, per port, the shape of the
transfers that matter (`ShapeInv`), where the device's address and the
controller's register are (`AddressInv`, `RegisterInv`), the toggle (`ToggleInv`),
when `do_not_retry` can be set (`RetryInv`) and the speed (`SpeedInv`).  The
assumption `GoodAnswers` excludes what is known to break them: a STALL where the
lock is kept (`usb_stall`) or in answer to SET_ADDRESS, a transfer that times out
though the device is there, an answer longer than what was asked for, and NAKs
when `do_not_retry` can be stale, as described in section 3.  `AnswersAreOwn` also
needs devices that stay plugged in (`Unpluggable = {}`): with a device that is
replaced in the middle of a transfer, the controller still has the speed of the
one before.

`DelayProofs`, for every width of the bytes, any number of ticks per millisecond
and per second: `ReadsWereRight` (`ReadsAreRight`) and `DelaysLast`
(`AtMostOneMsecShort`).  A comparison reads up to three bytes of a counter that
moves on.  Its answer was right at some moment of the call because of three
histories that exclude each other: the counter has been inside the interval ever
since the call began (`Steady`), always below it (`Below`), always above
(`Above`); the invariant says for each what the bytes compared so far must have
been.  `LongInv` then follows a delay through its polls.  The assumption
`MaxElapsed >= END` says that the model's clock of elapsed time is not capped
before the hardware counter starts again; the code has no such cap.

`UsbDeviceProofs`, for every length of descriptor, size of endpoint 0, number of
requests, packets, resets and lost acknowledgements: `DataArrivesInOrder`,
`PacketsArrive`, `DeviceAgrees`, `TypesOK`; `NeverHalts`, that nothing but a
request the device does not know reaches `NOTREACHED`, which is a claim about the
data and status stages that abandoned requests leave behind; and `AlwaysReturns`
for a host that reads an echo before it sends again (`HostReadsFirst`; without it
`HandlerReturns` fails, see section 3).  `StageInv` is the heart of the first: the
packet in the buffer is either the one the host waits for or one it has read
already, which the toggles tell apart (`Ahead`), and `sending_data` continues
whichever it is.  `PacketInv` does the same for endpoint 1, with `pc` added: which
packet is in the buffer, and whether the host has it, depends on how far
`usb_device_send` has got and on the control value it has loaded but not yet
stored.

`BleProofs`: `PacketKept` (`StagedPacketIntact`) for applications that do not send
while an IN is under way (`"loop" \notin SendFrom`; `ble_notify` shows what happens
otherwise): an IN is pending only in a polling state, so that its handler finds
the slot free.  `LinkEncrypted` (`EncryptedLink`) needs no assumption: an
`encryption_change` event that waits in the dongle is followed by a disconnection
unless the link is encrypted (`EncryptedInv`), and before the dongle was reset
there is nothing at all (`ResetInv`).

`BleBondProofs`: `BondKept` (`BondAgreement`), if a central pairs once on a
connection (`PairsAgain = FALSE`: a second pairing saves a bond that was never
sent, TLC finds it) and `"loop" \notin SendFrom`, which `PacketKept` needs.  The
agreement depends on nearly everything: events and packets come through two pipes,
sessions outlive connections, and a connection may end between any two of the
PDUs.  `BondInv` has `HandleInv` (connections are numbered; what the peripheral
knows of is older than what is still announced), `PacketsInv`, `TurnInv` (a PDU of
the central or its answer is under way, never both), `CentralInv`, `OrderInv`
(events come in the order of what happened; a distribution that the end of a
connection cut off, `CutOff`, is not taken up before the next connection has made
a new session), `RequestInv` and `KeysInv` (which keys were handed over, by
`phase3_index`).  As for the USB host the actions are first sorted into a few
effects (`BondSteps`).  TLC checked `BondInv` on all states of `ble_pairing`
before it was proved.

From the same effects and under the same two assumptions `FailureHasReason`
(`FailsForAReason`): a pairing fails only for a wrong passkey.  It fails in three
ways (the session refuses a PDU that finds another state, the confirm value does
not fit, the request for the STK gets a negative reply), and `FailInv` excludes the
first and the last.  `BringupInv`: the bring-up is a token, one command staged or
sent, its completion, the advertising, a link or the event of its end, so that a
restart never meets a command under way.  `LtkInv`: a request for a key is in the
pipe or being answered, once, and the one for the STK never with a negative reply.
`StageInv`: session and central go through the stages of a pairing in lockstep,
and the TK cached in the session is that of this pairing (`MethodInv`).  TLC
checked these, too, on all states of `ble_pairing` before they were proved.

`FlashProofs` also has `NoMixture` (`NeverMixed`), about the steps after a program
command has failed, where `Good` says nothing any more: a loop may then have
stopped at any word, but it copies from the last word down, so that an area it has
not completed has no magic (`MixInv`).

`HidProofs`, for any devices on the two ports, any layouts and any number of plugs:
`LayoutsAreRight` (`LayoutIsDevices`), `CommandsInOrder` (`ProtocolFollowed`),
`NobodyWaitsInVain` (`NoDeadEnd`) and `ReportsAreWhole` (`OnlyWholeReports`).  All
four follow from `HidInv`.  Its `PortInv` says of each port with a device, while it
is enumerated, what is known of it so far and that it has been told nothing
(`NewInv` to `ReportInv`), and once it is in use (`UsedInv`) that layout and type
are its own (`LayoutInv`), that it has been told the first `Position(h)` commands of
its protocol, or all of these but the one the host is busy with (`CalledInv`),
and what each driver's state says of the request under way (`DriverInv`): a
Switch controller, for one, owes the answer to its last command exactly while its
driver reads for it (`OwedInv`), so that a packet that is taken for an answer is
one.  `Position` is the abstraction: it counts commands from the driver's
`enum`, over both halves of a grip.  `SamePort` shows that what is said of a port
is about that port, and `PollElsewhere` and `HostElsewhere` that a step leaves the
other port alone (`OwnerInv`, the lock, is needed for the request under way).  Two
assumptions of `Hid` stand for computations the prover cannot do, as they go
through folds: `WalksFind`, what the walk through each configuration ends with, and
`ParserFinds`, that the layouts of the known pads are not taken for a PS4's.
There is no constant in them, so that TLC decides them once and for all when it
evaluates them (`hid_drivers`).  TLC checked `HidInv` on the states of
`hid_drivers` before it was proved.

`I2cProofs`, for every width of a byte, any data, answers and number of calls:
`SdaKept` (`SdaStable`), from `WireInv` (which line the host holds low at which of
its steps), and `Arrives` (`BytesArrive`).  Host and device never exchange more
than levels of two wires, so that both must count the same clocks: the invariant,
`I2cInv`, says for each step of the host how far the device is, and what either
has of the byte. `Bits(byte, n)` are the first n bits, `Rest(byte, n)` is what n
shifts leave (`Shifts`).  Host and device are always in one of eight modes
(`ModeInv`): the device reads an address (`AddressInv`), has answered
(`AnswerInv`), takes a byte (`WritingInv`), sends one (`ReadingInv`), sends one
while the host writes (`CrossedInv`), waits between two calls (`BetweenInv`), the
transaction has ended (`OverInv`), or the device takes no part in it (`LostInv`).
For each mode there is a lemma for a tick, for the device and for a call.
`LostInv` is the hard one: a device that has refused may follow the bus at a wrong
bit, fall idle and take an edge for a START condition, and still its next callback
must refuse (`Misled`: what it has read begins with a zero).  Since data_end may
end a zero like a STOP, any device may be lost, not only one that has refused.
Hence the assumptions `HighAddress` and `~Pauses`; section 3 says what happens
without them.  The first is more than TLC finds necessary when the application
stops at a refusal.  `SdaKept` needs neither.  `PowersAssumption` in `I2c` states
three facts of powers of two, for which the prover has no rules; TLC evaluates it
for the width of each run.  TLC checked `I2cInv` for widths of two to four bits
and both applications before it was proved.

Only model-checked:

* what is temporal (`usb_live`, `usb_unplug`, `delay_second`, the ends of
  `delay_short`, `SendReturns`, `ControlEnds`, `CallsReturn`, the liveness part of
  `ble_pairing`): the prover handles neither fairness nor ENABLED;
* `ReportParsed`: what a fold computes for every sequence needs an induction the
  prover cannot instantiate.

## 6. Not modelled

* USB host: `usb_host_reset` (a blocking reset of both ports), the acknowledge
  transfer of interrupt pipes, the payload of an OUT that takes more than one
  packet (its end is decided by a stale receive length, `usb_host.c:772`), the
  register setup of `usb_host_init`, and the parsing of descriptors, which is
  reduced to the kind of device it finds.
* Timer 3: `timer3_int` and `sec_from_init`, which counts seconds, and
  `timer3_tick_from_usec`.
* Flash: an erase that power interrupts half way, requests past 2^16.
* BLE: commands and events with an error status, transfers that halt the port,
  the MTU exchange, PDUs of a wrong length, keys a central distributes, the arithmetic of
  c1 and s1.
* USB host: whether a SET_ADDRESS reaches devices of both root ports when both
  are at address 0 depends on the controller; the model gives each port its own bus.
* USB device: `usb_device_init`, endpoints 2 and 3 (the same code), the
  bytes of descriptors, an OUT that is repeated because its acknowledgement was lost.
* I2C: the pins' setup, the device's `end` callback, the length of a wait.
* HID: descriptors of a wrong length, logical ranges and signs, what the commands
  to a controller say, the decoding of reports.
* ATT: a function of a request and the attribute database without state between
  calls; `BlePeripheral` has its requests as answered, written or notified.
* LED: a table look-up by the time of day with no other actor.  (At the end of a
  shot `shots[shot][...]` is read with `shot` equal to END, `led.c:75`.)
* AES, register access: pure functions of bytes, covered by vectors or without
  state.

## 7. Plan

Done first, because everything else sits on it: the USB host; then flash, whose
failure would lose data; timer 3 and the delays, on which the USB host's
progress depends; the BLE peripheral with the security manager; then the USB
device with its class drivers, the I2C bus, and the HID layer with its drivers
on top of what `UsbHost` promises.  To come:

1. `Att`: `att_dispatch` as operators over a small database, against a reference
   definition of each request, composed with `BlePeripheral`.
2. Commands and events of the dongle with an error status.
