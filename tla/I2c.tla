-------------------------------- MODULE I2c --------------------------------
(***************************************************************************)
(* Two boards on an I2C bus, both running src/i2c.c: the host, whose timer *)
(* interrupt i2c_int_tmr0 makes one change of the bus per tick while the   *)
(* main loop waits for it, and the device, whose interrupt i2c_int_gpio    *)
(* follows SCL with wait_posedge and wait_negedge and stretches the clock  *)
(* while it calls back.  The device is faster than a tick: it has seen a   *)
(* level before the host changes it.  Numbers have BITS bits.              *)
(***************************************************************************)
EXTENDS Naturals, Sequences

CONSTANTS
  BITS,          \* bits of a byte (8)
  OwnAddress,    \* the address the device's start callback accepts
  Pauses,        \* whether the application lets the device run into its
                 \* timeout in the middle of a transaction
  GoesOn,        \* whether it goes on in a transaction after a refusal
  MaxBytes,      \* bound: bytes of a transaction
  MaxTransactions \* bound: transactions, repeated starts included

ASSUME I2cAssumption ==
  /\ BITS \in Nat \ {0, 1} /\ OwnAddress \in 0..(2^(BITS - 1) - 1)
  /\ {Pauses, GoesOn} \subseteq BOOLEAN
  /\ {MaxBytes, MaxTransactions} \subseteq Nat

\* What the proofs need to know of the powers.
ASSUME PowersAssumption ==
  \A n \in 0..BITS :
    2^n \in Nat \ {0} /\ 2^(n + 1) = 2 * 2^n /\ 2^n * 2^(BITS - n) = 2^BITS

VARIABLES
  host_state,   \* the low nibble, the bit number and the read flag (0x80)
  host_data, host_ack, TR0,
  call,         \* the function the main loop is in, with its argument
  host_sda, host_scl,  \* whether the host pulls the line low
  dev_sda,      \* what the device drives: 0, 1, or 2 for an input
  dev_scl,      \* whether the device stretches the clock
  edge,         \* a falling edge of SDA is pending
  device,       \* where i2c_int_gpio is, and its variables
  heard, given, \* history: what start and write were called with and have
                \* answered since the call began; what read has returned
  count         \* transactions and bytes so far

hostVars == <<host_state, host_data, host_ack, TR0, host_sda, host_scl>>
deviceVars == <<dev_sda, dev_scl, device, heard, given>>
vars == <<hostVars, deviceVars, call, edge, count>>

NoCall == [name |-> "none", byte |-> 0]
Byte == 0..(2^BITS - 1)
Top(data) == data \div 2^(BITS - 1)
Shift(data, bit) == (2 * data + bit) % 2^BITS

SDA == IF host_sda \/ dev_sda = 0 THEN 0 ELSE 1
SCL == IF host_scl \/ dev_scl THEN 0 ELSE 1

Init ==
  /\ host_state = [step |-> 0, bit |-> 0, read |-> FALSE]
  /\ host_data = 0 /\ host_ack = [ready |-> FALSE, nack |-> FALSE]
  /\ TR0 = FALSE /\ call = NoCall
  /\ host_sda = FALSE /\ host_scl = FALSE
  /\ dev_sda = 2 /\ dev_scl = FALSE /\ edge = FALSE
  /\ device = [pc |-> "idle", seen |-> FALSE, bit |-> 0, data |-> 0,
               read |-> FALSE, ready |-> FALSE]
  /\ heard = <<>> /\ given = <<>>
  /\ count = [transactions |-> 0, bytes |-> 0, read |-> FALSE]

-----------------------------------------------------------------------------
(* i2c_int_tmr0, one disjunct for each case *)

Goto(s) == host_state' = [host_state EXCEPT !.step = s]
Stays == UNCHANGED host_state

START ==
  \/ /\ host_state.step = 0 /\ host_sda' = TRUE /\ Goto(1)
     /\ UNCHANGED <<host_scl, host_data, host_ack>>
  \/ /\ host_state.step = 1 /\ host_scl' = TRUE /\ Goto(2)
     /\ UNCHANGED <<host_sda, host_data, host_ack>>

data_set ==
  \/ /\ host_state.step = 2 /\ Goto(3)
     /\ IF host_state.read THEN UNCHANGED <<host_sda, host_data>>
        ELSE host_sda' = (Top(host_data) = 0) /\ host_data' = Shift(host_data, 0)
     /\ UNCHANGED <<host_scl, host_ack>>
  \/ /\ host_state.step = 3 /\ host_scl' = FALSE /\ Goto(4)
     /\ UNCHANGED <<host_sda, host_data, host_ack>>

\* Mutant: the host does not wait for a stretched clock.
data_get_unstretched ==
  /\ host_state.step = 4 /\ Goto(5)
  /\ host_data' = IF host_state.read THEN Shift(host_data, SDA) ELSE host_data
  /\ UNCHANGED <<host_sda, host_scl, host_ack>>

data_get ==
  /\ host_state.step = 4 /\ SCL = 1 /\ Goto(5)
  /\ host_data' = IF host_state.read THEN Shift(host_data, SDA) ELSE host_data
  /\ UNCHANGED <<host_sda, host_scl, host_ack>>

last_bit == host_state.bit = BITS - 1

\* SDA is released, and then SCL pulled low.
data_end ==
  \/ /\ host_state.step = 5 /\ host_sda /\ host_sda' = FALSE /\ Stays
     /\ UNCHANGED <<host_scl, host_data, host_ack>>
  \/ /\ host_state.step = 5 /\ ~host_sda /\ host_scl' = TRUE
     /\ host_state' = IF last_bit THEN [host_state EXCEPT !.step = 6]
                      ELSE [host_state EXCEPT !.step = 2, !.bit = @ + 1]
     /\ UNCHANGED <<host_sda, host_data, host_ack>>

\* Mutant: the acknowledge is sampled although the device stretches the clock.
ACK_unstretched ==
  \/ /\ host_state.step = 6 /\ Goto(7)
     /\ host_sda' = (host_state.read \/ host_sda)
     /\ UNCHANGED <<host_scl, host_data, host_ack>>
  \/ /\ host_state.step = 7 /\ host_scl' = FALSE /\ Goto(8)
     /\ UNCHANGED <<host_sda, host_data, host_ack>>
  \/ /\ host_state.step = 8 /\ Goto(9)
     /\ host_ack' = IF host_state.read THEN host_ack
                    ELSE [ready |-> FALSE, nack |-> SDA = 1]
     /\ UNCHANGED <<host_sda, host_scl, host_data>>
  \/ /\ host_state.step = 9 /\ host_scl' = TRUE /\ Goto(10)
     /\ UNCHANGED <<host_sda, host_data, host_ack>>

ACK ==
  \/ /\ host_state.step = 6 /\ Goto(7)
     /\ host_sda' = (host_state.read \/ host_sda)
     /\ UNCHANGED <<host_scl, host_data, host_ack>>
  \/ /\ host_state.step = 7 /\ host_scl' = FALSE /\ Goto(8)
     /\ UNCHANGED <<host_sda, host_data, host_ack>>
  \/ /\ host_state.step = 8 /\ SCL = 1 /\ Goto(9)
     /\ host_ack' = IF host_state.read THEN host_ack
                    ELSE [ready |-> FALSE, nack |-> SDA = 1]
     /\ UNCHANGED <<host_sda, host_scl, host_data>>
  \/ /\ host_state.step = 9 /\ host_scl' = TRUE /\ Goto(10)
     /\ UNCHANGED <<host_sda, host_data, host_ack>>

\* Mutant: a byte that was read is not reported.
done_after_write ==
  /\ host_state.step = 10 /\ Stays
  /\ host_ack' = [host_ack EXCEPT !.ready = ~host_state.read]
  /\ host_sda' = (host_sda /\ ~host_state.read)
  /\ UNCHANGED <<host_scl, host_data>>

done ==
  /\ host_state.step = 10 /\ Stays
  /\ host_ack' = [host_ack EXCEPT !.ready = TRUE]
  /\ host_sda' = (host_sda /\ ~host_state.read)
  /\ UNCHANGED <<host_scl, host_data>>

STOP ==
  \/ /\ host_state.step = 11 /\ host_scl' = FALSE /\ Goto(12)
     /\ UNCHANGED <<host_sda, host_data, host_ack>>
  \/ /\ host_state.step = 12 /\ SCL = 1 /\ host_sda' = FALSE /\ Goto(13)
     /\ UNCHANGED <<host_scl, host_data, host_ack>>

RepeatedStart ==
  \/ /\ host_state.step = 14 /\ host_sda' = FALSE /\ Goto(15)
     /\ UNCHANGED <<host_scl, host_data, host_ack>>
  \/ /\ host_state.step = 15 /\ host_scl' = FALSE /\ Stays
     /\ host_ack' = [host_ack EXCEPT !.ready = TRUE]
     /\ UNCHANGED <<host_sda, host_data>>

-----------------------------------------------------------------------------
(* i2c_int_gpio.  pc names what it waits for.                                *)

Rising == {"addr", "dir", "mack", "stop_clock", "first", "data"}
Falling == {"dir_end", "ack_end", "bit_end", "mack_end", "byte_end", "nack_end"}
Callbacks == {"start", "read", "write"}

\* wait_posedge, wait_negedge: the other level first.
Level == IF device.pc \in Rising THEN 1 ELSE 0
Sees == device.pc \in Rising \union Falling /\ ~device.seen /\ SCL # Level
Passed(pc) == device.pc = pc /\ device.seen /\ SCL = Level

Wait(pc) == [device EXCEPT !.pc = pc, !.seen = FALSE]

Interrupt ==
  /\ device.pc = "idle" /\ edge
  /\ device' = IF SDA = 1 THEN device
               ELSE [device EXCEPT !.pc = "addr", !.seen = FALSE, !.bit = 0,
                                   !.data = 0]
  /\ UNCHANGED <<dev_sda, dev_scl, heard, given>>

See ==
  /\ Sees
  /\ device' = [device EXCEPT !.seen = TRUE]
  /\ UNCHANGED <<dev_sda, dev_scl, heard, given>>

on_addr ==
  /\ Passed("addr")
  /\ device' = [Wait(IF device.bit = BITS - 2 THEN "dir" ELSE "addr")
                  EXCEPT !.data = Shift(@, SDA), !.bit = @ + 1]
  /\ UNCHANGED <<dev_sda, dev_scl, heard, given>>

on_dir ==
  /\ Passed("dir")
  /\ device' = [Wait("dir_end") EXCEPT !.read = (SDA = 1)]
  /\ UNCHANGED <<dev_sda, dev_scl, heard, given>>

\* The clock is stretched while start runs.
on_dir_end ==
  /\ Passed("dir_end")
  /\ dev_scl' = TRUE /\ device' = [device EXCEPT !.pc = "start"]
  /\ UNCHANGED <<dev_sda, heard, given>>

\* What the host has called i2c_begin with.
Dir == IF device.read THEN 1 ELSE 0
Heard(byte, ok) == Append(heard, [byte |-> byte, ok |-> ok])

\* start and read return; read may refuse.
start(answer, data) ==
  LET ours == device.data = OwnAddress
      ready == ours /\ (device.read => answer)
  IN  /\ device.pc = "start"
      /\ heard' = Heard(2 * device.data + Dir, ready)
      /\ given' = IF ready /\ device.read THEN <<data>> ELSE <<>>
      /\ dev_sda' = IF ready THEN 0 ELSE dev_sda
      /\ dev_scl' = FALSE
      /\ device' = [Wait("ack_end") EXCEPT !.ready = ready,
                      !.data = IF device.read THEN data ELSE 0]

\* The next bit of data, and what is left.
Bit(data) == IF device.ready THEN Top(data) ELSE dev_sda

\* Mutant: the acknowledge is given while SCL is high already.
on_ack_end_late ==
  /\ device.pc = "ack_end" /\ device.seen
  /\ IF device.read
     THEN /\ dev_sda' = IF device.ready THEN Top(device.data) ELSE dev_sda
          /\ device' = [Wait("bit_end") EXCEPT !.data = Shift(@, 0), !.bit = 0]
     ELSE dev_sda' = 2 /\ device' = Wait("first")
  /\ UNCHANGED <<dev_scl, heard, given>>

\* The acknowledge ends; the first bit follows.
on_ack_end ==
  /\ Passed("ack_end")
  /\ IF device.read
     THEN /\ dev_sda' = Bit(device.data)
          /\ device' = [Wait("bit_end") EXCEPT !.data = Shift(@, 0), !.bit = 0]
     ELSE dev_sda' = 2 /\ device' = Wait("first")
  /\ UNCHANGED <<dev_scl, heard, given>>

on_bit_end ==
  /\ Passed("bit_end")
  /\ IF device.bit = BITS - 1
     THEN dev_sda' = 2 /\ device' = Wait("mack")
     ELSE /\ dev_sda' = Bit(device.data)
          /\ device' = [Wait("bit_end") EXCEPT !.data = Shift(@, 0),
                                               !.bit = @ + 1]
  /\ UNCHANGED <<dev_scl, heard, given>>

on_mack ==
  /\ Passed("mack")
  /\ device' = Wait(IF SDA = 1 THEN "stop_clock" ELSE "mack_end")
  /\ UNCHANGED <<dev_sda, dev_scl, heard, given>>

on_stop_clock ==
  /\ Passed("stop_clock")
  /\ device' = [device EXCEPT !.pc = "stop"]
  /\ UNCHANGED <<dev_sda, dev_scl, heard, given>>

on_stop ==
  /\ device.pc = "stop" /\ SDA = 1
  /\ device' = [device EXCEPT !.pc = "idle"]
  /\ UNCHANGED <<dev_sda, dev_scl, heard, given>>

on_mack_end ==
  /\ Passed("mack_end")
  /\ IF device.ready
     THEN dev_scl' = TRUE /\ device' = [device EXCEPT !.pc = "read"]
     ELSE /\ UNCHANGED dev_scl
          /\ device' = [Wait("bit_end") EXCEPT !.data = Shift(@, 0), !.bit = 0]
  /\ UNCHANGED <<dev_sda, heard, given>>

\* read returns; if it refuses, zeros are sent.
read(answer, data) ==
  LET next == IF answer THEN data ELSE 0
  IN  /\ device.pc = "read"
      /\ given' = Append(given, next)
      /\ dev_sda' = Top(next) /\ dev_scl' = FALSE
      /\ device' = [Wait("bit_end") EXCEPT !.bit = 0, !.data = Shift(next, 0)]
      /\ UNCHANGED heard

\* The first bit of a byte, or of a STOP or repeated START condition.
on_first ==
  /\ Passed("first")
  /\ device' = [Wait(IF SDA = 1 THEN "data" ELSE "first_low")
                  EXCEPT !.data = SDA, !.bit = 1]
  /\ UNCHANGED <<dev_sda, dev_scl, heard, given>>

\* SDA was low: if it rises before SCL falls the transaction is over.  SCL is
\* read before SDA, so that both may have changed.
on_first_low ==
  /\ device.pc = "first_low"
  /\ \/ SCL = 0 /\ device' = Wait("data")
     \/ SDA = 1 /\ device' = Wait("idle")
  /\ UNCHANGED <<dev_sda, dev_scl, heard, given>>

on_data ==
  /\ Passed("data")
  /\ device' = [Wait(IF device.bit = BITS - 1 THEN "byte_end" ELSE "data")
                  EXCEPT !.data = Shift(@, SDA), !.bit = @ + 1]
  /\ UNCHANGED <<dev_sda, dev_scl, heard, given>>

on_byte_end ==
  /\ Passed("byte_end")
  /\ IF device.ready
     THEN dev_scl' = TRUE /\ device' = [device EXCEPT !.pc = "write"]
     ELSE UNCHANGED dev_scl /\ device' = Wait("nack_end")
  /\ UNCHANGED <<dev_sda, heard, given>>

\* write returns; SDA is an output for NACK, too.
write(answer) ==
  /\ device.pc = "write"
  /\ heard' = Heard(device.data, answer)
  /\ dev_sda' = (IF answer THEN 0 ELSE 1) /\ dev_scl' = FALSE
  /\ device' = Wait("ack_end")
  /\ UNCHANGED given

on_nack_end ==
  /\ Passed("nack_end")
  /\ device' = Wait("first")
  /\ UNCHANGED <<dev_sda, dev_scl, heard, given>>

Follow ==
  \/ Interrupt \/ See \/ on_addr \/ on_dir \/ on_dir_end \/ on_ack_end
  \/ on_bit_end \/ on_mack \/ on_stop_clock \/ on_stop \/ on_mack_end
  \/ on_first \/ on_first_low \/ on_data \/ on_byte_end \/ on_nack_end

Callback ==
  \/ \E answer \in BOOLEAN, data \in Byte :
       start(answer, data) \/ read(answer, data)
  \/ \E answer \in BOOLEAN : write(answer)

\* A wait has counted to 255: the interrupt returns and drives what it drives.
Timeout ==
  /\ device.pc \in Rising \union Falling /\ ~TR0 /\ call = NoCall
  /\ Pauses \/ host_state.step = 0
  /\ device' = [device EXCEPT !.pc = "idle"]
  /\ UNCHANGED <<dev_sda, dev_scl, heard, given>>

-----------------------------------------------------------------------------
(* The main loop of the host: i2c_begin, i2c_write, i2c_read, i2c_end *)

Reacts ==
  \/ device.pc = "idle" /\ edge
  \/ Sees
  \/ device.pc = "stop" /\ SDA = 1
  \/ device.pc = "first_low" /\ (SCL = 0 \/ SDA = 1)
  \/ \E pc \in Rising \union Falling : Passed(pc)

begins(name, byte, state, data) ==
  /\ call' = [name |-> name, byte |-> byte]
  /\ host_state' = state /\ host_data' = data
  /\ host_ack' = [ready |-> FALSE, nack |-> FALSE] /\ TR0' = TRUE
  /\ UNCHANGED <<host_sda, host_scl>>

Step(s, reads) == [step |-> s, bit |-> 0, read |-> reads]

\* host_state is 10 in a transaction, or 15 behind a repeated START.
Between(name) == call.name = name /\ ~Reacts

\* A device has to time out before it looks for a START condition: the
\* application waits that long.  A device that drives SDA never does.
i2c_begin ==
  /\ Between("none") /\ count.transactions < MaxTransactions
  /\ \E address \in 0..(2^(BITS - 1) - 1), rw \in {0, 1} :
       LET byte == 2 * address + rw
       IN  IF host_state.step = 0
           THEN /\ device.pc = "idle" /\ dev_sda = 2
                /\ begins("begin", byte, Step(0, FALSE), byte)
           ELSE /\ ~device.ready \/ Pauses
                /\ GoesOn \/ ~host_ack.nack
                /\ begins("restart", byte, Step(14, FALSE), host_data)
  /\ heard' = <<>>
  /\ count' = [count EXCEPT !.transactions = @ + 1, !.bytes = 0, !.read = FALSE]
  /\ UNCHANGED <<dev_sda, dev_scl, device, given>>

restarted ==
  /\ call.name = "restart" /\ host_ack.ready /\ ~Reacts
  /\ begins("begin", call.byte, Step(0, FALSE), call.byte)
  /\ UNCHANGED <<deviceVars, count>>

i2c_write ==
  /\ Between("none") /\ host_state.step = 10 /\ ~count.read
  /\ count.bytes < MaxBytes /\ (GoesOn \/ ~host_ack.nack)
  /\ \E data \in Byte : begins("write", data, Step(0, FALSE), data)
  /\ heard' = <<>>
  /\ count' = [count EXCEPT !.bytes = @ + 1]
  /\ UNCHANGED <<dev_sda, dev_scl, device, given>>

i2c_read ==
  /\ Between("none") /\ host_state.step = 10 /\ count.read
  /\ count.bytes < MaxBytes
  /\ begins("read", 0, Step(2, TRUE), 0)
  /\ count' = [count EXCEPT !.bytes = @ + 1]
  /\ UNCHANGED deviceVars

i2c_end ==
  /\ Between("none") /\ host_state.step = 10
  /\ call' = [name |-> "end", byte |-> 0]
  /\ host_state' = [host_state EXCEPT !.step = 11] /\ TR0' = TRUE
  /\ UNCHANGED <<host_data, host_ack, host_sda, host_scl, deviceVars, count>>

\* A function returns.  What is read is read behind an acknowledged i2c_begin.
Returns ==
  /\ ~Reacts /\ call' = NoCall /\ TR0' = FALSE
  /\ \/ /\ call.name \in {"begin", "write", "read"} /\ host_ack.ready
        /\ UNCHANGED host_state
        /\ count' = [count EXCEPT !.read =
             IF call.name = "begin" THEN ~host_ack.nack /\ call.byte % 2 = 1
             ELSE @]
        /\ given' = IF call.name = "read" THEN Tail(given) ELSE given
     \/ /\ call.name = "end" /\ host_state.step = 13
        /\ host_state' = Step(0, FALSE)
        /\ UNCHANGED <<count, given>>
  /\ UNCHANGED <<host_data, host_ack, host_sda, host_scl, dev_sda, dev_scl,
                 device, heard>>

-----------------------------------------------------------------------------

\* data_end does not wait between its writes: a device in first_low may see
\* the first of them, or both at once.
i2c_int_tmr0 ==
  /\ TR0 /\ (Reacts => host_state.step = 5 /\ device.pc = "first_low")
  /\ \/ START \/ data_set \/ data_get \/ data_end \/ ACK \/ done \/ STOP
     \/ RepeatedStart
  /\ UNCHANGED <<TR0, call, deviceVars, count>>

i2c_int_gpio ==
  (Follow \/ Callback \/ Timeout) /\ UNCHANGED <<hostVars, call, count>>

Calls == i2c_begin \/ restarted \/ i2c_write \/ i2c_read \/ i2c_end \/ Returns

\* A falling edge of SDA raises the interrupt, and taking it clears it.
Edge ==
  edge' = \/ SDA = 1 /\ SDA' = 0
          \/ edge /\ ~(device.pc = "idle")

Next == (i2c_int_tmr0 \/ i2c_int_gpio \/ Calls) /\ Edge

Spec == Init /\ [][Next]_vars

\* The timer runs, the device goes on, callbacks return.
Fairness ==
  /\ WF_vars(i2c_int_tmr0 /\ Edge) /\ WF_vars(i2c_int_gpio /\ Edge)
  /\ WF_vars((restarted \/ Returns) /\ Edge)

FairSpec == Spec /\ Fairness

-----------------------------------------------------------------------------
(* Properties *)

Return(names) == call.name \in names /\ call' = NoCall

(* i2c_begin and i2c_write return true just when a callback of the device    *)
(* has accepted this very byte, however long it stretched the clock.         *)
WritesArrive ==
  Return({"begin", "write"}) =>
    (~host_ack.nack <=> heard = <<[byte |-> call.byte, ok |-> TRUE]>>)

(* i2c_read returns what the device's read callback gave, byte by byte.      *)
ReadsArrive ==
  Return({"read"}) => Len(given) > 0 /\ host_data = Head(given)

(* A call reports what has happened on the other side of the bus.            *)
BytesArrive == [][WritesArrive /\ ReadsArrive]_vars

(* While SCL is high SDA falls at a START condition only: nobody else on the *)
(* bus sees a transaction begin that does not.  It rises only where the host *)
(* ends a bit that it has sent, when it releases SDA before it pulls SCL low *)
(* (i2c.c:242), and never because of a device: a zero does end like a STOP   *)
(* condition.                                                                *)
SdaStable ==
  [][SCL = 1 /\ SCL' = 1 /\ SDA' # SDA =>
       TR0 /\ host_state.step = (IF SDA = 1 THEN 0 ELSE 5)]_vars

(* Every function of the host returns if callbacks do.                       *)
CallsReturn == call # NoCall ~> call = NoCall

=============================================================================
