----------------------------- MODULE I2cProofs -----------------------------
(***************************************************************************)
(* Proofs about I2c for every width of a byte and any calls: SDA changes   *)
(* while SCL is high at a START condition or where the host ends a bit     *)
(* only, and a call reports what the device has heard and given.           *)
(***************************************************************************)
EXTENDS I2c, SequenceTheorems, TLAPS

(* The address of the device begins with a one: what it takes for a START    *)
(* condition when it has lost the way, a falling edge of SDA while SCL is    *)
(* low, is followed by a zero.                                               *)
HighAddress == OwnAddress >= 2^(BITS - 2)

\* The first n bits of a byte, its bit n, and what is left behind n shifts.
Bits(byte, n) == byte \div 2^(BITS - n)
BitOf(byte, n) == Bits(byte, n + 1) - 2 * Bits(byte, n)
Rest(byte, n) == (byte % 2^(BITS - n)) * 2^n

-----------------------------------------------------------------------------
(* Types, and the host's side of the bus *)

CallNames == {"none", "begin", "write", "read", "restart", "end"}
Places == {"idle", "stop", "first_low"} \union Rising \union Falling \union Callbacks
Entry == [byte : Nat, ok : BOOLEAN]
HostState(h) ==
  /\ DOMAIN h = {"step", "bit", "read"}
  /\ h.step \in 0..15 /\ h.bit \in 0..(BITS - 1) /\ h.read \in BOOLEAN
AckState(a) == DOMAIN a = {"ready", "nack"} /\ {a.ready, a.nack} \subseteq BOOLEAN
CallState(c) == DOMAIN c = {"name", "byte"} /\ c.name \in CallNames /\ c.byte \in Byte
CountState(c) ==
  /\ DOMAIN c = {"transactions", "bytes", "read"}
  /\ {c.transactions, c.bytes} \subseteq Nat /\ c.read \in BOOLEAN
DeviceState(d) ==
  /\ DOMAIN d = {"pc", "seen", "bit", "data", "read", "ready"}
  /\ d.pc \in Places /\ d.bit \in Nat /\ d.data \in Byte
  /\ {d.seen, d.read, d.ready} \subseteq BOOLEAN

TypeInv ==
  /\ HostState(host_state) /\ AckState(host_ack) /\ host_data \in Byte
  /\ {TR0, host_sda, host_scl, dev_scl, edge} \subseteq BOOLEAN /\ dev_sda \in 0..2
  /\ CallState(call) /\ CountState(count) /\ DeviceState(device)
  /\ heard \in Seq(Entry)

At(pc) == device.pc = pc
On(names) == call.name \in names
step == host_state.step
bit == host_state.bit

\* Which steps belong to which call.
CallInv ==
  /\ TR0 <=> ~On({"none"})
  /\ On({"none"}) => step \in {0, 10}
  /\ On({"begin", "write"}) =>
       step \in 0..10 /\ ~host_state.read /\ (step \in {0, 1} => bit = 0)
  /\ On({"read"}) => step \in 2..10 /\ host_state.read
  /\ host_ack.ready => On({"restart", "none"}) \/ step \in {10, 11, 12, 13}
  /\ On({"end"}) => step \in 11..13
  /\ On({"restart"}) => step \in {14, 15}

ClockInv ==
  /\ step \in {2, 3, 6, 7, 10, 11, 14} => host_scl
  /\ step \in {4, 5, 8, 9, 12, 13} => ~host_scl
  /\ step \in {0, 1} => (host_scl <=> On({"write"}))
  /\ On({"restart"}) /\ host_ack.ready => step = 15 /\ ~host_scl
  /\ dev_scl <=> device.pc \in Callbacks

DataInv ==
  /\ step \in {0, 6} \union 11..15 => ~host_sda
  /\ step = 1 => host_sda
  /\ step = 2 => (host_sda <=> bit = 0 /\ ~host_state.read)
  /\ step \in 3..5 /\ host_state.read => ~host_sda
  /\ step \in 7..9 => (host_sda <=> host_state.read)
  /\ step = 10 /\ host_sda => On({"read"}) /\ ~host_ack.ready

WireInv == CallInv /\ ClockInv /\ DataInv

-----------------------------------------------------------------------------
(* How far host and device are with a byte *)

byte == call.byte

\* The bits of what begin and write send.
ByteInv ==
  On({"begin", "write"}) =>
    /\ step \in 0..2 => host_data = Rest(byte, bit)
    /\ step \in 3..5 => host_data = Rest(byte, bit + 1)
    /\ step \in {3, 4} => (host_sda <=> BitOf(byte, bit) = 0)

\* The device has taken n bits of a byte that it takes for an address.
Took(n) ==
  IF n = BITS
  THEN /\ At("dir_end") /\ device.data = Bits(byte, BITS - 1)
       /\ device.read <=> BitOf(byte, BITS - 1) = 1
  ELSE /\ At(IF n = BITS - 1 THEN "dir" ELSE "addr") /\ device.bit = n
       /\ device.data = Bits(byte, n)

\* It has found the START condition in time, or another edge of SDA before a
\* byte of i2c_write.
AddressAt ==
  \/ step = 0 /\ At("idle") /\ ~edge
  \/ step = 1 /\ At("idle") /\ edge
  \/ step = 1 /\ Took(0) /\ (device.seen => On({"write"}))
  \/ step \in {2, 3, 4} /\ Took(bit) /\ (step # 2 => device.seen)
  \/ step = 4 /\ Took(bit + 1) /\ (device.seen => bit = BITS - 1)
  \/ step = 5 /\ Took(bit + 1) /\ (device.seen <=> bit = BITS - 1)
  \/ step = 6 /\ Took(BITS) /\ device.seen
  \/ /\ step \in 6..8 /\ At("start")
     /\ device.data = Bits(byte, BITS - 1)
     /\ device.read <=> BitOf(byte, BITS - 1) = 1

AddressInv ==
  /\ On({"begin", "write"}) /\ (On({"write"}) => GoesOn) /\ ~count.read
  /\ heard = <<>> /\ dev_sda = 2 /\ AddressAt

\* The device drives bit n of a byte.
Drives(x, n) ==
  /\ At("bit_end") /\ device.bit = n
  /\ dev_sda = BitOf(x, n) /\ device.data = Rest(x, n + 1)

\* A callback has taken the byte, or refused it.
AnswerAt(ok) ==
  \/ /\ At("ack_end") /\ dev_sda = IF ok THEN 0 ELSE 1
     /\ device.read => given = <<device.data>>
     /\ (step < 8 => ~device.seen) /\ (step > 8 => device.seen)
  \/ step = 10 /\ ~device.read /\ At("first") /\ dev_sda = 2
  \/ /\ step = 10 /\ device.read /\ ~device.seen
     /\ \E x \in Byte : given = <<x>> /\ Drives(x, 0)

Answer(ok) ==
  /\ On({"begin", "write"}) /\ ~count.read /\ step \in 6..10
  /\ heard = <<[byte |-> byte, ok |-> ok]>>
  /\ device.ready /\ (device.read => ok)
  /\ device.read => IF On({"begin"}) THEN byte % 2 = 1 ELSE GoesOn
  /\ On({"begin"}) /\ ~device.read => ok /\ byte % 2 = 0
  /\ step \in {9, 10} => (host_ack.nack <=> ~ok)
  /\ AnswerAt(ok)

AnswerInv == \E ok \in BOOLEAN : Answer(ok)

\* The device has taken n bits of a byte that is written to it.
Wrote(n) ==
  /\ At(IF n = BITS THEN "byte_end" ELSE "data")
  /\ device.bit = n /\ device.data = Bits(byte, n)
FirstIsLow == At("first_low") /\ device.bit = 1 /\ device.data = 0 /\ Bits(byte, 1) = 0

WritingAt ==
  \/ step \in 0..4 /\ bit = 0 /\ At("first") /\ device.seen
  \/ ((step \in {4, 5} /\ bit = 0) \/ (step = 2 /\ bit = 1)) /\ FirstIsLow
  \/ step \in {2, 3, 4} /\ bit > 0 /\ Wrote(bit) /\ (step # 2 => device.seen)
  \/ step = 4 /\ Wrote(bit + 1) /\ (device.seen => bit = BITS - 1)
  \/ step = 5 /\ Wrote(bit + 1) /\ (device.seen <=> bit = BITS - 1)
  \/ step = 6 /\ Wrote(BITS) /\ device.seen
  \/ step \in 6..8 /\ At("write") /\ device.data = byte

WritingInv ==
  /\ On({"write"}) /\ ~count.read /\ heard = <<>> /\ dev_sda = 2
  /\ device.ready /\ ~device.read /\ WritingAt

\* The device is as far with a byte that it sends as the host is.
Sending(n) ==
  /\ At("bit_end") /\ device.bit = n
  /\ \/ step \in {0, 1} /\ n = 0 /\ ~device.seen
     \/ step \in {2, 3} /\ n = bit /\ ~device.seen
     \/ step = 2 /\ n + 1 = bit /\ device.seen
     \/ step = 4 /\ n = bit
     \/ step = 5 /\ n = bit /\ device.seen
     \/ step = 6 /\ n = BITS - 1 /\ device.seen

\* The host writes what the device has taken for an address to read from.
CrossedAt ==
  \/ \E n \in 0..(BITS - 1) : Sending(n)
  \/ step \in 6..8 /\ At("mack") /\ dev_sda = 2 /\ (step > 6 => device.seen)

CrossedInv ==
  /\ On({"write"}) /\ ~count.read /\ heard = <<>> /\ GoesOn
  /\ device.ready /\ device.read /\ CrossedAt

\* The host has read n bits of the byte x.
Got(x, n) == host_data = Bits(x, n)
GotSoFar(x) == Got(x, IF step < 5 THEN bit ELSE IF step = 5 THEN bit + 1 ELSE BITS)

ReadingAt(x) ==
  \/ given = <<x>> /\ \E n \in 0..(BITS - 1) : Sending(n) /\ Drives(x, n)
  \/ /\ given = <<x>> /\ dev_sda = 2
     /\ \/ step \in 6..8 /\ At("mack") /\ (step > 6 => device.seen)
        \/ step \in 8..10 /\ At("mack_end") /\ (step > 8 => device.seen)
        \/ step = 10 /\ At("read")
  \/ /\ step = 10 /\ ~device.seen
     /\ \E y \in Byte : given = <<x, y>> /\ Drives(y, 0)

ReadingInv ==
  /\ On({"read"}) /\ count.read /\ device.ready /\ device.read
  /\ \/ step \in 2..4 /\ bit = 0 /\ At("read") /\ given = <<>> /\ host_data = 0
     \/ \E x \in Byte : GotSoFar(x) /\ ReadingAt(x)

\* Nothing goes on between two calls.
BetweenInv ==
  /\ On({"none"}) /\ step = 10 /\ device.ready
  /\ \/ ~device.read /\ ~count.read /\ At("first") /\ device.seen /\ dev_sda = 2
     \/ count.read /\ device.read /\ At("read") /\ given = <<>>
     \/ /\ device.read /\ ~device.seen /\ (count.read \/ GoesOn)
        /\ \E x \in Byte : given = <<x>> /\ Drives(x, 0)

(* The device does not take part: it was not meant, has refused or has taken *)
(* the end of a zero for a STOP condition, and has lost the way.  It may     *)
(* take another edge of SDA for a START condition, but never takes what      *)
(* follows for its address.                                                  *)
Apart == {"ack_end", "first", "first_low", "data", "byte_end", "nack_end", "bit_end",
          "mack", "mack_end"}
Astray == {"stop_clock", "stop", "idle", "addr", "dir", "dir_end", "start"}
LostCall ==
  /\ On({"none", "begin", "write", "restart"}) /\ (On({"none"}) => step = 10)
  /\ dev_sda = 2 /\ ~count.read /\ (step \in {9, 10} => host_ack.nack)
LostPlace ==
  /\ device.pc \in Apart \union Astray /\ (device.pc \in Apart => ~device.ready)
Refused ==
  /\ heard # <<>> => ~Head(heard).ok
  /\ On({"restart"}) /\ heard # <<>> => At("ack_end") /\ (device.seen => SCL = 1)
Waiting ==
  /\ At("first_low") => host_sda \/ step = 5 \/ (SCL = 0 /\ step \notin {0, 1})
  /\ step \in {0, 1} =>
       ~At("stop") /\ ~At("idle") /\ (At("stop_clock") /\ device.seen => SCL = 0)
  /\ At("idle") /\ edge /\ SDA = 0 => step = 3
Misled ==
  /\ At("addr") =>
       \/ /\ device.bit = 0 /\ device.data = 0 /\ host_sda
          /\ step = 3 \/ (step = 4 /\ device.seen)
       \/ /\ device.bit \in 1..(BITS - 2)
          /\ device.data < 2^(device.bit - 1)
  /\ device.pc \in {"dir", "dir_end", "start"} => device.data < 2^(BITS - 2)
LostInv == LostCall /\ LostPlace /\ Refused /\ Waiting /\ Misled

OverInv == On({"end"}) \/ (On({"none"}) /\ step = 0)

ModeInv ==
  \/ OverInv \/ AddressInv \/ AnswerInv \/ WritingInv \/ CrossedInv \/ ReadingInv
  \/ BetweenInv \/ LostInv

I2cInv == TypeInv /\ WireInv /\ ByteInv /\ ModeInv
-----------------------------------------------------------------------------
(* Bytes and their bits *)

\* A number is quotient and remainder.
LEMMA Parts ==
  ASSUME NEW a \in Nat, NEW m \in Nat \ {0}
  PROVE  a \div m \in Nat /\ a % m \in 0..(m - 1) /\ a = (a \div m) * m + (a % m)
<1>1. PICK q \in Int : q = a \div m
  OBVIOUS
<1>2. q \in Nat /\ q * m <= a /\ a < q * m + m
  BY <1>1
<1>3. PICK r \in Int : r = a - q * m
  <2>1. a - q * m \in Int
    BY <1>2
  <2> QED BY <2>1
<1>4. a = q * m + r /\ r \in 0..(m - 1)
  BY <1>2, <1>3
<1>5. a % m = r
  BY <1>2, <1>4
<1> QED BY <1>1, <1>2, <1>4, <1>5

\* There are no others.
LEMMA PartsAre ==
  ASSUME NEW a \in Nat, NEW m \in Nat \ {0}, NEW q \in Nat, NEW r \in 0..(m - 1),
         a = q * m + r
  PROVE  a \div m = q /\ a % m = r
OBVIOUS

\* A number below m is its own remainder.
LEMMA Below ==
  ASSUME NEW m \in Nat \ {0}, NEW r \in 0..(m - 1)
  PROVE  r \div m = 0 /\ r % m = r
<1>1. r = 0 * m + r /\ r \in Nat
  OBVIOUS
<1> QED BY <1>1, PartsAre

\* What is known of the powers that occur.
LEMMA Powers ==
  ASSUME NEW n \in 0..(BITS - 1)
  PROVE  /\ 2^n \in Nat \ {0} /\ 2^(n + 1) = 2 * 2^n
         /\ 2^(BITS - n - 1) \in Nat \ {0}
         /\ 2^(BITS - n) = 2 * 2^(BITS - n - 1)
         /\ 2^BITS \in Nat \ {0} /\ 2^(BITS - 1) \in Nat \ {0}
         /\ 2^BITS = 2 * 2^(BITS - 1)
         /\ 2^n * 2^(BITS - n) = 2^BITS
<1>1. /\ n \in 0..BITS /\ BITS - n - 1 \in 0..BITS /\ BITS \in 0..BITS
      /\ BITS - 1 \in 0..BITS /\ (BITS - n - 1) + 1 = BITS - n /\ (BITS - 1) + 1 = BITS
  BY I2cAssumption
<1>2. 2^((BITS - n - 1) + 1) = 2 * 2^(BITS - n - 1) /\ 2^((BITS - 1) + 1) = 2 * 2^(BITS - 1)
  BY <1>1, PowersAssumption
<1> QED BY <1>1, <1>2, PowersAssumption

\* Shifting a byte out and in again, bit by bit.
LEMMA Shifts ==
  ASSUME NEW x \in Byte, NEW n \in 0..(BITS - 1)
  PROVE  /\ BitOf(x, n) \in {0, 1} /\ Bits(x, n + 1) = 2 * Bits(x, n) + BitOf(x, n)
         /\ {Bits(x, n), Bits(x, n + 1), Rest(x, n), Rest(x, n + 1)} \subseteq Byte
         /\ Top(Rest(x, n)) = BitOf(x, n) /\ Shift(Rest(x, n), 0) = Rest(x, n + 1)
         /\ Shift(Bits(x, n), BitOf(x, n)) = Bits(x, n + 1)
<1>1. PICK U \in Nat \ {0}, Q \in Nat \ {0}, M \in Nat \ {0} :
        /\ U = 2^(BITS - n - 1) /\ Q = 2^n /\ M = 2^BITS
        /\ 2^(BITS - n) = 2 * U /\ 2^(n + 1) = 2 * Q
        /\ Q * (2 * U) = M /\ M = 2 * 2^(BITS - 1)
  BY Powers
<1>2. /\ 2^(BITS - 1) = Q * U /\ BITS - (n + 1) = BITS - n - 1
      /\ Q * U \in Nat \ {0} /\ M = 2 * (Q * U)
  <2>1. Q * U \in Nat \ {0} /\ Q * (2 * U) = 2 * (Q * U)
    OBVIOUS
  <2>2. 2^(BITS - 1) \in Nat
    BY Powers
  <2> QED BY <1>1, <2>1, <2>2, I2cAssumption
<1>3. PICK q \in Nat, r \in 0..(2 * U - 1) :
        q = x \div (2 * U) /\ r = x % (2 * U) /\ x = q * (2 * U) + r
  <2>1. x \in Nat /\ 2 * U \in Nat \ {0}
    BY <1>1, Powers DEF Byte
  <2> QED BY <2>1, Parts
<1>4. PICK c \in {0, 1}, t \in 0..(U - 1) :
        (c = 0 /\ r = t) \/ (c = 1 /\ r = U + t)
  <2>1. CASE r < U
    BY <2>1
  <2>2. CASE r >= U
    <3>1. r - U \in 0..(U - 1) /\ r = U + (r - U)
      BY <2>2
    <3> QED BY <3>1
  <2> QED BY <2>1, <2>2
<1>5. x \in Nat /\ x < M /\ Byte = 0..(M - 1)
  BY <1>1 DEF Byte
<1>6. x \div U = 2 * q + c /\ x % U = t
  <2>1. PICK w \in Nat : w = q * (2 * U)
    OBVIOUS
  <2>2. CASE c = 0
    <3>1. (2 * q + 0) * U = w
      BY <2>1
    <3>2. x = (2 * q + 0) * U + t /\ 2 * q + 0 \in Nat
      BY <1>3, <1>4, <2>1, <2>2, <3>1
    <3> QED BY <1>5, <2>2, <3>2, PartsAre
  <2>3. CASE c = 1
    <3>1. (2 * q + 1) * U = w + U
      BY <2>1
    <3>2. x = (2 * q + 1) * U + t /\ 2 * q + 1 \in Nat
      BY <1>3, <1>4, <2>1, <2>3, <3>1
    <3> QED BY <1>5, <2>3, <3>2, PartsAre
  <2> QED BY <2>2, <2>3
<1>7. /\ Bits(x, n) = q /\ Bits(x, n + 1) = 2 * q + c
      /\ Rest(x, n) = r * Q /\ Rest(x, n + 1) = t * (2 * Q)
  BY <1>1, <1>2, <1>3, <1>6 DEF Bits, Rest
<1>8. BitOf(x, n) = c
  BY <1>7 DEF BitOf
<1>9. 2 * q + c <= x /\ q <= x
  <2>1. (2 * q + c) <= (2 * q + c) * U /\ 2 * q + c \in Nat
    OBVIOUS
  <2>2. x = (2 * q + c) * U + t
    BY <1>5, <1>6, Parts
  <2>3. PICK p \in Nat : p = (2 * q + c) * U
    BY <2>1
  <2> QED BY <2>1, <2>2, <2>3
<1>10. /\ t * Q \in Nat /\ t * Q < Q * U /\ t * (2 * Q) = 2 * (t * Q)
       /\ (c = 0 /\ r * Q = t * Q) \/ (c = 1 /\ r * Q = Q * U + t * Q)
  <2>1. t * Q <= (U - 1) * Q /\ (U - 1) * Q = Q * U - Q /\ t * Q \in Nat
    OBVIOUS
  <2>2. t * Q < Q * U
    <3>1. PICK p \in Nat, u \in Nat : p = t * Q /\ u = Q * U
      BY <2>1
    <3> QED BY <2>1, <3>1
  <2>3. (c = 0 /\ r * Q = t * Q) \/ (c = 1 /\ r * Q = Q * U + t * Q)
    BY <1>4
  <2> QED BY <2>1, <2>2, <2>3
<1>11. PICK N \in Nat \ {0}, v \in Nat :
         /\ v < N /\ N = Q * U /\ v = t * Q /\ M = 2 * N
         /\ (c = 0 /\ r * Q = v) \/ (c = 1 /\ r * Q = N + v)
         /\ t * (2 * Q) = 2 * v /\ 2^(BITS - 1) = N
  BY <1>2, <1>10
<1>12. Top(Rest(x, n)) = c /\ Shift(Rest(x, n), 0) = 2 * v
  <2>1. 2 * v \in 0..(M - 1) /\ v \in 0..(N - 1) /\ (2 * v) % M = 2 * v
    <3>1. 2 * v \in 0..(M - 1) /\ v \in 0..(N - 1)
      BY <1>11
    <3> QED BY <3>1, Below
  <2>2. CASE c = 0 /\ r * Q = v
    <3>1. v \div N = 0
      BY <2>1, Below
    <3>2. 2 * v + 0 = 2 * v
      OBVIOUS
    <3> QED BY <1>1, <1>7, <1>11, <2>1, <2>2, <3>1, <3>2 DEF Top, Shift
  <2>3. CASE c = 1 /\ r * Q = N + v
    <3>1. N + v = 1 * N + v /\ 2 * (N + v) + 0 = 1 * M + 2 * v
      BY <1>11
    <3>2. N + v \in Nat /\ 2 * (N + v) + 0 \in Nat /\ 2 * v \in 0..(M - 1)
      BY <2>1
    <3>3. (N + v) \div N = 1
      BY <2>1, <3>1, <3>2, PartsAre
    <3>4. (2 * (N + v) + 0) % M = 2 * v
      BY <3>1, <3>2, PartsAre
    <3> QED BY <1>1, <1>7, <1>11, <2>3, <3>3, <3>4 DEF Top, Shift
  <2> QED BY <1>11, <2>2, <2>3
<1>14. Shift(q, c) = 2 * q + c
  <2>1. 2 * q + c \in 0..(M - 1)
    BY <1>5, <1>9
  <2>2. (2 * q + c) % M = 2 * q + c
    BY <2>1, Below
  <2> QED BY <1>1, <2>2 DEF Shift
<1>15. {r * Q, 2 * v} \subseteq 0..(M - 1)
  BY <1>11
<1> QED BY <1>5, <1>7, <1>8, <1>9, <1>11, <1>12, <1>14, <1>15

\* The whole byte, and none of it.
LEMMA WholeByte ==
  ASSUME NEW x \in Byte
  PROVE  /\ Bits(x, 0) = 0 /\ Bits(x, BITS) = x /\ Rest(x, 0) = x
         /\ BitOf(x, BITS - 1) = x % 2 /\ 2 * Bits(x, BITS - 1) + (x % 2) = x
<1>1. x \in Nat /\ x < 2^BITS /\ 2^0 = 1 /\ 2^BITS \in Nat \ {0}
  BY Powers, I2cAssumption DEF Byte
<1>2. x \div 2^BITS = 0 /\ x % 2^BITS = x /\ x \div 1 = x
  BY <1>1
<1>3. BITS - 0 = BITS /\ BITS - BITS = 0 /\ BITS - (BITS - 1) = 1 /\ (BITS - 1) + 1 = BITS
  BY I2cAssumption
<1>4. Bits(x, 0) = 0 /\ Bits(x, BITS) = x /\ Rest(x, 0) = x
  <2>1. Bits(x, 0) = x \div 2^BITS /\ Bits(x, BITS) = x \div 2^0
    BY <1>3 DEF Bits
  <2>2. Rest(x, 0) = (x % 2^BITS) * 2^0
    BY <1>3 DEF Rest
  <2> QED BY <1>1, <1>2, <2>1, <2>2
<1>5. 2^1 = 2
  OBVIOUS
<1>6. Bits(x, BITS - 1) = x \div 2
  BY <1>3, <1>5 DEF Bits
<1>7. x = (x \div 2) * 2 + (x % 2) /\ x \div 2 \in Nat /\ x % 2 \in 0..1
  BY <1>1, Parts
<1> QED BY <1>3, <1>4, <1>6, <1>7 DEF BitOf

\* Bytes stay bytes.
LEMMA ByteOps ==
  /\ {0, 1} \subseteq Byte /\ BITS - 1 \in Nat \ {0}
  /\ \A x \in Byte, b \in {0, 1} : Shift(x, b) \in Byte /\ Top(x) \in {0, 1}
  /\ \A a \in 0..(2^(BITS - 1) - 1), b \in {0, 1} : 2 * a + b \in Byte
<1>1. /\ 0 \in 0..(BITS - 1) /\ BITS - 1 \in Nat \ {0}
      /\ 2^BITS \in Nat \ {0} /\ 2^(BITS - 1) \in Nat \ {0} /\ 2^BITS = 2 * 2^(BITS - 1)
  BY Powers, I2cAssumption
<1>2. ASSUME NEW x \in Byte, NEW b \in {0, 1}
      PROVE  Shift(x, b) \in Byte
  <2>1. 2 * x + b \in Nat
    BY DEF Byte
  <2> QED BY <1>1, <2>1, Parts DEF Shift, Byte
<1>3. ASSUME NEW x \in Byte
      PROVE  Top(x) \in {0, 1}
  <2>1. PICK N \in Nat \ {0} : N = 2^(BITS - 1) /\ x \in 0..(2 * N - 1)
    BY <1>1 DEF Byte
  <2>2. CASE x < N
    <3>1. x \in 0..(N - 1)
      BY <2>1, <2>2
    <3> QED BY <2>1, <3>1, Below DEF Top
  <2>3. CASE x >= N
    <3>1. x = 1 * N + (x - N) /\ x - N \in 0..(N - 1) /\ x \in Nat
      BY <2>1, <2>3
    <3> QED BY <2>1, <3>1, PartsAre DEF Top
  <2> QED BY <2>1, <2>2, <2>3
<1> QED BY <1>1, <1>2, <1>3 DEF Byte

\* The bus is a wired and.
LEMMA Wires == SDA \in {0, 1} /\ SCL \in {0, 1}
BY DEF SDA, SCL

-----------------------------------------------------------------------------
(* What a step does, field by field *)

HostIs(s, b, r) ==
  /\ DOMAIN host_state' = {"step", "bit", "read"}
  /\ host_state'.step = s /\ host_state'.bit = b /\ host_state'.read = r
HostGoes(s) == HostIs(s, bit, host_state.read)
AckIs(r, n) ==
  DOMAIN host_ack' = {"ready", "nack"} /\ host_ack'.ready = r /\ host_ack'.nack = n
CallIs(name, x) ==
  DOMAIN call' = {"name", "byte"} /\ call'.name = name /\ call'.byte = x
DeviceIs(p, s, n, x, r, y) ==
  /\ DOMAIN device' = {"pc", "seen", "bit", "data", "read", "ready"}
  /\ device'.pc = p /\ device'.seen = s /\ device'.bit = n /\ device'.data = x
  /\ device'.read = r /\ device'.ready = y
DeviceGoes(p, n, x) == DeviceIs(p, FALSE, n, x, device.read, device.ready)

\* The device has nothing to do.
Quiet ==
  /\ At("idle") => ~edge
  /\ device.pc \in Rising => (device.seen <=> SCL = 0)
  /\ device.pc \in Falling => (device.seen <=> SCL = 1)
  /\ At("stop") => SDA = 0
  /\ At("first_low") => SCL = 1 /\ SDA = 0

\* What the timer does in one tick.
Ticks ==
  \/ step = 0 /\ HostGoes(1) /\ host_sda' = TRUE
     /\ UNCHANGED <<host_scl, host_data, host_ack>>
  \/ step = 1 /\ HostGoes(2) /\ host_scl' = TRUE
     /\ UNCHANGED <<host_sda, host_data, host_ack>>
  \/ /\ step = 2 /\ HostGoes(3) /\ UNCHANGED <<host_scl, host_ack>>
     /\ host_state.read => UNCHANGED <<host_sda, host_data>>
     /\ ~host_state.read =>
          host_sda' = (Top(host_data) = 0) /\ host_data' = Shift(host_data, 0)
  \/ step = 3 /\ HostGoes(4) /\ host_scl' = FALSE /\ UNCHANGED <<host_sda, host_data, host_ack>>
  \/ /\ step = 4 /\ SCL = 1 /\ HostGoes(5) /\ UNCHANGED <<host_sda, host_scl, host_ack>>
     /\ host_data' = IF host_state.read THEN Shift(host_data, SDA) ELSE host_data
  \/ /\ step = 5 /\ host_sda /\ HostGoes(5) /\ host_sda' = FALSE
     /\ UNCHANGED <<host_scl, host_data, host_ack>>
  \/ /\ step = 5 /\ ~host_sda /\ host_scl' = TRUE
     /\ UNCHANGED <<host_sda, host_data, host_ack>>
     /\ \/ bit = BITS - 1 /\ HostGoes(6)
        \/ bit + 1 \in 0..(BITS - 1) /\ HostIs(2, bit + 1, host_state.read)
  \/ /\ step = 6 /\ HostGoes(7) /\ host_sda' = (host_state.read \/ host_sda)
     /\ UNCHANGED <<host_scl, host_data, host_ack>>
  \/ step = 7 /\ HostGoes(8) /\ host_scl' = FALSE /\ UNCHANGED <<host_sda, host_data, host_ack>>
  \/ /\ step = 8 /\ SCL = 1 /\ HostGoes(9) /\ UNCHANGED <<host_sda, host_scl, host_data>>
     /\ host_state.read => UNCHANGED host_ack
     /\ ~host_state.read => AckIs(FALSE, SDA = 1)
  \/ step = 9 /\ HostGoes(10) /\ host_scl' = TRUE /\ UNCHANGED <<host_sda, host_data, host_ack>>
  \/ /\ step = 10 /\ HostGoes(10) /\ AckIs(TRUE, host_ack.nack)
     /\ host_sda' = (host_sda /\ ~host_state.read) /\ UNCHANGED <<host_scl, host_data>>
  \/ step = 11 /\ HostGoes(12) /\ host_scl' = FALSE /\ UNCHANGED <<host_sda, host_data, host_ack>>
  \/ /\ step = 12 /\ SCL = 1 /\ HostGoes(13) /\ host_sda' = FALSE
     /\ UNCHANGED <<host_scl, host_data, host_ack>>
  \/ step = 14 /\ HostGoes(15) /\ host_sda' = FALSE /\ UNCHANGED <<host_scl, host_data, host_ack>>
  \/ /\ step = 15 /\ HostGoes(15) /\ host_scl' = FALSE /\ AckIs(TRUE, host_ack.nack)
     /\ UNCHANGED <<host_sda, host_data>>

\* What the device does of its own.  A wait that ends has seen the other level.
Ends(pc, level) == At(pc) /\ device.seen /\ SCL = level
Silent == UNCHANGED <<dev_sda, dev_scl, heard, given>>
Stretches(pc) ==
  /\ DeviceIs(pc, device.seen, device.bit, device.data, device.read, device.ready)
  /\ dev_scl' = TRUE /\ UNCHANGED <<dev_sda, heard, given>>

Moves ==
  \/ At("idle") /\ edge /\ SDA = 1 /\ UNCHANGED device /\ Silent
  \/ /\ At("idle") /\ edge /\ SDA = 0 /\ Silent
     /\ DeviceIs("addr", FALSE, 0, 0, device.read, device.ready)
  \/ /\ device.pc \in Rising \union Falling /\ ~device.seen /\ Silent
     /\ device.pc \in Rising => SCL = 0
     /\ device.pc \in Falling => SCL = 1
     /\ DeviceIs(device.pc, TRUE, device.bit, device.data, device.read, device.ready)
  \/ /\ Ends("addr", 1) /\ Silent
     /\ DeviceGoes(IF device.bit = BITS - 2 THEN "dir" ELSE "addr", device.bit + 1,
                   Shift(device.data, SDA))
  \/ /\ Ends("dir", 1) /\ Silent
     /\ DeviceIs("dir_end", FALSE, device.bit, device.data, SDA = 1, device.ready)
  \/ Ends("dir_end", 0) /\ Stretches("start")
  \/ /\ Ends("ack_end", 0) /\ device.read /\ dev_sda' = Bit(device.data)
     /\ DeviceGoes("bit_end", 0, Shift(device.data, 0))
     /\ UNCHANGED <<dev_scl, heard, given>>
  \/ /\ Ends("ack_end", 0) /\ ~device.read /\ dev_sda' = 2
     /\ DeviceGoes("first", device.bit, device.data) /\ UNCHANGED <<dev_scl, heard, given>>
  \/ /\ Ends("bit_end", 0) /\ device.bit = BITS - 1 /\ dev_sda' = 2
     /\ DeviceGoes("mack", device.bit, device.data) /\ UNCHANGED <<dev_scl, heard, given>>
  \/ /\ Ends("bit_end", 0) /\ device.bit # BITS - 1 /\ dev_sda' = Bit(device.data)
     /\ DeviceGoes("bit_end", device.bit + 1, Shift(device.data, 0))
     /\ UNCHANGED <<dev_scl, heard, given>>
  \/ /\ Ends("mack", 1) /\ Silent
     /\ DeviceGoes(IF SDA = 1 THEN "stop_clock" ELSE "mack_end", device.bit, device.data)
  \/ /\ Ends("stop_clock", 1) /\ Silent
     /\ DeviceIs("stop", device.seen, device.bit, device.data, device.read, device.ready)
  \/ /\ At("stop") /\ SDA = 1 /\ Silent
     /\ DeviceIs("idle", device.seen, device.bit, device.data, device.read, device.ready)
  \/ Ends("mack_end", 0) /\ device.ready /\ Stretches("read")
  \/ /\ Ends("mack_end", 0) /\ ~device.ready /\ Silent
     /\ DeviceGoes("bit_end", 0, Shift(device.data, 0))
  \/ /\ Ends("first", 1) /\ Silent
     /\ DeviceGoes(IF SDA = 1 THEN "data" ELSE "first_low", 1, SDA)
  \/ /\ At("first_low") /\ SCL = 0 /\ Silent
     /\ DeviceGoes("data", device.bit, device.data)
  \/ /\ At("first_low") /\ SDA = 1 /\ Silent
     /\ DeviceGoes("idle", device.bit, device.data)
  \/ /\ Ends("data", 1) /\ Silent
     /\ DeviceGoes(IF device.bit = BITS - 1 THEN "byte_end" ELSE "data", device.bit + 1,
                   Shift(device.data, SDA))
  \/ Ends("byte_end", 0) /\ device.ready /\ Stretches("write")
  \/ /\ Ends("byte_end", 0) /\ ~device.ready /\ Silent
     /\ DeviceGoes("nack_end", device.bit, device.data)
  \/ Ends("nack_end", 0) /\ DeviceGoes("first", device.bit, device.data) /\ Silent

\* What it does when a callback has returned.
Answers ==
  \E answer \in BOOLEAN, x \in Byte :
    \/ /\ At("start") /\ dev_scl' = FALSE
       /\ \E ok \in BOOLEAN :
            /\ ok <=> device.data = OwnAddress /\ (device.read => answer)
            /\ heard' = Heard(2 * device.data + Dir, ok)
            /\ given' = IF ok /\ device.read THEN <<x>> ELSE <<>>
            /\ dev_sda' = IF ok THEN 0 ELSE dev_sda
            /\ DeviceIs("ack_end", FALSE, device.bit, IF device.read THEN x ELSE 0,
                        device.read, ok)
    \/ /\ At("read") /\ dev_scl' = FALSE /\ given' = Append(given, x) /\ dev_sda' = Top(x)
       /\ DeviceGoes("bit_end", 0, Shift(x, 0)) /\ UNCHANGED heard
    \/ /\ At("write") /\ dev_scl' = FALSE /\ heard' = Heard(device.data, answer)
       /\ dev_sda' = (IF answer THEN 0 ELSE 1)
       /\ DeviceGoes("ack_end", device.bit, device.data) /\ UNCHANGED given

\* What it does when the host keeps it waiting.
GivesUp ==
  /\ device.pc \in Rising \union Falling /\ ~TR0 /\ call = NoCall
  /\ Pauses \/ step = 0
  /\ DeviceIs("idle", device.seen, device.bit, device.data, device.read, device.ready)
  /\ Silent

\* What the main loop does.
Begins(name, x, s, reads, data) ==
  /\ CallIs(name, x) /\ HostIs(s, 0, reads) /\ host_data' = data
  /\ AckIs(FALSE, FALSE) /\ TR0' = TRUE /\ UNCHANGED <<host_sda, host_scl>>
CountIs(reads) == CountState(count') /\ (count'.read <=> reads)
Hears == heard' = <<>> /\ UNCHANGED <<dev_sda, dev_scl, device, given>>

DoesBegin ==
  /\ On({"none"}) /\ step = 0 /\ At("idle") /\ dev_sda = 2 /\ Hears /\ CountIs(FALSE)
  /\ \E x \in Byte : Begins("begin", x, 0, FALSE, x)
DoesRestart ==
  /\ On({"none"}) /\ step # 0 /\ (~device.ready \/ Pauses) /\ (GoesOn \/ ~host_ack.nack)
  /\ \E x \in Byte : Begins("restart", x, 14, FALSE, host_data)
  /\ Hears /\ CountIs(FALSE)
DoesBeginAgain ==
  /\ On({"restart"}) /\ host_ack.ready /\ UNCHANGED <<deviceVars, count>>
  /\ Begins("begin", byte, 0, FALSE, byte)
DoesWrite ==
  /\ On({"none"}) /\ step = 10 /\ ~count.read /\ (GoesOn \/ ~host_ack.nack)
  /\ \E x \in Byte : Begins("write", x, 0, FALSE, x)
  /\ Hears /\ CountIs(count.read)
DoesRead ==
  /\ On({"none"}) /\ step = 10 /\ count.read /\ Begins("read", 0, 2, TRUE, 0)
  /\ UNCHANGED deviceVars /\ CountIs(count.read)
DoesEnd ==
  /\ On({"none"}) /\ step = 10 /\ CallIs("end", 0)
  /\ HostGoes(11) /\ TR0' = TRUE /\ UNCHANGED <<host_data, host_ack, host_sda, host_scl>>
  /\ UNCHANGED deviceVars /\ UNCHANGED count
DoesReturn ==
  /\ On({"begin", "write", "read"}) /\ host_ack.ready /\ CallIs("none", 0) /\ TR0' = FALSE
  /\ UNCHANGED <<host_state, host_data, host_ack, host_sda, host_scl>>
  /\ CountIs(IF On({"begin"}) THEN ~host_ack.nack /\ byte % 2 = 1 ELSE count.read)
  /\ given' = IF On({"read"}) THEN Tail(given) ELSE given
  /\ UNCHANGED <<dev_sda, dev_scl, device, heard>>
DoesFinish ==
  /\ On({"end"}) /\ step = 13 /\ CallIs("none", 0) /\ TR0' = FALSE /\ HostIs(0, 0, FALSE)
  /\ UNCHANGED <<host_data, host_ack, host_sda, host_scl>>
  /\ UNCHANGED deviceVars /\ UNCHANGED count

Main ==
  \/ DoesBegin \/ DoesRestart \/ DoesBeginAgain \/ DoesWrite \/ DoesRead \/ DoesEnd
  \/ DoesReturn \/ DoesFinish

\* A device that does not react is quiet.
LEMMA IsQuiet ==
  ASSUME TypeInv, ~Reacts
  PROVE  Quiet
<1>1. \A pc \in Rising \union Falling : ~Passed(pc)
  BY DEF Reacts
<1>2. device.pc \in Rising \union Falling => ~Passed(device.pc)
  BY <1>1
<1> QED BY <1>2, Wires
           DEF Quiet, Reacts, Sees, Passed, Level, At, Rising, Falling, TypeInv, DeviceState

\* i2c_int_tmr0 field by field.
LEMMA TickDoes ==
  ASSUME TypeInv, i2c_int_tmr0
  PROVE  /\ Ticks /\ TR0 /\ UNCHANGED <<TR0, call, deviceVars, count>>
         /\ Quiet \/ (step = 5 /\ At("first_low"))
<1>1. \A s : Goto(s) => HostGoes(s)
  BY DEF Goto, HostGoes, HostIs, TypeInv, HostState, bit
<1>2. Stays => HostGoes(step)
  BY DEF Stays, HostGoes, HostIs, TypeInv, HostState, bit, step
<1>3. host_ack' = [host_ack EXCEPT !.ready = TRUE] => AckIs(TRUE, host_ack.nack)
  BY DEF AckIs, TypeInv, AckState
<1>12. Quiet \/ (step = 5 /\ At("first_low"))
  BY IsQuiet DEF i2c_int_tmr0, step, At
<1> SUFFICES Ticks
  BY <1>12 DEF i2c_int_tmr0
<1>4. CASE START
  BY <1>1, <1>4 DEF START, Ticks, step
<1>5. CASE data_set
  BY <1>1, <1>5 DEF data_set, Ticks, step
<1>6. CASE data_get
  BY <1>1, <1>6 DEF data_get, Ticks, step
<1>7. CASE data_end
  <2>1. CASE host_sda
    BY <1>2, <1>7, <2>1 DEF data_end, Ticks, step
  <2>2. CASE ~host_sda /\ last_bit
    BY <1>1, <1>7, <2>2 DEF data_end, last_bit, Ticks, step, bit, Goto
  <2>3. CASE ~host_sda /\ ~last_bit
    <3>1. HostIs(2, bit + 1, host_state.read)
      BY <1>7, <2>3 DEF data_end, HostIs, TypeInv, HostState, bit
    <3>2. bit + 1 \in 0..(BITS - 1)
      BY <2>3, I2cAssumption DEF last_bit, TypeInv, HostState, bit
    <3> QED BY <1>7, <2>3, <3>1, <3>2 DEF data_end, Ticks, step
  <2> QED BY <2>1, <2>2, <2>3
<1>8. CASE ACK
  BY <1>1, <1>8 DEF ACK, AckIs, Ticks, step
<1>9. CASE done
  BY <1>2, <1>3, <1>9 DEF done, Ticks, step
<1>10. CASE STOP
  BY <1>1, <1>10 DEF STOP, Ticks, step
<1>11. CASE RepeatedStart
  BY <1>1, <1>2, <1>3, <1>11 DEF RepeatedStart, Ticks, step
<1> QED BY <1>4, <1>5, <1>6, <1>7, <1>8, <1>9, <1>10, <1>11 DEF i2c_int_tmr0

\* i2c_int_gpio field by field.
LEMMA DeviceDoes ==
  ASSUME TypeInv, i2c_int_gpio
  PROVE  Moves \/ Answers \/ GivesUp
<1> SUFFICES ASSUME (Follow \/ Callback \/ Timeout)
             PROVE  Moves \/ Answers \/ GivesUp
  BY DEF i2c_int_gpio
<1>1. DOMAIN device = {"pc", "seen", "bit", "data", "read", "ready"}
  BY DEF TypeInv, DeviceState
<1>2. \A pc \in Rising : Passed(pc) => Ends(pc, 1)
  BY DEF Passed, Level, Rising, Ends, At
<1>3. \A pc \in Falling : Passed(pc) => Ends(pc, 0)
  BY DEF Passed, Level, Falling, Rising, Ends, At
<1> USE <1>1 DEF DeviceGoes, DeviceIs, Wait, Silent, Stretches
<1>4. ASSUME Interrupt PROVE Moves
  BY <1>4, Wires DEF Interrupt, Moves, At
<1>5. ASSUME See PROVE Moves
  BY <1>5, Wires DEF See, Sees, Level, Moves, Rising, Falling
<1>6. ASSUME on_addr PROVE Moves
  BY <1>2, <1>6 DEF on_addr, Moves, Rising
<1>7. ASSUME on_dir PROVE Moves
  BY <1>2, <1>7 DEF on_dir, Moves, Rising
<1>8. ASSUME on_dir_end PROVE Moves
  BY <1>3, <1>8 DEF on_dir_end, Moves, Falling
<1>9. ASSUME on_ack_end PROVE Moves
  BY <1>3, <1>9 DEF on_ack_end, Moves, Falling, TypeInv, DeviceState
<1>10. ASSUME on_bit_end PROVE Moves
  BY <1>3, <1>10 DEF on_bit_end, Moves, Falling
<1>11. ASSUME on_mack PROVE Moves
  BY <1>2, <1>11 DEF on_mack, Moves, Rising
<1>12. ASSUME on_stop_clock PROVE Moves
  BY <1>2, <1>12 DEF on_stop_clock, Moves, Rising
<1>13. ASSUME on_stop PROVE Moves
  BY <1>13 DEF on_stop, Moves, At
<1>14. ASSUME on_mack_end PROVE Moves
  BY <1>3, <1>14 DEF on_mack_end, Moves, Falling
<1>15. ASSUME on_first PROVE Moves
  BY <1>2, <1>15 DEF on_first, Moves, Rising
<1>16. ASSUME on_first_low PROVE Moves
  BY <1>16 DEF on_first_low, Moves, At
<1>17. ASSUME on_data PROVE Moves
  BY <1>2, <1>17 DEF on_data, Moves, Rising
<1>18. ASSUME on_byte_end PROVE Moves
  BY <1>3, <1>18 DEF on_byte_end, Moves, Falling
<1>19. ASSUME on_nack_end PROVE Moves
  BY <1>3, <1>19 DEF on_nack_end, Moves, Falling
<1>20. ASSUME NEW answer \in BOOLEAN, NEW data \in Byte, start(answer, data)
       PROVE  Answers
  BY <1>20 DEF start, Answers, At
<1>21. ASSUME NEW answer \in BOOLEAN, NEW data \in Byte, read(answer, data)
       PROVE  Answers
  BY <1>21, ByteOps DEF read, Answers, At
<1>22. ASSUME NEW answer \in BOOLEAN, write(answer)
       PROVE  Answers
  BY <1>22, ByteOps DEF write, Answers, At
<1>23. ASSUME Timeout PROVE GivesUp
  BY <1>23 DEF Timeout, GivesUp, step
<1> QED BY <1>4, <1>5, <1>6, <1>7, <1>8, <1>9, <1>10, <1>11, <1>12, <1>13, <1>14, <1>15,
           <1>16, <1>17, <1>18, <1>19, <1>20, <1>21, <1>22, <1>23 DEF Follow, Callback

\* The functions of the host field by field.
LEMMA CallsDo ==
  ASSUME TypeInv, Calls
  PROVE  Main /\ Quiet
<1>1. \A name, x, s, r, d :
        begins(name, x, Step(s, r), d) => Begins(name, x, s, r, d)
  BY DEF begins, Begins, Step, HostIs, AckIs, CallIs
<1>2. Quiet
  BY IsQuiet DEF Calls, i2c_begin, restarted, i2c_write, i2c_read, i2c_end, Returns, Between
<1>3. count.transactions + 1 \in Nat /\ count.bytes + 1 \in Nat
  BY DEF TypeInv, CountState
<1> SUFFICES Main
  BY <1>2
<1>4. ASSUME i2c_begin PROVE Main
  <2>1. CountIs(FALSE)
    BY <1>3, <1>4 DEF i2c_begin, CountIs, TypeInv, CountState
  <2>2. PICK x \in Byte :
          IF step = 0
          THEN At("idle") /\ dev_sda = 2 /\ begins("begin", x, Step(0, FALSE), x)
          ELSE /\ ~device.ready \/ Pauses
               /\ GoesOn \/ ~host_ack.nack
               /\ begins("restart", x, Step(14, FALSE), host_data)
    <3>1. PICK address \in 0..(2^(BITS - 1) - 1), rw \in {0, 1} :
            IF step = 0
            THEN /\ At("idle") /\ dev_sda = 2
                 /\ begins("begin", 2 * address + rw, Step(0, FALSE), 2 * address + rw)
            ELSE /\ ~device.ready \/ Pauses
                 /\ GoesOn \/ ~host_ack.nack
                 /\ begins("restart", 2 * address + rw, Step(14, FALSE), host_data)
      BY <1>4 DEF i2c_begin, step, At
    <3>2. 2 * address + rw \in Byte
      BY ByteOps
    <3> QED BY <3>1, <3>2
  <2>3. On({"none"}) /\ Hears
    BY <1>4 DEF i2c_begin, Between, On, Hears
  <2> QED BY <1>1, <2>1, <2>2, <2>3 DEF Main, DoesBegin, DoesRestart
<1>5. ASSUME restarted PROVE Main
  BY <1>1, <1>5 DEF restarted, Main, DoesBeginAgain, byte, On
<1>6. ASSUME i2c_write PROVE Main
  <2>1. CountIs(count.read)
    BY <1>3, <1>6 DEF i2c_write, CountIs, TypeInv, CountState
  <2> QED BY <1>1, <1>6, <2>1 DEF i2c_write, Between, On, Hears, Main, DoesWrite, step
<1>7. ASSUME i2c_read PROVE Main
  <2>1. CountIs(count.read)
    BY <1>3, <1>7 DEF i2c_read, CountIs, TypeInv, CountState
  <2> QED BY <1>1, <1>7, <2>1 DEF i2c_read, Between, On, Main, DoesRead, step
<1>8. ASSUME i2c_end PROVE Main
  <2>1. HostGoes(11)
    BY <1>8 DEF i2c_end, HostGoes, HostIs, TypeInv, HostState, bit
  <2> QED BY <1>8, <2>1 DEF i2c_end, Between, On, CallIs, Main, DoesEnd, step
<1>9. ASSUME Returns PROVE Main
  <2>1. CASE call.name = "end"
    BY <1>9, <2>1 DEF Returns, NoCall, CallIs, Main, DoesReturn, DoesFinish, On,
                      step, Step, HostIs, deviceVars
  <2>2. CASE call.name # "end"
    <3>1. CountIs(IF On({"begin"}) THEN ~host_ack.nack /\ byte % 2 = 1 ELSE count.read)
      <4>1. PICK b \in BOOLEAN :
              /\ count' = [count EXCEPT !.read = b]
              /\ b = IF call.name = "begin" THEN ~host_ack.nack /\ call.byte % 2 = 1
                     ELSE count.read
        BY <1>9, <2>2 DEF Returns, TypeInv, CountState
      <4>2. CountState(count') /\ count'.read = b
        BY <4>1 DEF TypeInv, CountState
      <4> QED BY <4>1, <4>2 DEF CountIs, On, byte
    <3> QED BY <1>9, <2>2, <3>1 DEF Returns, NoCall, CallIs, Main, DoesReturn, DoesFinish, On
  <2> QED BY <2>1, <2>2
<1> QED BY <1>4, <1>5, <1>6, <1>7, <1>8, <1>9 DEF Calls

-----------------------------------------------------------------------------
(* Types *)

\* A pending edge is one or is none.
LEMMA EdgeType == ASSUME Next PROVE edge' \in BOOLEAN
BY DEF Next, Edge

\* Init has the types.
LEMMA TypeInit == ASSUME Init PROVE TypeInv
<1> USE ByteOps, I2cAssumption DEF Init
<1>1. HostState(host_state) /\ host_data \in Byte
  BY DEF HostState
<1>2. DeviceState(device)
  BY DEF DeviceState, Places
<1>3. CallState(call)
  BY DEF CallState, NoCall, CallNames
<1>4. CountState(count) /\ AckState(host_ack)
  BY DEF CountState, AckState
<1>5. heard \in Seq(Entry) /\ dev_sda \in 0..2
  OBVIOUS
<1> QED BY <1>1, <1>2, <1>3, <1>4, <1>5 DEF TypeInv

\* The timer keeps them.
LEMMA TypeTick ==
  ASSUME TypeInv, i2c_int_tmr0, edge' \in BOOLEAN
  PROVE  TypeInv'
<1>1. Ticks /\ TR0 /\ UNCHANGED <<TR0, call, deviceVars, count>>
  BY TickDoes
<1>2. /\ step \in 0..15 /\ bit \in 0..(BITS - 1) /\ host_state.read \in BOOLEAN
      /\ host_data \in Byte /\ host_ack.nack \in BOOLEAN
  BY DEF TypeInv, HostState, AckState, step, bit
<1>3. HostState(host_state')
  <2> USE <1>1, <1>2 DEF Ticks, HostGoes, HostIs
  <2>1. DOMAIN host_state' = {"step", "bit", "read"}
    OBVIOUS
  <2>2. host_state'.step \in 0..15
    <3>1. host_state'.step \in {1, 2, 3, 4, 5, 6, 7, 8, 9, 10, 12, 13, 15}
      OBVIOUS
    <3> QED BY <3>1
  <2>3. host_state'.bit \in 0..(BITS - 1)
    OBVIOUS
  <2>4. host_state'.read \in BOOLEAN
    OBVIOUS
  <2> QED BY <2>1, <2>2, <2>3, <2>4 DEF HostState
<1>4. AckState(host_ack')
  BY <1>1, <1>2 DEF Ticks, AckIs, AckState, TypeInv
<1>5. host_data' \in Byte
  BY <1>1, <1>2, ByteOps, Wires DEF Ticks
<1>6. {TR0', host_sda', host_scl', dev_scl', edge'} \subseteq BOOLEAN
  BY <1>1, <1>2 DEF Ticks, TypeInv, deviceVars
<1> QED BY <1>1, <1>3, <1>4, <1>5, <1>6 DEF TypeInv, deviceVars

\* The device keeps them.
LEMMA TypeDevice ==
  ASSUME TypeInv, i2c_int_gpio, edge' \in BOOLEAN
  PROVE  TypeInv'
<1>1. UNCHANGED <<hostVars, call, count>> /\ (Moves \/ Answers \/ GivesUp)
  BY DeviceDoes DEF i2c_int_gpio
<1>2. /\ device.pc \in Places /\ device.seen \in BOOLEAN /\ device.bit \in Nat
      /\ device.data \in Byte /\ device.read \in BOOLEAN /\ device.ready \in BOOLEAN
      /\ dev_sda \in 0..2 /\ dev_scl \in BOOLEAN /\ heard \in Seq(Entry) /\ BITS \in Nat
  BY I2cAssumption DEF TypeInv, DeviceState
<1>3. device.bit + 1 \in Nat /\ Bit(device.data) \in 0..2
  BY <1>2, ByteOps DEF Bit
<1>4. CASE Moves
  <2>1. DeviceState(device')
    <3> USE <1>2, <1>3, <1>4, ByteOps, Wires
        DEF Moves, Stretches, DeviceGoes, DeviceIs
    <3>1. DOMAIN device' = {"pc", "seen", "bit", "data", "read", "ready"}
      BY DEF TypeInv, DeviceState
    <3>2. device'.pc \in Places
      BY DEF Places, Rising, Falling, Callbacks
    <3>3. device'.bit \in Nat
      OBVIOUS
    <3>4. device'.data \in Byte
      <4>1. device'.data \in
              {device.data, 0, SDA, Shift(device.data, SDA), Shift(device.data, 0)}
        OBVIOUS
      <4>2. SDA \in Byte
        OBVIOUS
      <4> QED BY <4>1, <4>2
    <3>5. device'.seen \in BOOLEAN /\ device'.read \in BOOLEAN /\ device'.ready \in BOOLEAN
      OBVIOUS
    <3> QED BY <3>1, <3>2, <3>3, <3>4, <3>5 DEF DeviceState
  <2>2. dev_sda' \in 0..2
    <3>1. dev_sda' \in {dev_sda, 2, Bit(device.data)}
      BY <1>4 DEF Moves, Silent, Stretches
    <3> QED BY <1>2, <1>3, <3>1
  <2>3. dev_scl' \in BOOLEAN
    BY <1>2, <1>4 DEF Moves, Silent, Stretches
  <2>4. heard' \in Seq(Entry)
    BY <1>2, <1>4 DEF Moves, Silent, Stretches
  <2> QED BY <1>1, <2>1, <2>2, <2>3, <2>4 DEF TypeInv, hostVars
<1>5. CASE Answers
  <2>1. PICK answer \in BOOLEAN, x \in Byte : Answers!(answer, x)
    BY <1>5 DEF Answers
  <2>2. /\ 2 * device.data + Dir \in Nat /\ device.data \in Nat
        /\ \A n \in Nat, ok \in BOOLEAN : Heard(n, ok) \in Seq(Entry)
    BY <1>2 DEF Byte, Dir, Heard, Entry
  <2>3. DeviceState(device')
    <3> USE <1>2, <2>1, ByteOps DEF DeviceGoes, DeviceIs
    <3>1. DOMAIN device' = {"pc", "seen", "bit", "data", "read", "ready"}
      OBVIOUS
    <3>2. device'.pc \in Places
      BY DEF Places, Rising, Falling, Callbacks
    <3>3. device'.bit \in Nat
      OBVIOUS
    <3>4. device'.data \in Byte
      OBVIOUS
    <3>5. device'.seen \in BOOLEAN /\ device'.read \in BOOLEAN /\ device'.ready \in BOOLEAN
      OBVIOUS
    <3> QED BY <3>1, <3>2, <3>3, <3>4, <3>5 DEF DeviceState
  <2>4. dev_sda' \in 0..2
    <3>1. dev_sda' \in {dev_sda, 0, 1, Top(x)}
      BY <2>1
    <3> QED BY <1>2, <3>1, ByteOps
  <2>5. dev_scl' \in BOOLEAN
    BY <2>1
  <2>6. heard' \in Seq(Entry)
    BY <1>2, <2>1, <2>2
  <2> QED BY <1>1, <2>3, <2>4, <2>5, <2>6 DEF TypeInv, hostVars
<1>6. CASE GivesUp
  BY <1>1, <1>2, <1>6
     DEF GivesUp, Silent, TypeInv, hostVars, DeviceIs, DeviceState, Places
<1> QED BY <1>1, <1>4, <1>5, <1>6

\* The main loop keeps them.
LEMMA TypeCalls ==
  ASSUME TypeInv, Calls, edge' \in BOOLEAN
  PROVE  TypeInv'
<1>1. Main
  BY CallsDo
<1>2. HostState(host_state')
  <2> USE <1>1 DEF Main, DoesBegin, DoesRestart, DoesBeginAgain, DoesWrite, DoesRead,
          DoesEnd, DoesReturn, DoesFinish, Begins, HostGoes, HostIs
  <2>1. /\ step \in 0..15 /\ bit \in 0..(BITS - 1) /\ host_state.read \in BOOLEAN
        /\ 0 \in 0..(BITS - 1)
    BY I2cAssumption DEF TypeInv, HostState, step, bit
  <2>2. DOMAIN host_state' = {"step", "bit", "read"}
    BY DEF TypeInv, HostState
  <2>3. host_state'.step \in 0..15
    <3>1. host_state'.step \in {0, 2, 11, 14, step}
      BY DEF step
    <3> QED BY <2>1, <3>1
  <2>4. host_state'.bit \in 0..(BITS - 1)
    BY <2>1 DEF bit
  <2>5. host_state'.read \in BOOLEAN
    BY <2>1
  <2> QED BY <2>2, <2>3, <2>4, <2>5 DEF HostState
<1>3. AckState(host_ack')
  BY <1>1 DEF Main, DoesBegin, DoesRestart, DoesBeginAgain, DoesWrite, DoesRead,
          DoesEnd, DoesReturn, DoesFinish, Begins, AckIs, AckState, TypeInv
<1>4. host_data' \in Byte /\ CallState(call')
  <2> USE <1>1, ByteOps
      DEF Main, DoesBegin, DoesRestart, DoesBeginAgain, DoesWrite, DoesRead, DoesEnd,
          DoesReturn, DoesFinish, Begins, TypeInv, CallIs, CallState, CallNames, byte
  <2>1. host_data' \in Byte
    OBVIOUS
  <2>2. DOMAIN call' = {"name", "byte"} /\ call'.name \in CallNames
    OBVIOUS
  <2>3. call'.byte \in Byte
    OBVIOUS
  <2> QED BY <2>1, <2>2, <2>3
<1>5. CountState(count')
  BY <1>1 DEF Main, DoesBegin, DoesRestart, DoesBeginAgain, DoesWrite, DoesRead,
          DoesEnd, DoesReturn, DoesFinish, CountIs, TypeInv
<1>6. DeviceState(device') /\ dev_sda' \in 0..2 /\ dev_scl' \in BOOLEAN
  <2>1. UNCHANGED <<device, dev_sda, dev_scl>>
    BY <1>1 DEF Main, DoesBegin, DoesRestart, DoesBeginAgain, DoesWrite, DoesRead,
          DoesEnd, DoesReturn, DoesFinish, Begins, Hears, deviceVars
  <2> QED BY <2>1 DEF TypeInv
<1>7. heard' \in Seq(Entry)
  <2>1. heard' \in {heard, <<>>}
    BY <1>1 DEF Main, DoesBegin, DoesRestart, DoesBeginAgain, DoesWrite, DoesRead,
          DoesEnd, DoesReturn, DoesFinish, Hears, deviceVars
  <2>2. <<>> \in Seq(Entry)
    OBVIOUS
  <2> QED BY <2>1, <2>2 DEF TypeInv
<1>8. {TR0', host_sda', host_scl'} \subseteq BOOLEAN
  <2>1. host_sda' = host_sda
    BY <1>1 DEF Main, DoesBegin, DoesRestart, DoesBeginAgain, DoesWrite, DoesRead,
          DoesEnd, DoesReturn, DoesFinish, Begins
  <2>2. host_scl' = host_scl
    BY <1>1 DEF Main, DoesBegin, DoesRestart, DoesBeginAgain, DoesWrite, DoesRead,
          DoesEnd, DoesReturn, DoesFinish, Begins
  <2>3. TR0' \in BOOLEAN
    BY <1>1 DEF Main, DoesBegin, DoesRestart, DoesBeginAgain, DoesWrite, DoesRead,
          DoesEnd, DoesReturn, DoesFinish, Begins
  <2> QED BY <2>1, <2>2, <2>3 DEF TypeInv
<1> QED BY <1>2, <1>3, <1>4, <1>5, <1>6, <1>7, <1>8 DEF TypeInv

-----------------------------------------------------------------------------
(* The wires *)

\* Init keeps off the wires.
LEMMA WireInit == ASSUME Init PROVE WireInv
BY DEF Init, WireInv, CallInv, ClockInv, DataInv, On, step, bit, NoCall, Callbacks

\* A tick of the timer takes the host to the next step of its call.
LEMMA WireTick ==
  ASSUME TypeInv, WireInv, i2c_int_tmr0
  PROVE  WireInv'
<1>1. Ticks /\ TR0 /\ UNCHANGED <<TR0, call, deviceVars, count>>
  BY TickDoes
<1>2. /\ step \in 0..15 /\ bit \in 0..(BITS - 1) /\ host_state.read \in BOOLEAN
      /\ call.name \in {"none", "begin", "write", "read", "restart", "end"}
  BY DEF TypeInv, HostState, step, bit, CallState, CallNames
<1> USE <1>1, <1>2, I2cAssumption DEF Ticks, HostGoes, HostIs, AckIs, WireInv, CallInv,
                          ClockInv, DataInv, On, step, bit, deviceVars
<1>3. CASE step = 0
  BY <1>3
<1>4. CASE step = 1
  BY <1>4
<1>5. CASE step = 2
  BY <1>5
<1>6. CASE step = 3
  BY <1>6
<1>7. CASE step = 4
  BY <1>7
<1>8. CASE step = 5
  BY <1>8
<1>9. CASE step = 6
  BY <1>9
<1>10. CASE step = 7
  BY <1>10
<1>11. CASE step = 8
  BY <1>11
<1>12. CASE step = 9
  BY <1>12
<1>13. CASE step = 10
  <2>1. host_sda' = FALSE
    <3>1. host_sda' = (host_sda /\ ~host_state.read)
      BY <1>13
    <3>2. host_sda => On({"read"})
      BY <1>13
    <3> QED BY <3>1, <3>2
  <2>2. CallInv'
    BY <1>13
  <2>3. ClockInv'
    BY <1>13
  <2>4. DataInv'
    BY <1>13, <2>1
  <2> QED BY <2>2, <2>3, <2>4
<1>14. CASE step = 11
  BY <1>14
<1>15. CASE step = 12
  BY <1>15
<1>16. CASE step = 14
  BY <1>16
<1>17. CASE step = 15
  BY <1>17
<1> QED BY <1>1, <1>3, <1>4, <1>5, <1>6, <1>7, <1>8, <1>9, <1>10, <1>11, <1>12, <1>13, <1>14,
           <1>15, <1>16, <1>17 DEF Ticks

\* The device changes what it drives only.
LEMMA WireDevice ==
  ASSUME TypeInv, WireInv, i2c_int_gpio
  PROVE  WireInv'
<1>1. UNCHANGED <<hostVars, call, count>> /\ (Moves \/ Answers \/ GivesUp)
  BY DeviceDoes DEF i2c_int_gpio
<1>2. CallInv' /\ DataInv'
  BY <1>1 DEF WireInv, CallInv, DataInv, hostVars, On, step, bit
<1>3. dev_scl' <=> device'.pc \in Callbacks
  <2>1. dev_scl <=> device.pc \in Callbacks
    BY DEF WireInv, ClockInv
  <2>2. CASE Moves
    BY <2>1, <2>2 DEF Moves, Silent, Stretches, Ends, At, DeviceGoes, DeviceIs, Callbacks,
                      Rising, Falling
  <2>3. CASE Answers
    BY <2>3 DEF Answers, DeviceGoes, DeviceIs, Callbacks
  <2>4. CASE GivesUp
    BY <2>1, <2>4 DEF GivesUp, Silent, DeviceIs, Callbacks, Rising, Falling
  <2> QED BY <1>1, <2>2, <2>3, <2>4
<1> QED BY <1>1, <1>2, <1>3 DEF WireInv, ClockInv, hostVars, On, step

\* A call begins where the last one has left the wires.
LEMMA WireCalls ==
  ASSUME TypeInv, WireInv, Calls
  PROVE  WireInv'
<1>1. Main
  BY CallsDo
<1>2. /\ step \in 0..15 /\ bit \in 0..(BITS - 1) /\ host_state.read \in BOOLEAN
      /\ TR0 \in BOOLEAN /\ call.name \in {"none", "begin", "write", "read", "restart", "end"}
  BY DEF TypeInv, HostState, step, bit, CallState, CallNames
<1>14. On({"begin", "write", "read"}) /\ host_ack.ready => step = 10
  <2>1. ASSUME On({"begin", "write", "read"}), host_ack.ready
        PROVE  step \in 0..10 /\ step \in {10, 11, 12, 13}
    <3>1. ~On({"restart", "none"})
      BY <2>1 DEF On
    <3>2. On({"begin", "write"}) \/ On({"read"})
      BY <2>1 DEF On
    <3>3. step \in 0..10
      BY <3>2 DEF WireInv, CallInv
    <3> QED BY <2>1, <3>1, <3>3 DEF WireInv, CallInv
  <2> QED BY <2>1
<1> USE I2cAssumption DEF WireInv, CallInv, ClockInv, DataInv, On, step, bit, Begins, CallIs,
                          HostIs, AckIs, Hears, deviceVars
<1>3. CASE DoesBegin
  <2> USE <1>2, <1>3 DEF DoesBegin
  <2>1. CallInv'
    OBVIOUS
  <2>2. ClockInv'
    OBVIOUS
  <2>3. DataInv'
    OBVIOUS
  <2> QED BY <2>1, <2>2, <2>3
<1>4. CASE DoesRestart
  <2> USE <1>2, <1>4 DEF DoesRestart
  <2>1. CallInv'
    OBVIOUS
  <2>2. ClockInv'
    <3>1. step = 10 /\ host_scl
      OBVIOUS
    <3>2. step' = 14 /\ host_scl' /\ dev_scl' = dev_scl /\ device' = device
      BY <3>1
    <3> QED BY <3>1, <3>2
  <2>3. DataInv'
    OBVIOUS
  <2> QED BY <2>1, <2>2, <2>3
<1>5. CASE DoesBeginAgain
  <2> USE <1>2, <1>5 DEF DoesBeginAgain
  <2>1. CallInv'
    OBVIOUS
  <2>2. ClockInv'
    OBVIOUS
  <2>3. DataInv'
    OBVIOUS
  <2> QED BY <2>1, <2>2, <2>3
<1>6. CASE DoesWrite
  <2> USE <1>2, <1>6 DEF DoesWrite
  <2>1. CallInv'
    OBVIOUS
  <2>2. ClockInv'
    OBVIOUS
  <2>3. DataInv'
    OBVIOUS
  <2> QED BY <2>1, <2>2, <2>3
<1>7. CASE DoesRead
  <2> USE <1>2, <1>7 DEF DoesRead
  <2>1. CallInv'
    OBVIOUS
  <2>2. ClockInv'
    OBVIOUS
  <2>3. DataInv'
    OBVIOUS
  <2> QED BY <2>1, <2>2, <2>3
<1>8. CASE DoesEnd
  <2> USE <1>2, <1>8 DEF DoesEnd, HostGoes
  <2>1. CallInv'
    <3>1. TR0' = TRUE
      OBVIOUS
    <3>2. call'.name = "end"
      OBVIOUS
    <3>3. host_state'.step = 11
      OBVIOUS
    <3> QED BY <3>1, <3>2, <3>3
  <2>2. ClockInv'
    OBVIOUS
  <2>3. DataInv'
    OBVIOUS
  <2> QED BY <2>1, <2>2, <2>3
<1>9. CASE DoesReturn
  <2> USE <1>2, <1>9 DEF DoesReturn
  <2>1. CallInv'
    <3>1. step = 10
      BY <1>14
    <3> QED BY <3>1
  <2>2. ClockInv'
    OBVIOUS
  <2>3. DataInv'
    OBVIOUS
  <2> QED BY <2>1, <2>2, <2>3
<1>10. CASE DoesFinish
  <2> USE <1>2, <1>10 DEF DoesFinish
  <2>1. CallInv'
    OBVIOUS
  <2>2. ClockInv'
    OBVIOUS
  <2>3. DataInv'
    OBVIOUS
  <2> QED BY <2>1, <2>2, <2>3
<1> QED BY <1>1, <1>3, <1>4, <1>5, <1>6, <1>7, <1>8, <1>9, <1>10 DEF Main

\* TypeInv and WireInv are invariants of any calls.
LEMMA Wired == Spec => [](TypeInv /\ WireInv)
<1>1. Init => TypeInv /\ WireInv
  BY TypeInit, WireInit
<1>2. ASSUME TypeInv, WireInv, [Next]_vars
      PROVE  TypeInv' /\ WireInv'
  <2>1. CASE UNCHANGED vars
    BY <1>2, <2>1
       DEF vars, hostVars, deviceVars, TypeInv, HostState, AckState, CallState, CountState,
           DeviceState, WireInv, CallInv, ClockInv, DataInv, On, step, bit
  <2>2. CASE Next
    <3>1. edge' \in BOOLEAN
      BY <2>2, EdgeType
    <3> QED BY <1>2, <2>2, <3>1, TypeTick, TypeDevice, TypeCalls, WireTick, WireDevice,
               WireCalls DEF Next
  <2> QED BY <1>2, <2>1, <2>2
<1> QED BY <1>1, <1>2, PTL DEF Spec

(* While SCL is high SDA falls at a START condition only, and rises only     *)
(* where the host ends a bit that it has sent: whatever the application      *)
(* does, nobody else on the bus sees a transaction begin that does not, and  *)
(* no device ever moves SDA under a high SCL.                                *)
THEOREM SdaKept == Spec => SdaStable
<1> DEFINE Kept == SCL = 1 /\ SCL' = 1 /\ SDA' # SDA =>
                     TR0 /\ host_state.step = (IF SDA = 1 THEN 0 ELSE 5)
<1>1. ASSUME TypeInv, WireInv, [Next]_vars
      PROVE  Kept
  <2>1. CASE UNCHANGED vars
    BY <2>1 DEF vars, hostVars, deviceVars, SDA
  <2>2. CASE i2c_int_tmr0
    <3>1. Ticks /\ TR0 /\ UNCHANGED <<dev_sda, dev_scl>>
      BY <1>1, <2>2, TickDoes DEF deviceVars
    <3>2. CASE step = 0
      <4>1. ~host_sda /\ host_sda' = TRUE
        BY <1>1, <3>1, <3>2 DEF Ticks, WireInv, DataInv, TypeInv
      <4> QED BY <3>1, <3>2, <4>1 DEF step, SDA
    <3>3. CASE step = 12
      BY <1>1, <3>1, <3>3 DEF Ticks, WireInv, DataInv, SDA, TypeInv
    <3>4. CASE step = 5
      <4>1. host_sda' = FALSE
        BY <1>1, <3>1, <3>4 DEF Ticks, TypeInv
      <4>2. SDA' # SDA => SDA # 1
        BY <3>1, <4>1 DEF SDA
      <4> QED BY <3>1, <3>4, <4>2 DEF step
    <3>5. CASE step \notin {0, 5, 12}
      <4>1. host_sda' = host_sda \/ host_scl \/ host_scl'
        BY <1>1, <3>1, <3>5 DEF Ticks, WireInv, ClockInv
      <4> QED BY <3>1, <4>1 DEF SDA, SCL
    <3> QED BY <3>2, <3>3, <3>4, <3>5
  <2>3. CASE i2c_int_gpio
    <3>1. UNCHANGED <<host_sda, host_scl>> /\ (Moves \/ Answers \/ GivesUp)
      BY <1>1, <2>3, DeviceDoes DEF i2c_int_gpio, hostVars
    <3>2. CASE Moves
      <4>1. dev_sda' = dev_sda \/ SCL = 0
        BY <3>2 DEF Moves, Silent, Stretches, Ends
      <4> QED BY <3>1, <4>1, Wires DEF SDA
    <3>3. CASE Answers
      <4>1. dev_scl
        BY <1>1, <3>3 DEF Answers, At, WireInv, ClockInv, Callbacks
      <4> QED BY <4>1 DEF SCL
    <3>4. CASE GivesUp
      BY <3>1, <3>4 DEF GivesUp, Silent, SDA
    <3> QED BY <3>1, <3>2, <3>3, <3>4
  <2>4. CASE Calls
    <3>1. UNCHANGED <<host_sda, dev_sda>>
      BY <1>1, <2>4, CallsDo
         DEF Main, DoesBegin, DoesRestart, DoesBeginAgain, DoesWrite, DoesRead, DoesEnd,
             DoesReturn, DoesFinish, Begins, Hears, deviceVars
    <3> QED BY <3>1 DEF SDA
  <2> QED BY <1>1, <2>1, <2>2, <2>3, <2>4 DEF Next
<1>2. ASSUME TypeInv, WireInv, [Next]_vars
      PROVE  [Kept]_vars
  BY <1>1, <1>2
<1> QED BY <1>2, Wired, PTL DEF Spec, SdaStable

-----------------------------------------------------------------------------
(* The bits of what is sent *)

\* What the types say of the variables.
LEMMA Facts ==
  ASSUME TypeInv
  PROVE  /\ step \in 0..15 /\ bit \in 0..(BITS - 1) /\ BITS \in Nat /\ BITS > 1
         /\ host_state.read \in BOOLEAN /\ host_ack.nack \in BOOLEAN
         /\ {TR0, host_sda, host_scl, dev_scl, edge, count.read} \subseteq BOOLEAN
         /\ call.name \in CallNames /\ byte \in Byte /\ dev_sda \in 0..2
         /\ device.pc \in Places /\ device.bit \in Nat /\ device.data \in Byte
         /\ {device.seen, device.read, device.ready} \subseteq BOOLEAN
         /\ heard \in Seq(Entry)
BY I2cAssumption
   DEF TypeInv, HostState, AckState, CallState, CountState, DeviceState, step, bit, byte

\* Neither host nor device has moved: what the next state says of the call.
LEMMA ByteTick ==
  ASSUME TypeInv, WireInv, ByteInv, i2c_int_tmr0
  PROVE  ByteInv'
<1>1. Ticks /\ call' = call
  BY TickDoes
<1>2. SUFFICES ASSUME On({"begin", "write"}) PROVE ByteInv'
  BY <1>1 DEF ByteInv, On
<1>3. /\ step \in 0..10 /\ ~host_state.read /\ (step \in {0, 1} => bit = 0)
      /\ bit \in 0..(BITS - 1) /\ BITS \in Nat
  BY <1>2, Facts DEF WireInv, CallInv
<1>4. /\ byte' = byte /\ byte \in Byte
      /\ step \in 0..2 => host_data = Rest(byte, bit)
      /\ step \in 3..5 => host_data = Rest(byte, bit + 1)
      /\ step \in {3, 4} => (host_sda <=> BitOf(byte, bit) = 0)
  BY <1>1, <1>2, Facts DEF ByteInv, byte
<1>5. /\ Top(Rest(byte, bit)) = BitOf(byte, bit)
      /\ Shift(Rest(byte, bit), 0) = Rest(byte, bit + 1)
  BY <1>3, <1>4, Shifts
<1> USE <1>1, <1>3, <1>4, <1>5 DEF Ticks, HostGoes, HostIs, AckIs, ByteInv, step, bit
<1>6. CASE step \in {0, 1}
  BY <1>6
<1>7. CASE step = 2
  <2>1. host_data' = Rest(byte, bit + 1)
    BY <1>7
  <2>2. host_sda' <=> BitOf(byte, bit) = 0
    <3>1. host_sda' = (Top(host_data) = 0)
      BY <1>7
    <3>2. host_data = Rest(byte, bit)
      BY <1>7
    <3> HIDE DEF Ticks, HostGoes, HostIs, AckIs, ByteInv
    <3> QED BY <3>1, <3>2
  <2>3. step' = 3 /\ bit' = bit
    BY <1>7
  <2> HIDE DEF Ticks, HostGoes, HostIs, AckIs
  <2> QED BY <2>1, <2>2, <2>3
<1>8. CASE step \in {3, 4}
  BY <1>8
<1>9. CASE step = 5
  BY <1>9
<1>10. CASE step \in 6..10
  <2>1. step' \in {7, 8, 9, 10}
    BY <1>10
  <2> QED BY <2>1
<1> QED BY <1>3, <1>6, <1>7, <1>8, <1>9, <1>10

\* A call begins with the whole byte.
LEMMA ByteCalls ==
  ASSUME TypeInv, WireInv, ByteInv, Calls
  PROVE  ByteInv'
<1>1. Main
  BY CallsDo
<1>2. byte \in Byte /\ \A x \in Byte : Rest(x, 0) = x
  BY Facts, WholeByte
<1> USE <1>2 DEF ByteInv, Begins, CallIs, HostIs, On, byte, step, bit
<1>3. CASE DoesBegin
  BY <1>3 DEF DoesBegin
<1>4. CASE DoesBeginAgain
  BY <1>4 DEF DoesBeginAgain
<1>5. CASE DoesWrite
  BY <1>5 DEF DoesWrite
<1>6. CASE DoesRestart \/ DoesRead \/ DoesEnd \/ DoesReturn \/ DoesFinish
  BY <1>6 DEF DoesRestart, DoesRead, DoesEnd, DoesReturn, DoesFinish
<1> QED BY <1>1, <1>3, <1>4, <1>5, <1>6 DEF Main

\* Where a tick takes the host.
LEMMA TickSteps ==
  ASSUME TypeInv, Ticks
  PROVE  /\ host_state'.read = host_state.read
         /\ step = 0 => step' = 1 /\ bit' = bit
         /\ step = 1 => step' = 2 /\ bit' = bit
         /\ step = 2 => step' = 3 /\ bit' = bit
         /\ step = 3 => step' = 4 /\ bit' = bit
         /\ step = 4 => step' = 5 /\ bit' = bit /\ SCL = 1
         /\ step = 5 /\ host_sda => step' = 5 /\ bit' = bit
         /\ step = 5 /\ ~host_sda /\ bit = BITS - 1 => step' = 6 /\ bit' = bit
         /\ step = 5 /\ ~host_sda /\ bit # BITS - 1 =>
              step' = 2 /\ bit' = bit + 1 /\ bit + 1 \in 0..(BITS - 1)
         /\ step = 6 => step' = 7 /\ bit' = bit
         /\ step = 7 => step' = 8 /\ bit' = bit
         /\ step = 8 => step' = 9 /\ bit' = bit /\ SCL = 1
         /\ step \in {9, 10} => step' = 10
         /\ step \in {14, 15} => step' = 15
<1>1. step \in 0..15 /\ bit \in 0..(BITS - 1) /\ BITS \in Nat
  BY Facts
<1> USE <1>1 DEF Ticks, HostGoes, HostIs, step, bit
<1>2. host_state'.read = host_state.read
  OBVIOUS
<1>3. step = 0 => step' = 1 /\ bit' = bit
  OBVIOUS
<1>4. step = 1 => step' = 2 /\ bit' = bit
  OBVIOUS
<1>5. step = 2 => step' = 3 /\ bit' = bit
  OBVIOUS
<1>6. step = 3 => step' = 4 /\ bit' = bit
  OBVIOUS
<1>7. step = 4 => step' = 5 /\ bit' = bit /\ SCL = 1
  OBVIOUS
<1>15. step = 5 /\ host_sda => step' = 5 /\ bit' = bit
  OBVIOUS
<1>8. step = 5 /\ ~host_sda /\ bit = BITS - 1 => step' = 6 /\ bit' = bit
  OBVIOUS
<1>9. step = 5 /\ ~host_sda /\ bit # BITS - 1 =>
        step' = 2 /\ bit' = bit + 1 /\ bit + 1 \in 0..(BITS - 1)
  OBVIOUS
<1>10. step = 6 => step' = 7 /\ bit' = bit
  OBVIOUS
<1>11. step = 7 => step' = 8 /\ bit' = bit
  OBVIOUS
<1>12. step = 8 => step' = 9 /\ bit' = bit /\ SCL = 1
  OBVIOUS
<1>13. step \in {9, 10} => step' = 10
  <2>1. step = 9 => step' = 10
    OBVIOUS
  <2>2. step = 10 => step' = 10
    OBVIOUS
  <2> QED BY <2>1, <2>2
<1>14. step \in {14, 15} => step' = 15
  <2>1. step = 14 => step' = 15
    OBVIOUS
  <2>2. step = 15 => step' = 15
    OBVIOUS
  <2> QED BY <2>1, <2>2
<1> HIDE DEF Ticks, HostGoes, HostIs, step, bit
<1> QED BY <1>2, <1>3, <1>4, <1>5, <1>6, <1>7, <1>8, <1>9, <1>10, <1>11, <1>12, <1>13,
           <1>14, <1>15

-----------------------------------------------------------------------------
(* An address is sent and taken *)

\* A tick: the device has followed the last one.
LEMMA AddressTick ==
  ASSUME TypeInv, WireInv, AddressInv, i2c_int_tmr0, Edge
  PROVE  AddressInv'
<1>0. ~At("first_low")
  BY Facts DEF AddressInv, AddressAt, Took, At
<1>1. /\ Ticks /\ Quiet /\ call' = call /\ count' = count /\ heard' = heard
      /\ dev_sda' = dev_sda /\ dev_scl' = dev_scl /\ device' = device
  BY <1>0, TickDoes DEF deviceVars
<1>2. /\ step \in 0..15 /\ bit \in 0..(BITS - 1) /\ BITS \in Nat /\ BITS > 1
      /\ On({"begin", "write"}) /\ ~host_state.read /\ (step \in {0, 1} => bit = 0)
      /\ (On({"write"}) => GoesOn) /\ ~count.read /\ heard = <<>> /\ dev_sda = 2
      /\ byte' = byte
  BY <1>1, Facts DEF AddressInv, WireInv, CallInv, byte
<1>3. /\ device.pc \in Rising => (device.seen <=> SCL = 0)
      /\ device.pc \in Falling => (device.seen <=> SCL = 1)
      /\ At("idle") => ~edge
  BY <1>1 DEF Quiet
<1>4. /\ step \in {2, 3, 6, 7} => SCL = 0
      /\ dev_scl <=> device.pc \in Callbacks
  BY DEF WireInv, ClockInv, SCL
<1>5. \A n \in 0..BITS : Took(n)' <=> Took(n)
  BY <1>1, <1>2 DEF Took, At, byte
<1>6. \A n \in 0..BITS :
        Took(n) => IF n = BITS THEN At("dir_end") ELSE At("dir") \/ At("addr")
  BY DEF Took, At
<1> SUFFICES AddressAt'
  BY <1>1, <1>2 DEF AddressInv, On
<1> USE <1>2, TickSteps
<1>7. CASE step = 0 /\ At("idle") /\ ~edge
  <2>1. SDA = 1 /\ SDA' = 0 /\ step' = 1
    <3>1. host_sda = FALSE /\ host_sda' = TRUE
      BY <1>1, <1>7, Facts DEF WireInv, DataInv, Ticks
    <3> QED BY <1>1, <1>7, <3>1 DEF SDA
  <2> QED BY <1>1, <1>7, <2>1 DEF AddressAt, Edge, At
<1>8. CASE step = 1 /\ At("idle") /\ edge
  BY <1>1, <1>3, <1>8
<1>9. CASE step = 1 /\ Took(0) /\ (device.seen => On({"write"}))
  <2>1. step' = 2 /\ bit' = 0
    BY <1>1, <1>9
  <2> QED BY <1>1, <1>5, <1>9, <2>1 DEF AddressAt
<1>10. CASE step \in {2, 3, 4} /\ Took(bit) /\ (step # 2 => device.seen)
  <2>1. device.seen <=> SCL = 0
    BY <1>1, <1>3, <1>6, <1>10 DEF At, Rising
  <2>2. step \in {2, 3}
    BY <1>1, <1>10, <2>1
  <2>3. step' \in {3, 4} /\ bit' = bit /\ device'.seen
    BY <1>1, <1>4, <2>1, <2>2
  <2> QED BY <1>1, <1>5, <1>10, <2>3 DEF AddressAt
<1>11. CASE step = 4 /\ Took(bit + 1) /\ (device.seen => bit = BITS - 1)
  <2>1. SCL = 1 /\ step' = 5 /\ bit' = bit /\ bit + 1 \in 0..BITS
    BY <1>1, <1>11
  <2>2. bit # BITS - 1 => ~device.seen
    BY <1>1, <1>11
  <2>3. bit = BITS - 1 => device.seen
    BY <1>1, <1>3, <1>6, <1>11, <2>1 DEF At, Falling
  <2> QED BY <1>1, <1>5, <1>11, <2>1, <2>2, <2>3 DEF AddressAt
<1>12. CASE step = 5 /\ Took(bit + 1) /\ (device.seen <=> bit = BITS - 1)
  <2>1. CASE host_sda
    <3>1. step' = 5 /\ bit' = bit /\ bit + 1 \in 0..BITS
      BY <1>1, <1>12, <2>1
    <3> QED BY <1>1, <1>5, <1>12, <3>1 DEF AddressAt
  <2>2. CASE ~host_sda /\ bit = BITS - 1
    <3>1. step' = 6 /\ bit + 1 = BITS
      BY <1>1, <1>12, <2>2
    <3> QED BY <1>1, <1>5, <1>12, <2>2, <3>1 DEF AddressAt
  <2>3. CASE ~host_sda /\ bit # BITS - 1
    <3>1. step' = 2 /\ bit' = bit + 1 /\ bit + 1 \in 0..BITS
      BY <1>1, <1>12, <2>3
    <3> QED BY <1>1, <1>5, <1>12, <2>3, <3>1 DEF AddressAt
  <2> QED BY <2>1, <2>2, <2>3
<1>13. CASE step = 6 /\ Took(BITS) /\ device.seen
  BY <1>1, <1>3, <1>4, <1>6, <1>13 DEF At, Falling
<1>14. CASE /\ step \in 6..8 /\ At("start")
            /\ device.data = Bits(byte, BITS - 1)
            /\ device.read <=> BitOf(byte, BITS - 1) = 1
  <2>1. SCL = 0
    BY <1>1, <1>4, <1>14 DEF At, Callbacks, SCL
  <2>2. step' \in 6..8
    <3>1. step \in {6, 7, 8}
      BY <1>1, <1>14
    <3>2. step' \in {7, 8}
      <4>1. CASE step = 6
        BY <1>1, <4>1
      <4>2. CASE step = 7
        BY <1>1, <4>2
      <4>3. CASE step = 8
        BY <1>1, <2>1, <4>3
      <4> QED BY <3>1, <4>1, <4>2, <4>3
    <3> QED BY <3>2
  <2> QED BY <1>1, <1>14, <2>2 DEF AddressAt, At
<1> QED BY <1>7, <1>8, <1>9, <1>10, <1>11, <1>12, <1>13, <1>14 DEF AddressInv, AddressAt

\* The device sees the level that a wait asks for first.
Notices ==
  /\ ~device.seen /\ Silent
  /\ device.pc \in Rising => SCL = 0
  /\ device.pc \in Falling => SCL = 1
  /\ DeviceIs(device.pc, TRUE, device.bit, device.data, device.read, device.ready)

-----------------------------------------------------------------------------
(* The moves of the device, place by place *)

\* Where it moves from each of them.
LEMMA FromPlaces ==
  ASSUME Moves
  PROVE
  /\ At("idle") =>
     edge /\ Silent
     /\ \/ SDA = 1 /\ UNCHANGED device
        \/ SDA = 0 /\ DeviceIs("addr", FALSE, 0, 0, device.read, device.ready)
  /\ At("addr") =>
     Notices
     \/ /\ Ends("addr", 1) /\ Silent
        /\ DeviceGoes(IF device.bit = BITS - 2 THEN "dir" ELSE "addr", device.bit + 1,
                      Shift(device.data, SDA))
  /\ At("dir") =>
     Notices
     \/ /\ Ends("dir", 1) /\ Silent
        /\ DeviceIs("dir_end", FALSE, device.bit, device.data, SDA = 1, device.ready)
  /\ At("dir_end") =>
     Notices \/ (Ends("dir_end", 0) /\ Stretches("start"))
  /\ At("ack_end") =>
     Notices
     \/ /\ Ends("ack_end", 0) /\ UNCHANGED <<dev_scl, heard, given>>
        /\ \/ /\ device.read /\ dev_sda' = Bit(device.data)
              /\ DeviceGoes("bit_end", 0, Shift(device.data, 0))
           \/ /\ ~device.read /\ dev_sda' = 2
              /\ DeviceGoes("first", device.bit, device.data)
  /\ At("bit_end") =>
     Notices
     \/ /\ Ends("bit_end", 0) /\ UNCHANGED <<dev_scl, heard, given>>
        /\ \/ /\ device.bit = BITS - 1 /\ dev_sda' = 2
              /\ DeviceGoes("mack", device.bit, device.data)
           \/ /\ device.bit # BITS - 1 /\ dev_sda' = Bit(device.data)
              /\ DeviceGoes("bit_end", device.bit + 1, Shift(device.data, 0))
  /\ At("mack") =>
     Notices
     \/ /\ Ends("mack", 1) /\ Silent
        /\ DeviceGoes(IF SDA = 1 THEN "stop_clock" ELSE "mack_end", device.bit, device.data)
  /\ At("stop_clock") =>
     Notices
     \/ /\ Ends("stop_clock", 1) /\ Silent
        /\ DeviceIs("stop", device.seen, device.bit, device.data, device.read, device.ready)
  /\ At("stop") =>
     SDA = 1 /\ Silent
     /\ DeviceIs("idle", device.seen, device.bit, device.data, device.read, device.ready)
  /\ At("mack_end") =>
     Notices
     \/ /\ Ends("mack_end", 0)
        /\ \/ device.ready /\ Stretches("read")
           \/ ~device.ready /\ Silent /\ DeviceGoes("bit_end", 0, Shift(device.data, 0))
  /\ At("first") =>
     Notices
     \/ /\ Ends("first", 1) /\ Silent
        /\ DeviceGoes(IF SDA = 1 THEN "data" ELSE "first_low", 1, SDA)
  /\ At("first_low") =>
     /\ Silent
     /\ \/ SCL = 0 /\ DeviceGoes("data", device.bit, device.data)
        \/ SDA = 1 /\ DeviceGoes("idle", device.bit, device.data)
  /\ At("data") =>
     Notices
     \/ /\ Ends("data", 1) /\ Silent
        /\ DeviceGoes(IF device.bit = BITS - 1 THEN "byte_end" ELSE "data", device.bit + 1,
                      Shift(device.data, SDA))
  /\ At("byte_end") =>
     Notices
     \/ /\ Ends("byte_end", 0)
        /\ \/ device.ready /\ Stretches("write")
           \/ ~device.ready /\ Silent /\ DeviceGoes("nack_end", device.bit, device.data)
  /\ At("nack_end") =>
     Notices
     \/ /\ Ends("nack_end", 0) /\ Silent
        /\ DeviceGoes("first", device.bit, device.data)
  /\ device.pc \notin Callbacks
<1> USE DEF Moves, Notices, At, Ends, Rising, Falling, Callbacks
<1>1. At("idle") =>
     edge /\ Silent
     /\ \/ SDA = 1 /\ UNCHANGED device
        \/ SDA = 0 /\ DeviceIs("addr", FALSE, 0, 0, device.read, device.ready)
  OBVIOUS
<1>2. At("addr") =>
     Notices
     \/ /\ Ends("addr", 1) /\ Silent
        /\ DeviceGoes(IF device.bit = BITS - 2 THEN "dir" ELSE "addr", device.bit + 1,
                      Shift(device.data, SDA))
  OBVIOUS
<1>3. At("dir") =>
     Notices
     \/ /\ Ends("dir", 1) /\ Silent
        /\ DeviceIs("dir_end", FALSE, device.bit, device.data, SDA = 1, device.ready)
  OBVIOUS
<1>4. At("dir_end") =>
     Notices \/ (Ends("dir_end", 0) /\ Stretches("start"))
  OBVIOUS
<1>5. At("ack_end") =>
     Notices
     \/ /\ Ends("ack_end", 0) /\ UNCHANGED <<dev_scl, heard, given>>
        /\ \/ /\ device.read /\ dev_sda' = Bit(device.data)
              /\ DeviceGoes("bit_end", 0, Shift(device.data, 0))
           \/ /\ ~device.read /\ dev_sda' = 2
              /\ DeviceGoes("first", device.bit, device.data)
  OBVIOUS
<1>6. At("bit_end") =>
     Notices
     \/ /\ Ends("bit_end", 0) /\ UNCHANGED <<dev_scl, heard, given>>
        /\ \/ /\ device.bit = BITS - 1 /\ dev_sda' = 2
              /\ DeviceGoes("mack", device.bit, device.data)
           \/ /\ device.bit # BITS - 1 /\ dev_sda' = Bit(device.data)
              /\ DeviceGoes("bit_end", device.bit + 1, Shift(device.data, 0))
  OBVIOUS
<1>7. At("mack") =>
     Notices
     \/ /\ Ends("mack", 1) /\ Silent
        /\ DeviceGoes(IF SDA = 1 THEN "stop_clock" ELSE "mack_end", device.bit, device.data)
  OBVIOUS
<1>8. At("stop_clock") =>
     Notices
     \/ /\ Ends("stop_clock", 1) /\ Silent
        /\ DeviceIs("stop", device.seen, device.bit, device.data, device.read, device.ready)
  OBVIOUS
<1>9. At("stop") =>
     SDA = 1 /\ Silent
     /\ DeviceIs("idle", device.seen, device.bit, device.data, device.read, device.ready)
  OBVIOUS
<1>10. At("mack_end") =>
     Notices
     \/ /\ Ends("mack_end", 0)
        /\ \/ device.ready /\ Stretches("read")
           \/ ~device.ready /\ Silent /\ DeviceGoes("bit_end", 0, Shift(device.data, 0))
  OBVIOUS
<1>11. At("first") =>
     Notices
     \/ /\ Ends("first", 1) /\ Silent
        /\ DeviceGoes(IF SDA = 1 THEN "data" ELSE "first_low", 1, SDA)
  OBVIOUS
<1>12. At("first_low") =>
     /\ Silent
     /\ \/ SCL = 0 /\ DeviceGoes("data", device.bit, device.data)
        \/ SDA = 1 /\ DeviceGoes("idle", device.bit, device.data)
  OBVIOUS
<1>13. At("data") =>
     Notices
     \/ /\ Ends("data", 1) /\ Silent
        /\ DeviceGoes(IF device.bit = BITS - 1 THEN "byte_end" ELSE "data", device.bit + 1,
                      Shift(device.data, SDA))
  OBVIOUS
<1>14. At("byte_end") =>
     Notices
     \/ /\ Ends("byte_end", 0)
        /\ \/ device.ready /\ Stretches("write")
           \/ ~device.ready /\ Silent /\ DeviceGoes("nack_end", device.bit, device.data)
  OBVIOUS
<1>15. At("nack_end") =>
     Notices
     \/ /\ Ends("nack_end", 0) /\ Silent
        /\ DeviceGoes("first", device.bit, device.data)
  OBVIOUS
<1>16. device.pc \notin Callbacks
  OBVIOUS
<1> HIDE DEF Moves, Notices, At, Ends, Rising, Falling, Callbacks
<1> QED BY <1>1, <1>2, <1>3, <1>4, <1>5, <1>6, <1>7, <1>8, <1>9, <1>10, <1>11, <1>12, <1>13,
           <1>14, <1>15, <1>16

\* While a call sends a byte the device does not give up, and nobody moves SDA.
LEMMA Following ==
  ASSUME TypeInv, WireInv, i2c_int_gpio, On({"begin", "write", "read", "restart", "end"})
  PROVE  /\ Moves \/ Answers
         /\ host_state' = host_state /\ host_data' = host_data /\ host_ack' = host_ack
         /\ host_sda' = host_sda /\ host_scl' = host_scl /\ TR0' = TR0
         /\ call' = call /\ count' = count
         /\ step' = step /\ bit' = bit /\ byte' = byte /\ (\A names : On(names)' <=> On(names))
<1>1. TR0
  BY DEF WireInv, CallInv, On
<1>2. Moves \/ Answers
  BY <1>1, DeviceDoes DEF GivesUp
<1> QED BY <1>2 DEF i2c_int_gpio, hostVars, step, bit, byte, On

\* start has returned.
LEMMA AddressAnswered ==
  ASSUME TypeInv, WireInv, AddressInv, i2c_int_gpio, Answers, step \in 6..8, At("start"),
         device.data = Bits(byte, BITS - 1),
         device.read <=> BitOf(byte, BITS - 1) = 1
  PROVE  AnswerInv' \/ LostInv'
<1>1. /\ On({"begin", "write"}) /\ (On({"write"}) => GoesOn) /\ ~count.read
      /\ heard = <<>> /\ dev_sda = 2
  BY DEF AddressInv
<1>2. /\ host_state' = host_state /\ call' = call /\ count' = count
      /\ step' = step /\ byte' = byte /\ (\A names : On(names)' <=> On(names))
  BY <1>1, Following DEF On
<1>3. /\ step \in {6, 7, 8} /\ byte \in Byte /\ device.read \in BOOLEAN
      /\ device.data \in Nat
  <2>1. device.data \in Nat
    BY Facts DEF Byte
  <2> QED BY <2>1, Facts
<1>4. PICK answer \in BOOLEAN, x \in Byte, ok \in BOOLEAN :
        /\ ok => (device.read => answer)
        /\ heard' = Heard(2 * device.data + Dir, ok)
        /\ given' = IF ok /\ device.read THEN <<x>> ELSE <<>>
        /\ dev_sda' = IF ok THEN 0 ELSE dev_sda
        /\ DeviceIs("ack_end", FALSE, device.bit, IF device.read THEN x ELSE 0,
                        device.read, ok)
  BY DEF Answers, At
<1>5. /\ device.read <=> byte % 2 = 1
      /\ 2 * device.data + Dir = byte
  <2>1. BitOf(byte, BITS - 1) = byte % 2 /\ 2 * Bits(byte, BITS - 1) + (byte % 2) = byte
    BY <1>3, WholeByte
  <2>2. byte % 2 \in {0, 1}
    BY <1>3 DEF Byte
  <2>3. Dir = byte % 2
    BY <2>1, <2>2 DEF Dir
  <2> QED BY <2>1, <2>3
<1>6. heard' = <<[byte |-> byte, ok |-> ok]>>
  BY <1>1, <1>4, <1>5 DEF Heard
<1>7. byte % 2 = 1 \/ byte % 2 = 0
  BY <1>3 DEF Byte
<1>8. CASE ok
  <2>1. AnswerAt(TRUE)'
    BY <1>2, <1>3, <1>4, <1>8 DEF AnswerAt, At, DeviceIs
  <2>2. /\ On({"begin", "write"})' /\ ~count'.read /\ step' \in 6..10
        /\ heard' = <<[byte |-> byte', ok |-> TRUE]>>
        /\ device'.ready
    <3>1. step' \in 6..10
      BY <1>2, <1>3
    <3>2. device'.ready
      BY <1>4, <1>8 DEF DeviceIs
    <3> QED BY <1>1, <1>2, <1>6, <1>8, <3>1, <3>2
  <2>3. /\ device'.read => IF On({"begin"})' THEN byte' % 2 = 1 ELSE GoesOn
        /\ On({"begin"})' /\ ~device'.read => byte' % 2 = 0
    <3>1. device'.read = device.read
      BY <1>4 DEF DeviceIs
    <3>2. On({"write"}) \/ On({"begin"})
      BY <1>1 DEF On
    <3> QED BY <1>1, <1>2, <1>5, <1>7, <3>1, <3>2
  <2>4. step' \notin {9, 10}
    BY <1>2, <1>3
  <2> QED BY <2>1, <2>2, <2>3, <2>4 DEF AnswerInv, Answer
<1>9. CASE ~ok
  <2>1. /\ device'.pc = "ack_end" /\ ~device'.ready /\ ~device'.seen /\ dev_sda' = 2
        /\ step' \in {6, 7, 8}
        /\ heard' # <<>> /\ ~Head(heard').ok /\ On({"begin", "write"})' /\ ~count'.read
    BY <1>1, <1>2, <1>3, <1>4, <1>6, <1>9 DEF DeviceIs
  <2> QED BY <2>1 DEF LostInv, LostCall, LostPlace, Refused, Waiting, Misled,
                       Apart, Astray, At, On
<1> QED BY <1>8, <1>9

\* The device follows.
LEMMA AddressDevice ==
  ASSUME TypeInv, WireInv, ByteInv, AddressInv, i2c_int_gpio, Edge
  PROVE  AddressInv' \/ AnswerInv' \/ LostInv'
<1>1. /\ On({"begin", "write"}) /\ (On({"write"}) => GoesOn) /\ ~count.read
      /\ heard = <<>> /\ dev_sda = 2
  BY DEF AddressInv
<1>2. /\ Moves \/ Answers
      /\ host_state' = host_state /\ host_sda' = host_sda /\ call' = call /\ count' = count
      /\ step' = step /\ bit' = bit /\ byte' = byte /\ (\A names : On(names)' <=> On(names))
  BY <1>1, Following DEF On
<1>3. /\ step \in 0..10 /\ bit \in 0..(BITS - 1) /\ BITS \in Nat /\ BITS > 1
      /\ byte \in Byte
      /\ step \in {0, 1} => bit = 0
  BY <1>1, Facts DEF WireInv, CallInv
<1>4. CASE step \in 6..8 /\ At("start")
  <2>1. /\ device.data = Bits(byte, BITS - 1)
        /\ device.read <=> BitOf(byte, BITS - 1) = 1
    BY <1>4 DEF AddressInv, AddressAt, Took, At
  <2>2. Answers
    BY <1>2, <1>4, FromPlaces DEF At, Callbacks
  <2> QED BY <1>4, <2>1, <2>2, AddressAnswered
<1>5. CASE ~At("start")
  <2>1. \A n \in 0..BITS :
          Took(n) => IF n = BITS THEN At("dir_end")
                     ELSE IF n = BITS - 1 THEN At("dir") ELSE At("addr")
    BY DEF Took, At
  <2>2. At("idle") \/ At("addr") \/ At("dir") \/ At("dir_end")
    BY <1>3, <1>5, <2>1 DEF AddressInv, AddressAt
  <2>3. Moves
    BY <1>2, <2>2 DEF Answers, At
  <2>4. /\ ~dev_scl
        /\ step \in {2, 3, 6} => SCL = 0
        /\ step \in {4, 5} => SCL = 1
        /\ step \in {0, 1} => (SCL = 0 <=> On({"write"}))
    <3>1. ~dev_scl
      BY <2>2 DEF WireInv, ClockInv, At, Callbacks
    <3>2. /\ step \in {2, 3, 6} => host_scl
          /\ step \in {4, 5} => ~host_scl
          /\ step \in {0, 1} => (host_scl <=> On({"write"}))
      BY DEF WireInv, ClockInv
    <3> QED BY <3>1, <3>2 DEF SCL
  <2>5. SUFFICES AddressAt' /\ heard' = heard /\ dev_sda' = dev_sda
    BY <1>1, <1>2 DEF AddressInv
  <2>6. CASE step = 0 /\ At("idle") /\ ~edge
    BY <2>3, <2>6, FromPlaces
  <2>7. CASE step = 1 /\ At("idle") /\ edge
    <3>1. SDA = 0
      BY <2>7 DEF WireInv, DataInv, SDA
    <3>2. Silent /\ DeviceIs("addr", FALSE, 0, 0, device.read, device.ready)
      <4>1. At("idle")
        BY <2>7
      <4>2. Silent
        BY <2>3, <4>1, FromPlaces
      <4>3. SDA = 1 \/ DeviceIs("addr", FALSE, 0, 0, device.read, device.ready)
        BY <2>3, <4>1, FromPlaces
      <4>4. SDA # 1
        BY <3>1
      <4> QED BY <4>2, <4>3, <4>4
    <3>3. Took(0)' /\ ~device'.seen
      BY <1>2, <1>3, <3>2, WholeByte DEF Took, At, DeviceIs
    <3> QED BY <1>2, <2>7, <3>2, <3>3 DEF AddressAt, Silent
  <2>8. CASE step = 1 /\ Took(0) /\ (device.seen => On({"write"}))
    <3>1. At("addr")
      BY <1>3, <2>1, <2>8
    <3>2. Notices
      BY <2>3, <2>4, <2>8, <3>1, FromPlaces DEF Ends
    <3>3. On({"write"})
      BY <2>4, <2>8, <3>1, <3>2 DEF Notices, At, Rising
    <3>4. Took(0)'
      BY <1>2, <2>8, <3>2 DEF Took, Notices, DeviceIs, At
    <3> QED BY <1>2, <2>8, <3>2, <3>3, <3>4 DEF AddressAt, Notices, Silent
  <2>9. CASE step \in {2, 3, 4} /\ Took(bit) /\ (step # 2 => device.seen)
    <3>1. IF bit = BITS - 1 THEN At("dir") ELSE At("addr")
      BY <1>3, <2>1, <2>9
    <3>2. CASE Notices
      <4>1. Took(bit)'
        BY <1>2, <2>9, <3>2 DEF Took, Notices, DeviceIs, At
      <4>2. step = 2 /\ device'.seen /\ Silent
        BY <2>9, <3>2 DEF Notices, DeviceIs
      <4> QED BY <1>2, <4>1, <4>2 DEF AddressAt, Silent
    <3>3. CASE ~Notices
      <4>1. Ends("addr", 1) \/ Ends("dir", 1)
        BY <2>3, <3>1, <3>3, FromPlaces
      <4>2. step = 4
        BY <2>4, <2>9, <4>1 DEF Ends
      <4>3. SDA = BitOf(byte, bit)
        <5>1. BitOf(byte, bit) \in {0, 1} /\ (host_sda <=> BitOf(byte, bit) = 0)
          BY <1>1, <1>3, <4>2, Shifts DEF ByteInv
        <5> QED BY <1>1, <5>1 DEF SDA
      <4>4. CASE bit = BITS - 1
        <5>1. /\ Silent
              /\ DeviceIs("dir_end", FALSE, device.bit, device.data, SDA = 1, device.ready)
          BY <2>3, <3>1, <3>3, <4>4, FromPlaces
        <5>2. device.data = Bits(byte, BITS - 1)
          BY <1>3, <2>9, <4>4 DEF Took
        <5>3. /\ device'.pc = "dir_end" /\ device'.data = Bits(byte, BITS - 1)
              /\ device'.read <=> BitOf(byte, BITS - 1) = 1
          BY <4>3, <4>4, <5>1, <5>2 DEF DeviceIs
        <5>4. Took(BITS)' /\ bit + 1 = BITS /\ ~device'.seen
          BY <1>2, <1>3, <4>4, <5>1, <5>3 DEF Took, DeviceIs, At
        <5> QED BY <1>2, <4>2, <4>4, <5>1, <5>4 DEF AddressAt, Silent
      <4>5. CASE bit # BITS - 1
        <5>1. /\ Silent
              /\ DeviceGoes(IF device.bit = BITS - 2 THEN "dir" ELSE "addr", device.bit + 1,
                            Shift(device.data, SDA))
          BY <2>3, <3>1, <3>3, <4>5, FromPlaces
        <5>2. device.bit = bit /\ device.data = Bits(byte, bit)
          BY <1>3, <2>9 DEF Took
        <5>3. Shift(device.data, SDA) = Bits(byte, bit + 1)
          BY <1>3, <4>3, <5>2, Shifts
        <5>4. Took(bit + 1)' /\ ~device'.seen
          BY <1>2, <1>3, <4>5, <5>1, <5>2, <5>3 DEF Took, DeviceGoes, DeviceIs, At
        <5> QED BY <1>2, <4>2, <5>1, <5>4 DEF AddressAt, Silent
      <4> QED BY <4>4, <4>5
    <3> QED BY <3>2, <3>3
  <2>10. CASE step = 4 /\ Took(bit + 1) /\ (device.seen => bit = BITS - 1)
    <3>1. IF bit = BITS - 1 THEN At("dir_end") ELSE At("dir") \/ At("addr")
      BY <1>3, <2>1, <2>10
    <3>2. SCL = 1
      BY <2>4, <2>10
    <3>3. Notices
      <4>1. CASE bit = BITS - 1
        BY <2>3, <3>1, <3>2, <4>1, FromPlaces DEF Ends
      <4>2. CASE bit # BITS - 1
        <5>1. ~device.seen
          BY <2>10, <4>2
        <5> QED BY <2>3, <3>1, <4>2, <5>1, FromPlaces DEF Ends
      <4> QED BY <4>1, <4>2
    <3>4. bit = BITS - 1
      BY <3>1, <3>2, <3>3 DEF Notices, At, Rising
    <3>5. Took(bit + 1)'
      BY <1>2, <2>10, <3>3 DEF Took, Notices, DeviceIs, At
    <3> QED BY <1>2, <2>10, <3>3, <3>4, <3>5 DEF AddressAt, Notices, Silent
  <2>11. CASE step = 5 /\ Took(bit + 1) /\ (device.seen <=> bit = BITS - 1)
    <3>1. IF bit = BITS - 1 THEN At("dir_end") ELSE At("dir") \/ At("addr")
      BY <1>3, <2>1, <2>11
    <3>2. SCL = 1
      BY <2>4, <2>11
    <3>3. Notices
      <4>1. CASE bit = BITS - 1
        BY <2>3, <3>1, <3>2, <4>1, FromPlaces DEF Ends
      <4>2. CASE bit # BITS - 1
        <5>1. ~device.seen
          BY <2>11, <4>2
        <5> QED BY <2>3, <3>1, <4>2, <5>1, FromPlaces DEF Ends
      <4> QED BY <4>1, <4>2
    <3> QED BY <2>11, <3>1, <3>2, <3>3 DEF Notices, At, Rising
  <2>12. CASE step = 6 /\ Took(BITS) /\ device.seen
    <3>1. At("dir_end")
      BY <1>3, <2>1, <2>12
    <3>2. Stretches("start")
      BY <2>3, <2>12, <3>1, FromPlaces DEF Notices
    <3> QED BY <1>2, <2>12, <3>2 DEF AddressAt, Stretches, DeviceIs, Took, At
  <2> QED BY <1>5, <2>6, <2>7, <2>8, <2>9, <2>10, <2>11, <2>12 DEF AddressInv, AddressAt
<1>6. At("start") => step \in 6..8
  BY <1>3 DEF AddressInv, AddressAt, At, Took
<1> QED BY <1>4, <1>5, <1>6

-----------------------------------------------------------------------------
(* The device answers *)

\* A tick: the host samples the acknowledge while the device drives it.
LEMMA AnswerTick ==
  ASSUME TypeInv, WireInv, AnswerInv, i2c_int_tmr0
  PROVE  AnswerInv'
<1>1. PICK ok \in BOOLEAN : Answer(ok)
  BY DEF AnswerInv
<1>2. /\ Ticks /\ Quiet /\ call' = call /\ count' = count /\ heard' = heard
      /\ given' = given
      /\ dev_sda' = dev_sda /\ dev_scl' = dev_scl /\ device' = device
  <2>1. step # 5
    BY <1>1 DEF Answer
  <2> QED BY <2>1, TickDoes DEF deviceVars
<1>3. /\ byte' = byte /\ (\A names : On(names)' <=> On(names))
      /\ \A pc : At(pc)' <=> At(pc)
      /\ \A x, n : Drives(x, n)' <=> Drives(x, n)
  BY <1>2 DEF byte, On, At, Drives
<1>4. ~host_state.read /\ bit \in 0..(BITS - 1) /\ step \in {6, 7, 8, 9, 10}
  BY <1>1, Facts DEF Answer, WireInv, CallInv
<1>5. CASE At("ack_end")
  <2>1. /\ dev_sda = IF ok THEN 0 ELSE 1
        /\ device.read => given = <<device.data>>
        /\ step < 8 => ~device.seen
        /\ step > 8 => device.seen
        /\ device.seen <=> SCL = 1
    <3>1. ~At("first") /\ \A x, n : ~Drives(x, n)
      BY <1>5 DEF At, Drives
    <3>2. /\ dev_sda = IF ok THEN 0 ELSE 1
          /\ device.read => given = <<device.data>>
          /\ step < 8 => ~device.seen
          /\ step > 8 => device.seen
      BY <1>1, <3>1 DEF Answer, AnswerAt
    <3>3. device.seen <=> SCL = 1
      BY <1>2, <1>5 DEF At, Quiet, Falling
    <3> QED BY <3>2, <3>3
  <2>2. step # 10
    <3>1. step = 10 => SCL = 0
      BY DEF WireInv, ClockInv, SCL
    <3> QED BY <2>1, <3>1
  <2>3. /\ step = 8 => step' = 9 /\ device.seen /\ (host_ack'.nack <=> ~ok)
        /\ step = 9 => step' = 10 /\ device.seen /\ host_ack' = host_ack
        /\ step = 6 => step' = 7
        /\ step = 7 => step' = 8
    <3>1. /\ step = 6 => step' = 7
          /\ step = 7 => step' = 8
          /\ step = 8 => step' = 9 /\ SCL = 1
          /\ step = 9 => step' = 10
      BY <1>2, TickSteps
    <3>2. step = 8 => host_ack'.nack = (SDA = 1)
      BY <1>2, <1>4 DEF Ticks, AckIs
    <3>3. step = 9 => host_ack' = host_ack
      BY <1>2 DEF Ticks
    <3>4. step = 8 => (SDA = 1 <=> ~ok)
      BY <1>4, <2>1 DEF WireInv, DataInv, SDA
    <3>5. step = 8 => (host_ack'.nack <=> ~ok)
      BY <3>2, <3>4
    <3> QED BY <2>1, <3>1, <3>3, <3>5
  <2>4. /\ step' \in {7, 8, 9, 10}
        /\ step' < 8 => ~device.seen
        /\ step' > 8 => device.seen
        /\ step' \in {9, 10} => (host_ack'.nack <=> ~ok)
    BY <1>1, <1>4, <2>1, <2>2, <2>3 DEF Answer
  <2>5. AnswerAt(ok)'
    BY <1>2, <1>3, <1>5, <2>1, <2>4 DEF AnswerAt
  <2>6. Answer(ok)'
    BY <1>1, <1>2, <1>3, <2>4, <2>5 DEF Answer
  <2> QED BY <2>6 DEF AnswerInv
<1>6. CASE ~At("ack_end")
  <2>1. step = 10 /\ step' = 10 /\ host_ack'.nack = host_ack.nack
    <3>1. step = 10
      BY <1>1, <1>6 DEF Answer, AnswerAt
    <3>2. step' = 10
      BY <1>2, <3>1, TickSteps
    <3>3. host_ack'.nack = host_ack.nack
      BY <1>2, <3>1 DEF Ticks, AckIs
    <3> QED BY <3>1, <3>2, <3>3
  <2>2. AnswerAt(ok)'
    BY <1>1, <1>2, <1>3, <1>6, <2>1 DEF Answer, AnswerAt
  <2>3. Answer(ok)'
    BY <1>1, <1>2, <1>3, <2>1, <2>2 DEF Answer
  <2> QED BY <2>3 DEF AnswerInv
<1> QED BY <1>5, <1>6

\* The first bit of what is sent goes out as the acknowledge ends.
LEMMA FirstBit ==
  ASSUME NEW x \in Byte
  PROVE  Top(x) = BitOf(x, 0) /\ Shift(x, 0) = Rest(x, 1)
<1>1. 0 \in 0..(BITS - 1) /\ 0 + 1 = 1
  BY I2cAssumption
<1>2. Top(Rest(x, 0)) = BitOf(x, 0) /\ Shift(Rest(x, 0), 0) = Rest(x, 0 + 1)
  BY <1>1, Shifts
<1> QED BY <1>1, <1>2, WholeByte

\* The device holds the acknowledge until SCL has fallen again.
LEMMA AnswerDevice ==
  ASSUME TypeInv, WireInv, AnswerInv, i2c_int_gpio
  PROVE  AnswerInv'
<1>1. PICK ok \in BOOLEAN : Answer(ok)
  BY DEF AnswerInv
<1>2. /\ Moves \/ Answers
      /\ host_ack' = host_ack /\ count' = count
      /\ step' = step /\ bit' = bit /\ byte' = byte /\ (\A names : On(names)' <=> On(names))
  BY <1>1, Following DEF On, Answer
<1>3. \A x, n : Drives(x, n) => At("bit_end")
  BY DEF Drives
<1>4. /\ At("ack_end") \/ At("first") \/ At("bit_end")
      /\ step \in {6, 7, 8, 9, 10} /\ device.data \in Byte /\ device.ready
  BY <1>1, <1>3, Facts DEF Answer, AnswerAt
<1>5. Moves
  BY <1>2, <1>4 DEF Answers, At
<1>6. /\ step \in {6, 7, 10} => SCL = 0
      /\ step \in {8, 9} => SCL = 1
  BY <1>4 DEF WireInv, ClockInv, SCL, At, Callbacks
<1>7. heard' = heard /\ device'.ready = device.ready /\ device'.read = device.read
  BY <1>4, <1>5, FromPlaces DEF Notices, Silent, DeviceGoes, DeviceIs, Stretches
<1>8. AnswerAt(ok)'
  <2>1. CASE At("ack_end")
    <3>1. ~At("first") /\ \A x, n : ~Drives(x, n)
      BY <1>3, <2>1 DEF At
    <3>2. /\ dev_sda = IF ok THEN 0 ELSE 1
          /\ device.read => given = <<device.data>>
          /\ step < 8 => ~device.seen
          /\ step > 8 => device.seen
      BY <1>1, <3>1 DEF Answer, AnswerAt
    <3>3. CASE Notices
      <4>1. step = 8
        BY <1>4, <1>6, <2>1, <3>2, <3>3 DEF Notices, At, Falling
      <4> QED BY <1>2, <2>1, <3>2, <3>3, <4>1 DEF AnswerAt, Notices, Silent, DeviceIs, At
    <3>4. CASE ~Notices
      <4>1. step = 10
        <5>1. device.seen /\ SCL = 0
          BY <1>5, <2>1, <3>4, FromPlaces DEF Ends
        <5> QED BY <1>4, <1>6, <3>2, <5>1
      <4>2. CASE device.read
        <5>1. PICK x \in Byte : x = device.data
          BY <1>4
        <5>2. given' = <<x>> /\ dev_sda' = Top(x) /\ DeviceGoes("bit_end", 0, Shift(x, 0))
          BY <1>4, <1>5, <2>1, <3>2, <3>4, <4>2, <5>1, FromPlaces DEF Bit
        <5>3. device'.pc = "bit_end" /\ device'.bit = 0 /\ ~device'.seen
          BY <5>2 DEF DeviceGoes, DeviceIs
        <5>4. dev_sda' = BitOf(x, 0) /\ device'.data = Rest(x, 0 + 1)
          BY <5>2, FirstBit DEF DeviceGoes, DeviceIs
        <5>5. Drives(x, 0)'
          BY <5>3, <5>4 DEF Drives, At
        <5> QED BY <1>2, <1>7, <4>1, <4>2, <5>2, <5>3, <5>5 DEF AnswerAt
      <4>3. CASE ~device.read
        <5>1. dev_sda' = 2 /\ DeviceGoes("first", device.bit, device.data)
          BY <1>5, <2>1, <3>4, <4>3, FromPlaces
        <5> QED BY <1>2, <4>1, <4>3, <5>1 DEF AnswerAt, DeviceGoes, DeviceIs, At
      <4> QED BY <4>2, <4>3
    <3> QED BY <3>3, <3>4
  <2>2. CASE At("first")
    <3>1. ~At("ack_end") /\ \A x, n : ~Drives(x, n)
      BY <1>3, <2>2 DEF At
    <3>2. step = 10 /\ ~device.read /\ dev_sda = 2
      BY <1>1, <3>1 DEF Answer, AnswerAt
    <3>3. Notices
      BY <1>5, <1>6, <2>2, <3>2, FromPlaces DEF Ends
    <3> QED BY <1>2, <2>2, <3>2, <3>3 DEF AnswerAt, Notices, Silent, DeviceIs, At
  <2>3. CASE At("bit_end")
    <3>1. step = 10 /\ ~device.seen
      BY <1>1, <2>3 DEF Answer, AnswerAt, At
    <3> QED BY <1>5, <1>6, <2>3, <3>1, FromPlaces DEF Notices, Ends, At, Falling
  <2> QED BY <1>4, <2>1, <2>2, <2>3
<1>9. Answer(ok)'
  BY <1>1, <1>2, <1>7, <1>8 DEF Answer
<1> QED BY <1>9 DEF AnswerInv

\* The call returns when all this is over.
LEMMA AnswerCalls ==
  ASSUME TypeInv, WireInv, AnswerInv, Calls
  PROVE  BetweenInv'
<1>1. PICK ok \in BOOLEAN : Answer(ok)
  BY DEF AnswerInv
<1>2. Main /\ Quiet
  BY CallsDo
<1>3. DoesReturn
  BY <1>1, <1>2 DEF Answer, Main, DoesBegin, DoesRestart, DoesBeginAgain, DoesWrite, DoesRead,
                    DoesEnd, DoesFinish, On
<1>4. step = 10 /\ SCL = 0
  BY <1>1, <1>3 DEF Answer, DoesReturn, WireInv, CallInv, ClockInv, On, SCL
<1>5. /\ step' = step /\ device' = device /\ dev_sda' = dev_sda
      /\ On({"none"})' /\ given' = given
      /\ count'.read <=> IF On({"begin"}) THEN ~host_ack.nack /\ byte % 2 = 1 ELSE FALSE
  BY <1>1, <1>3 DEF Answer, DoesReturn, CallIs, On, step, CountIs
<1>6. /\ \A pc : At(pc)' <=> At(pc)
      /\ \A x, n : Drives(x, n)' <=> Drives(x, n)
  BY <1>5 DEF At, Drives
<1>7. host_ack.nack <=> ~ok
  BY <1>1, <1>4 DEF Answer
<1>8. CASE At("ack_end")
  BY <1>1, <1>2, <1>4, <1>8 DEF Answer, AnswerAt, Quiet, At, Falling, Drives
<1>9. CASE step = 10 /\ ~device.read /\ At("first") /\ dev_sda = 2
  <2>1. device.seen
    BY <1>2, <1>4, <1>9 DEF Quiet, At, Rising
  <2>2. ~count'.read
    BY <1>1, <1>5, <1>9 DEF Answer
  <2>3. device'.ready
    BY <1>1, <1>5 DEF Answer
  <2> QED BY <1>4, <1>5, <1>6, <1>9, <2>1, <2>2, <2>3 DEF BetweenInv
<1>10. CASE /\ step = 10 /\ device.read /\ ~device.seen
            /\ \E x \in Byte : given = <<x>> /\ Drives(x, 0)
  <2>1. count'.read \/ GoesOn
    BY <1>1, <1>5, <1>7, <1>10 DEF Answer
  <2>2. device'.ready
    BY <1>1, <1>5 DEF Answer
  <2> QED BY <1>4, <1>5, <1>6, <1>10, <2>1, <2>2 DEF BetweenInv
<1> QED BY <1>1, <1>8, <1>9, <1>10 DEF Answer, AnswerAt

\* While a byte is sent the main loop waits for its end.
LEMMA MidCall ==
  ASSUME TypeInv, WireInv, Calls, On({"begin", "write", "read"})
  PROVE  DoesReturn /\ step = 10 /\ SCL = 0 /\ Quiet
<1>1. Main /\ Quiet
  BY CallsDo
<1>2. DoesReturn
  BY <1>1 DEF Main, DoesBegin, DoesRestart, DoesBeginAgain, DoesWrite, DoesRead, DoesEnd,
              DoesFinish, On
<1> QED BY <1>1, <1>2 DEF DoesReturn, WireInv, CallInv, ClockInv, On, SCL

\* An address is not interrupted.
LEMMA AddressCalls ==
  ASSUME TypeInv, WireInv, AddressInv, Calls
  PROVE  FALSE
<1>1. step = 10
  BY MidCall DEF AddressInv, On
<1> QED BY <1>1 DEF AddressInv, AddressAt

-----------------------------------------------------------------------------
(* A byte is written *)

\* The levels of SCL while a byte is sent.
LEMMA Clock ==
  ASSUME TypeInv, WireInv
  PROVE  /\ step \in {2, 3, 6, 7, 10} => SCL = 0
         /\ step \in {4, 5, 8, 9} /\ device.pc \notin Callbacks => SCL = 1
         /\ step \in {0, 1} /\ device.pc \notin Callbacks => (SCL = 0 <=> On({"write"}))
         /\ device.pc \in Callbacks => SCL = 0
BY DEF WireInv, ClockInv, SCL

\* A tick: the device has followed the last one.
LEMMA WritingTick ==
  ASSUME TypeInv, WireInv, WritingInv, i2c_int_tmr0
  PROVE  WritingInv'
<1>1. /\ Ticks /\ call' = call /\ count' = count /\ heard' = heard
      /\ dev_sda' = dev_sda /\ dev_scl' = dev_scl /\ device' = device
      /\ Quiet \/ (step = 5 /\ At("first_low"))
  BY TickDoes DEF deviceVars
<1>2. /\ step \in 0..10 /\ bit \in 0..(BITS - 1) /\ BITS \in Nat /\ BITS > 1
      /\ step \in {0, 1} => bit = 0
      /\ byte' = byte /\ (\A names : On(names)' <=> On(names))
  BY <1>1, Facts DEF WritingInv, WireInv, CallInv, byte, On
<1>3. /\ device.pc \in Rising => (device.seen <=> SCL = 0)
      /\ device.pc \in Falling => (device.seen <=> SCL = 1)
      /\ At("first_low") /\ step # 5 => SCL = 1
  BY <1>1 DEF Quiet, At, Rising, Falling
<1>4. /\ \A n \in 0..BITS : Wrote(n)' <=> Wrote(n)
      /\ FirstIsLow' <=> FirstIsLow
      /\ \A pc : At(pc)' <=> At(pc)
  BY <1>1, <1>2 DEF Wrote, FirstIsLow, At, byte
<1>5. \A n \in 0..BITS : Wrote(n) => At(IF n = BITS THEN "byte_end" ELSE "data")
  BY DEF Wrote
<1> SUFFICES WritingAt'
  BY <1>1, <1>2 DEF WritingInv
<1> USE <1>2
<1>7. CASE step \in 0..4 /\ bit = 0 /\ At("first") /\ device.seen
  <2>1. SCL = 0
    BY <1>3, <1>7 DEF At, Rising
  <2>2. step # 4
    BY <1>7, <2>1, Clock DEF At, Callbacks
  <2>3. step' \in {1, 2, 3, 4} /\ bit' = 0
    <3>1. step \in {0, 1, 2, 3}
      BY <1>7, <2>2
    <3>2. /\ step = 0 => step' = 1 /\ bit' = bit
          /\ step = 1 => step' = 2 /\ bit' = bit
          /\ step = 2 => step' = 3 /\ bit' = bit
          /\ step = 3 => step' = 4 /\ bit' = bit
      BY <1>1, TickSteps
    <3> QED BY <1>7, <3>1, <3>2
  <2> QED BY <1>1, <1>4, <1>7, <2>3 DEF WritingAt
<1>8. CASE ((step \in {4, 5} /\ bit = 0) \/ (step = 2 /\ bit = 1)) /\ FirstIsLow
  <2>2. step # 2
    BY <1>3, <1>8, Clock DEF FirstIsLow
  <2>3. CASE step = 4
    <3>1. step' = 5 /\ bit' = 0
      BY <1>1, <1>8, <2>3, TickSteps
    <3> QED BY <1>4, <1>8, <3>1 DEF WritingAt
  <2>4. CASE step = 5 /\ ~host_sda
    <3>1. step' = 2 /\ bit' = 1
      BY <1>1, <1>8, <2>4, TickSteps
    <3> QED BY <1>4, <1>8, <3>1 DEF WritingAt
  <2>5. CASE step = 5 /\ host_sda
    <3>1. step' = 5 /\ bit' = 0
      BY <1>1, <1>8, <2>5, TickSteps
    <3> QED BY <1>4, <1>8, <3>1 DEF WritingAt
  <2> QED BY <1>8, <2>2, <2>3, <2>4, <2>5
<1>10. CASE step \in {2, 3, 4} /\ bit > 0 /\ Wrote(bit) /\ (step # 2 => device.seen)
  <2>1. At("data")
    BY <1>5, <1>10
  <2>2. device.seen <=> SCL = 0
    BY <1>3, <2>1 DEF At, Rising
  <2>3. step \in {2, 3}
    BY <1>10, <2>1, <2>2, Clock DEF At, Callbacks
  <2>4. device.seen
    BY <2>2, <2>3, Clock
  <2>5. step' \in {3, 4} /\ bit' = bit
    BY <1>1, <2>3, TickSteps
  <2> QED BY <1>1, <1>4, <1>10, <2>4, <2>5 DEF WritingAt
<1>11. CASE step = 4 /\ Wrote(bit + 1) /\ (device.seen => bit = BITS - 1)
  <2>1. SCL = 1 /\ step' = 5 /\ bit' = bit /\ bit + 1 \in 0..BITS
    BY <1>1, <1>11, TickSteps
  <2>2. bit # BITS - 1 => ~device.seen
    BY <1>11
  <2>3. bit = BITS - 1 => device.seen
    BY <1>3, <1>5, <1>11, <2>1 DEF At, Falling
  <2> QED BY <1>1, <1>4, <1>11, <2>1, <2>2, <2>3 DEF WritingAt
<1>12. CASE step = 5 /\ Wrote(bit + 1) /\ (device.seen <=> bit = BITS - 1)
  <2>1. CASE host_sda
    <3>1. step' = 5 /\ bit' = bit /\ bit + 1 \in 0..BITS
      BY <1>1, <1>12, <2>1, TickSteps
    <3> QED BY <1>1, <1>4, <1>12, <3>1 DEF WritingAt
  <2>2. CASE ~host_sda /\ bit = BITS - 1
    <3>1. step' = 6 /\ bit + 1 = BITS
      BY <1>1, <1>12, <2>2, TickSteps
    <3> QED BY <1>1, <1>4, <1>12, <2>2, <3>1 DEF WritingAt
  <2>3. CASE ~host_sda /\ bit # BITS - 1
    <3>1. step' = 2 /\ bit' = bit + 1 /\ bit + 1 \in 0..BITS
      BY <1>1, <1>12, <2>3, TickSteps
    <3> QED BY <1>1, <1>4, <1>12, <2>3, <3>1 DEF WritingAt
  <2> QED BY <2>1, <2>2, <2>3
<1>13. CASE step = 6 /\ Wrote(BITS) /\ device.seen
  BY <1>3, <1>5, <1>13, Clock DEF At, Falling
<1>14. CASE step \in 6..8 /\ At("write") /\ device.data = byte
  <2>1. SCL = 0
    BY <1>14, Clock DEF At, Callbacks
  <2>2. step \in {6, 7, 8}
    BY <1>14
  <2>3. CASE step = 6
    <3>1. step' = 7
      BY <1>1, <2>3, TickSteps
    <3> QED BY <1>1, <1>4, <1>14, <3>1 DEF WritingAt
  <2>4. CASE step = 7
    <3>1. step' = 8
      BY <1>1, <2>4, TickSteps
    <3> QED BY <1>1, <1>4, <1>14, <3>1 DEF WritingAt
  <2>5. CASE step = 8
    BY <1>1, <2>1, <2>5, TickSteps
  <2> QED BY <2>2, <2>3, <2>4, <2>5
<1> QED BY <1>7, <1>8, <1>10, <1>11, <1>12, <1>13, <1>14 DEF WritingInv, WritingAt

\* The device samples at the rising edge what the host has put on the bus.
LEMMA Sampled ==
  ASSUME TypeInv, WireInv, ByteInv, On({"begin", "write"}), step \in {3, 4},
         dev_sda = 2
  PROVE  SDA = BitOf(byte, bit) /\ BitOf(byte, bit) \in {0, 1}
<1>1. BitOf(byte, bit) \in {0, 1}
  BY Facts, Shifts
<1>2. host_sda <=> BitOf(byte, bit) = 0
  BY DEF ByteInv
<1> QED BY <1>1, <1>2 DEF SDA

\* write has returned.
LEMMA WritingAnswered ==
  ASSUME TypeInv, WireInv, WritingInv, i2c_int_gpio, Answers, At("write")
  PROVE  AnswerInv'
<1>1. /\ On({"write"}) /\ ~count.read /\ heard = <<>> /\ device.ready /\ ~device.read
      /\ step \in 6..8 /\ device.data = byte
  BY DEF WritingInv, WritingAt, At, Wrote, FirstIsLow
<1>2. /\ host_state' = host_state /\ call' = call /\ count' = count
      /\ step' = step /\ byte' = byte /\ (\A names : On(names)' <=> On(names))
  BY <1>1, Following DEF On
<1>3. PICK ok \in BOOLEAN :
        /\ heard' = Heard(device.data, ok) /\ dev_sda' = (IF ok THEN 0 ELSE 1)
        /\ DeviceGoes("ack_end", device.bit, device.data)
  BY DEF Answers, At
<1>4. heard' = <<[byte |-> byte, ok |-> ok]>>
  BY <1>1, <1>3 DEF Heard
<1>5. step \in {6, 7, 8}
  BY <1>1
<1>6. AnswerAt(ok)'
  BY <1>1, <1>2, <1>3, <1>5 DEF AnswerAt, DeviceGoes, DeviceIs, At
<1>7. device'.ready /\ ~device'.read
  BY <1>1, <1>3 DEF DeviceGoes, DeviceIs
<1>8. ~On({"begin"}) /\ On({"begin", "write"})
  BY <1>1 DEF On
<1>9. Answer(ok)'
  BY <1>1, <1>2, <1>4, <1>5, <1>6, <1>7, <1>8 DEF Answer
<1> QED BY <1>9 DEF AnswerInv

\* The device follows.
LEMMA WritingDevice ==
  ASSUME TypeInv, WireInv, ByteInv, WritingInv, i2c_int_gpio
  PROVE  WritingInv' \/ AnswerInv' \/ LostInv'
<1>1. /\ On({"write"}) /\ ~count.read /\ heard = <<>> /\ dev_sda = 2
      /\ device.ready /\ ~device.read /\ On({"begin", "write"})
  BY DEF WritingInv, On
<1>2. /\ Moves \/ Answers
      /\ host_state' = host_state /\ host_sda' = host_sda /\ call' = call /\ count' = count
      /\ step' = step /\ bit' = bit /\ byte' = byte /\ (\A names : On(names)' <=> On(names))
  BY <1>1, Following DEF On
<1>3. /\ step \in 0..10 /\ bit \in 0..(BITS - 1) /\ BITS \in Nat /\ BITS > 1 /\ byte \in Byte
      /\ step \in {0, 1} => bit = 0
  BY <1>1, Facts DEF WireInv, CallInv
<1>4. CASE At("write")
  <2>1. Answers
    BY <1>2, <1>4, FromPlaces DEF At, Callbacks
  <2> QED BY <1>4, <2>1, WritingAnswered
<1>5. CASE ~At("write")
  <2>1. \A n \in 0..BITS : Wrote(n) => IF n = BITS THEN At("byte_end") ELSE At("data")
    BY DEF Wrote, At
  <2>2. At("first") \/ At("first_low") \/ At("data") \/ At("byte_end")
    BY <1>3, <1>5, <2>1 DEF WritingInv, WritingAt, FirstIsLow
  <2>3. Moves
    BY <1>2, <2>2 DEF Answers, At
  <2>4. /\ step \in {2, 3, 6} => SCL = 0
        /\ step \in {4, 5} => SCL = 1
        /\ step \in {0, 1} => SCL = 0
    <3>1. device.pc \notin Callbacks
      BY <2>2 DEF At, Callbacks
    <3> QED BY <1>1, <3>1, Clock
  <2>5. /\ heard' = heard /\ device'.ready = device.ready /\ device'.read = device.read
    BY <2>2, <2>3, FromPlaces DEF Notices, Silent, DeviceGoes, DeviceIs, Stretches
  <2>6. SUFFICES (WritingAt' /\ dev_sda' = dev_sda) \/ LostInv'
    BY <1>1, <1>2, <2>5 DEF WritingInv
  <2>7. CASE step \in 0..4 /\ bit = 0 /\ At("first") /\ device.seen
    <3>1. /\ SCL = 1 /\ Silent
          /\ DeviceGoes(IF SDA = 1 THEN "data" ELSE "first_low", 1, SDA)
      BY <2>3, <2>7, FromPlaces DEF Notices, Ends
    <3>2. step = 4
      <4>1. step \in {0, 1, 2, 3, 4}
        BY <2>7
      <4> QED BY <2>4, <3>1, <4>1
    <3>3. SDA = Bits(byte, 1) /\ SDA \in {0, 1}
      <4>1. SDA = BitOf(byte, 0) /\ SDA \in {0, 1}
        BY <1>1, <2>7, <3>2, Sampled
      <4>2. BitOf(byte, 0) = Bits(byte, 1) - 2 * 0
        BY <1>3, WholeByte DEF BitOf
      <4>3. Bits(byte, 1) \in Nat
        <5>1. 0 \in 0..(BITS - 1) /\ 0 + 1 = 1
          BY <1>3
        <5>2. Bits(byte, 0 + 1) \in Byte
          BY <1>3, <5>1, Shifts
        <5> QED BY <5>1, <5>2 DEF Byte
      <4> QED BY <4>1, <4>2, <4>3
    <3>4. CASE SDA = 1
      <4>1. Wrote(bit + 1)' /\ ~device'.seen
        BY <1>2, <1>3, <2>7, <3>1, <3>3, <3>4 DEF Wrote, At, DeviceGoes, DeviceIs
      <4> QED BY <1>2, <3>1, <3>2, <4>1 DEF WritingAt, Silent
    <3>5. CASE SDA = 0
      <4>1. FirstIsLow'
        BY <1>2, <3>1, <3>3, <3>5 DEF FirstIsLow, At, DeviceGoes, DeviceIs
      <4> QED BY <1>2, <2>7, <3>1, <3>2, <4>1 DEF WritingAt, Silent
    <3> QED BY <3>3, <3>4, <3>5
  <2>8. CASE ((step \in {4, 5} /\ bit = 0) \/ (step = 2 /\ bit = 1)) /\ FirstIsLow
    <3>1. At("first_low") /\ device.bit = 1 /\ device.data = 0 /\ Bits(byte, 1) = 0
      BY <2>8 DEF FirstIsLow
    <3>2. Silent
      BY <2>3, <3>1, FromPlaces
    <3>3. CASE SCL = 0 /\ DeviceGoes("data", device.bit, device.data)
      <4>1. step = 2 /\ bit = 1
        BY <2>4, <2>8, <3>3
      <4>2. Wrote(1)'
        BY <1>2, <1>3, <3>1, <3>3, <4>1 DEF Wrote, At, DeviceGoes, DeviceIs
      <4>3. Wrote(bit)' /\ step' = 2 /\ bit' > 0
        BY <1>2, <4>1, <4>2
      <4> QED BY <3>2, <4>3 DEF WritingAt, Silent
    <3>4. CASE SDA = 1 /\ DeviceGoes("idle", device.bit, device.data)
      <4>1. step # 4
        <5>1. CASE step = 4 /\ bit = 0
          <6>1. SDA = BitOf(byte, 0)
            BY <1>1, <5>1, Sampled
          <6>2. BitOf(byte, 0) = 0
            BY <1>3, <3>1, WholeByte DEF BitOf
          <6> QED BY <3>4, <6>1, <6>2
        <5> QED BY <2>8, <5>1
      <4>2. step' \in {2, 5} /\ SDA' = 1 /\ device'.pc = "idle" /\ heard' = <<>>
        BY <1>1, <1>2, <2>8, <3>2, <3>4, <4>1 DEF SDA, Silent, DeviceGoes, DeviceIs
      <4>3. On({"write"})' /\ ~count'.read /\ dev_sda' = 2
        BY <1>1, <1>2, <3>2 DEF Silent
      <4> QED BY <4>2, <4>3 DEF LostInv, LostCall, LostPlace, Refused, Waiting, Misled,
                                Apart, Astray, At, On
    <3>5. \/ SCL = 0 /\ DeviceGoes("data", device.bit, device.data)
          \/ SDA = 1 /\ DeviceGoes("idle", device.bit, device.data)
      BY <2>3, <3>1, FromPlaces
    <3> QED BY <3>3, <3>4, <3>5
  <2>9. CASE step \in {2, 3, 4} /\ bit > 0 /\ Wrote(bit) /\ (step # 2 => device.seen)
    <3>1. At("data") /\ device.bit = bit /\ device.data = Bits(byte, bit)
      BY <1>3, <2>1, <2>9 DEF Wrote
    <3>2. CASE Notices
      <4>1. Wrote(bit)'
        BY <1>2, <2>9, <3>2 DEF Wrote, Notices, DeviceIs, At
      <4>2. step = 2 /\ device'.seen /\ Silent
        BY <2>9, <3>2 DEF Notices, DeviceIs
      <4> QED BY <1>2, <2>9, <4>1, <4>2 DEF WritingAt, Silent
    <3>3. CASE ~Notices
      <4>1. /\ SCL = 1 /\ Silent
            /\ DeviceGoes(IF device.bit = BITS - 1 THEN "byte_end" ELSE "data",
                          device.bit + 1, Shift(device.data, SDA))
        BY <2>3, <3>1, <3>3, FromPlaces DEF Ends
      <4>2. step = 4
        BY <2>4, <2>9, <4>1
      <4>3. SDA = BitOf(byte, bit)
        BY <1>1, <4>2, Sampled
      <4>4. Shift(device.data, SDA) = Bits(byte, bit + 1)
        BY <1>3, <3>1, <4>3, Shifts
      <4>5. Wrote(bit + 1)' /\ ~device'.seen
        BY <1>2, <1>3, <3>1, <4>1, <4>4 DEF Wrote, DeviceGoes, DeviceIs, At
      <4> QED BY <1>2, <4>1, <4>2, <4>5 DEF WritingAt, Silent
    <3> QED BY <3>2, <3>3
  <2>10. CASE step = 4 /\ Wrote(bit + 1) /\ (device.seen => bit = BITS - 1)
    <3>1. IF bit = BITS - 1 THEN At("byte_end") ELSE At("data")
      BY <1>3, <2>1, <2>10
    <3>2. SCL = 1
      BY <2>4, <2>10
    <3>3. CASE bit = BITS - 1
      <4>1. Notices
        BY <2>3, <3>1, <3>2, <3>3, FromPlaces DEF Ends
      <4>2. Wrote(bit + 1)'
        BY <1>2, <2>10, <4>1 DEF Wrote, Notices, DeviceIs, At
      <4> QED BY <1>2, <2>10, <3>3, <4>1, <4>2 DEF WritingAt, Notices, Silent
    <3>4. CASE bit # BITS - 1
      <4>1. ~device.seen
        BY <2>10, <3>4
      <4>2. At("data")
        BY <3>1, <3>4
      <4>3. Notices
        BY <2>3, <4>1, <4>2, FromPlaces DEF Ends
      <4> QED BY <3>2, <4>2, <4>3 DEF Notices, At, Rising
    <3> QED BY <3>3, <3>4
  <2>11. CASE step = 5 /\ Wrote(bit + 1) /\ (device.seen <=> bit = BITS - 1)
    <3>1. IF bit = BITS - 1 THEN At("byte_end") ELSE At("data")
      BY <1>3, <2>1, <2>11
    <3>2. SCL = 1
      BY <2>4, <2>11
    <3>3. CASE bit = BITS - 1
      BY <2>3, <2>11, <3>1, <3>2, <3>3, FromPlaces DEF Ends, Notices
    <3>4. CASE bit # BITS - 1
      <4>1. At("data") /\ ~device.seen
        BY <2>11, <3>1, <3>4
      <4>2. Notices
        BY <2>3, <4>1, FromPlaces DEF Ends
      <4> QED BY <3>2, <4>1, <4>2 DEF Notices, At, Rising
    <3> QED BY <3>3, <3>4
  <2>12. CASE step = 6 /\ Wrote(BITS) /\ device.seen
    <3>1. At("byte_end") /\ device.data = byte
      BY <1>3, <2>1, <2>12, WholeByte DEF Wrote
    <3>2. Stretches("write")
      BY <1>1, <2>3, <2>12, <3>1, FromPlaces DEF Notices
    <3> QED BY <1>2, <2>12, <3>1, <3>2 DEF WritingAt, Stretches, DeviceIs, At
  <2> QED BY <1>5, <2>7, <2>8, <2>9, <2>10, <2>11, <2>12 DEF WritingInv, WritingAt
<1> QED BY <1>4, <1>5

\* A byte is not interrupted.
LEMMA WritingCalls ==
  ASSUME TypeInv, WireInv, WritingInv, Calls
  PROVE  FALSE
<1>1. step = 10
  BY MidCall DEF WritingInv, On
<1> QED BY <1>1 DEF WritingInv, WritingAt

-----------------------------------------------------------------------------
(* The device sends a byte *)

\* A tick: host and device are at the same bit.
LEMMA SendingTick ==
  ASSUME TypeInv, WireInv, On({"write", "read"}), i2c_int_tmr0,
         NEW n \in 0..(BITS - 1), Sending(n)
  PROVE  Sending(n)'
<1>1. Ticks /\ Quiet /\ device' = device
  BY TickDoes DEF deviceVars, Sending, At
<1>2. /\ bit \in 0..(BITS - 1) /\ BITS \in Nat /\ (step \in {0, 1} => bit = 0)
      /\ At("bit_end") /\ device.bit = n /\ At("bit_end")' /\ device'.bit = n
      /\ device.pc \notin Callbacks
  BY <1>1, Facts DEF On, WireInv, CallInv, Sending, At, Callbacks
<1>3. device.seen <=> SCL = 1
  BY <1>1, <1>2 DEF Quiet, At, Falling
<1> USE <1>2
<1>4. CASE step \in {0, 1} /\ n = 0 /\ ~device.seen
  <2>1. CASE step = 0
    <3>1. step' = 1
      BY <1>1, <2>1, TickSteps
    <3> QED BY <1>1, <1>4, <3>1 DEF Sending
  <2>2. CASE step = 1
    <3>1. step' = 2 /\ bit' = n
      BY <1>1, <1>4, <2>2, TickSteps
    <3> QED BY <1>1, <1>4, <3>1 DEF Sending
  <2> QED BY <1>4, <2>1, <2>2
<1>5. CASE step \in {2, 3} /\ n = bit /\ ~device.seen
  <2>1. CASE step = 2
    <3>1. step' = 3 /\ bit' = n
      BY <1>1, <1>5, <2>1, TickSteps
    <3> QED BY <1>1, <1>5, <3>1 DEF Sending
  <2>2. CASE step = 3
    <3>1. step' = 4 /\ bit' = n
      BY <1>1, <1>5, <2>2, TickSteps
    <3> QED BY <1>1, <1>5, <3>1 DEF Sending
  <2> QED BY <1>5, <2>1, <2>2
<1>6. CASE step = 2 /\ n + 1 = bit /\ device.seen
  BY <1>3, <1>6, Clock
<1>7. CASE step = 4 /\ n = bit
  <2>1. step' = 5 /\ bit' = n /\ SCL = 1
    BY <1>1, <1>7, TickSteps
  <2> QED BY <1>1, <1>3, <1>7, <2>1 DEF Sending
<1>8. CASE step = 5 /\ n = bit /\ device.seen
  <2>1. CASE host_sda
    <3>1. step' = 5 /\ bit' = n
      BY <1>1, <1>8, <2>1, TickSteps
    <3> QED BY <1>1, <1>8, <3>1 DEF Sending
  <2>2. CASE ~host_sda /\ bit = BITS - 1
    <3>1. step' = 6
      BY <1>1, <1>8, <2>2, TickSteps
    <3> QED BY <1>1, <1>8, <2>2, <3>1 DEF Sending
  <2>3. CASE ~host_sda /\ bit # BITS - 1
    <3>1. step' = 2 /\ bit' = n + 1
      BY <1>1, <1>8, <2>3, TickSteps
    <3> QED BY <1>1, <1>8, <3>1 DEF Sending
  <2> QED BY <2>1, <2>2, <2>3
<1>9. CASE step = 6 /\ n = BITS - 1 /\ device.seen
  BY <1>3, <1>9, Clock
<1> QED BY <1>4, <1>5, <1>6, <1>7, <1>8, <1>9 DEF Sending

\* The device puts the next bit on the bus when SCL has fallen.
LEMMA SendingDevice ==
  ASSUME TypeInv, WireInv, On({"write", "read"}), i2c_int_gpio, device.ready,
         NEW n \in 0..(BITS - 1), Sending(n)
  PROVE  /\ UNCHANGED <<heard, given>>
         /\ \/ step = 4 /\ Notices /\ Sending(n)'
            \/ /\ step = 2 /\ n + 1 = bit /\ Sending(n + 1)' /\ dev_sda' = Top(device.data)
               /\ DeviceGoes("bit_end", n + 1, Shift(device.data, 0))
            \/ /\ step = 6 /\ n = BITS - 1 /\ dev_sda' = 2
               /\ DeviceGoes("mack", device.bit, device.data)
<1>1. (Moves \/ Answers) /\ step' = step /\ bit' = bit
  BY Following DEF On
<1>2. /\ bit \in 0..(BITS - 1) /\ BITS \in Nat
      /\ At("bit_end") /\ device.bit = n /\ device.pc \notin Callbacks
      /\ step \in {0, 1} => On({"write"})
  BY Facts DEF On, WireInv, CallInv, Sending, At, Callbacks
<1>3. Moves
  BY <1>1, <1>2 DEF Answers, At
<1>4. UNCHANGED <<heard, given>>
  BY <1>2, <1>3, FromPlaces DEF Notices, Silent
<1>5. /\ step \in {0, 1, 2, 3, 6} => SCL = 0
      /\ step \in {4, 5} => SCL = 1
      /\ step \in {0, 1, 2, 3, 4, 5, 6}
  BY <1>2, Clock DEF Sending
<1>6. CASE Notices
  <2>1. SCL = 1 /\ ~device.seen
    BY <1>2, <1>6 DEF Notices, At, Falling
  <2>2. step = 4 /\ n = bit
    BY <1>5, <2>1 DEF Sending
  <2>3. Sending(n)'
    BY <1>1, <1>2, <1>6, <2>2 DEF Sending, Notices, DeviceIs, At
  <2> QED BY <1>4, <1>6, <2>2, <2>3
<1>7. CASE ~Notices
  <2>1. device.seen /\ SCL = 0
    BY <1>2, <1>3, <1>7, FromPlaces DEF Ends
  <2>2. (step = 2 /\ n + 1 = bit) \/ (step = 6 /\ n = BITS - 1)
    BY <1>5, <2>1 DEF Sending
  <2>3. CASE step = 2 /\ n + 1 = bit
    <3>1. dev_sda' = Bit(device.data) /\ DeviceGoes("bit_end", n + 1, Shift(device.data, 0))
      BY <1>2, <1>3, <1>7, <2>3, FromPlaces
    <3>2. Sending(n + 1)'
      BY <1>1, <1>2, <2>3, <3>1 DEF Sending, DeviceGoes, DeviceIs, At
    <3> QED BY <1>4, <2>3, <3>1, <3>2 DEF Bit
  <2>4. CASE step = 6 /\ n = BITS - 1
    BY <1>2, <1>3, <1>4, <1>7, <2>4, FromPlaces
  <2> QED BY <2>2, <2>3, <2>4
<1> QED BY <1>6, <1>7

-----------------------------------------------------------------------------
(* Both write *)

\* A tick, as the host does not notice.
LEMMA CrossedTick ==
  ASSUME TypeInv, WireInv, CrossedInv, i2c_int_tmr0
  PROVE  CrossedInv'
<1>1. /\ Ticks /\ Quiet /\ call' = call /\ count' = count /\ heard' = heard
      /\ dev_sda' = dev_sda /\ device' = device
  <2>1. ~At("first_low")
    BY DEF CrossedInv, CrossedAt, Sending, At
  <2> QED BY <2>1, TickDoes DEF deviceVars
<1>2. SUFFICES CrossedAt'
  BY <1>1 DEF CrossedInv, On
<1>3. CASE \E n \in 0..(BITS - 1) : Sending(n)
  <2>1. PICK n \in 0..(BITS - 1) : Sending(n)
    BY <1>3
  <2>2. On({"write", "read"})
    BY DEF CrossedInv, On
  <2>3. Sending(n)'
    BY <2>1, <2>2, SendingTick
  <2> QED BY <2>3 DEF CrossedAt
<1>4. CASE step \in 6..8 /\ At("mack") /\ dev_sda = 2 /\ (step > 6 => device.seen)
  <2>1. device.seen <=> SCL = 0
    BY <1>1, <1>4 DEF Quiet, At, Rising
  <2>2. step \in {6, 7, 8} /\ device.pc \notin Callbacks
    BY <1>4 DEF At, Callbacks
  <2>3. step # 8
    BY <1>4, <2>1, <2>2, Clock
  <2>4. device.seen
    BY <2>1, <2>2, <2>3, Clock
  <2>5. step' \in {7, 8}
    <3>1. CASE step = 6
      BY <1>1, <3>1, TickSteps
    <3>2. CASE step = 7
      BY <1>1, <3>2, TickSteps
    <3> QED BY <2>2, <2>3, <3>1, <3>2
  <2> QED BY <1>1, <1>4, <2>4, <2>5 DEF CrossedAt, At
<1> QED BY <1>3, <1>4 DEF CrossedInv, CrossedAt

\* The device takes the host's silence after a byte for a NACK.
LEMMA CrossedDevice ==
  ASSUME TypeInv, WireInv, CrossedInv, i2c_int_gpio
  PROVE  CrossedInv' \/ LostInv'
<1>1. /\ On({"write"}) /\ On({"write", "read"}) /\ ~count.read /\ heard = <<>> /\ GoesOn
      /\ device.ready /\ device.read
  BY DEF CrossedInv, On
<1>2. /\ Moves \/ Answers
      /\ call' = call /\ count' = count
      /\ step' = step /\ bit' = bit /\ (\A names : On(names)' <=> On(names))
  BY <1>1, Following DEF On
<1>3. CASE \E n \in 0..(BITS - 1) : Sending(n)
  <2>1. PICK n \in 0..(BITS - 1) : Sending(n)
    BY <1>3
  <2>2. /\ heard' = heard
        /\ \/ step = 4 /\ Notices /\ Sending(n)'
           \/ /\ step = 2 /\ n + 1 = bit /\ Sending(n + 1)'
              /\ DeviceGoes("bit_end", n + 1, Shift(device.data, 0))
           \/ step = 6 /\ dev_sda' = 2 /\ DeviceGoes("mack", device.bit, device.data)
    BY <1>1, <2>1, SendingDevice
  <2>3. device'.ready /\ device'.read
    BY <1>1, <2>2 DEF Notices, DeviceGoes, DeviceIs
  <2>4. CrossedAt'
    <3>1. CASE Sending(n)'
      BY <3>1 DEF CrossedAt
    <3>2. CASE step = 2 /\ n + 1 = bit /\ Sending(n + 1)'
      <4>1. n + 1 \in 0..(BITS - 1)
        BY <3>2, Facts
      <4> QED BY <3>2, <4>1 DEF CrossedAt
    <3>3. CASE step = 6 /\ dev_sda' = 2 /\ DeviceGoes("mack", device.bit, device.data)
      BY <1>2, <3>3 DEF CrossedAt, DeviceGoes, DeviceIs, At
    <3> QED BY <2>2, <3>1, <3>2, <3>3
  <2> QED BY <1>1, <1>2, <2>2, <2>3, <2>4 DEF CrossedInv
<1>4. CASE step \in 6..8 /\ At("mack") /\ dev_sda = 2 /\ (step > 6 => device.seen)
  <2>1. Moves
    BY <1>2, <1>4 DEF Answers, At
  <2>2. /\ step \in {6, 7, 8}
        /\ step \in {6, 7} => SCL = 0
        /\ step = 8 => SCL = 1
    BY <1>4, Clock DEF At, Callbacks
  <2>3. CASE Notices
    <3>1. CrossedAt'
      <4>1. step = 6
        BY <1>4, <2>2, <2>3 DEF Notices
      <4> QED BY <1>2, <1>4, <2>3, <4>1 DEF CrossedAt, Notices, Silent, DeviceIs, At
    <3> QED BY <1>1, <1>2, <2>3, <3>1 DEF CrossedInv, Notices, Silent, DeviceIs
  <2>4. CASE ~Notices
    <3>1. /\ SCL = 1 /\ Silent
          /\ DeviceGoes(IF SDA = 1 THEN "stop_clock" ELSE "mack_end", device.bit, device.data)
      BY <1>4, <2>1, <2>4, FromPlaces DEF Ends
    <3>2. step = 8
      BY <2>2, <3>1
    <3>3. SDA = 1
      BY <1>1, <1>4, <3>2 DEF WireInv, DataInv, CallInv, SDA, On
    <3>4. /\ device'.pc = "stop_clock" /\ dev_sda' = 2 /\ heard' = <<>>
          /\ step' = 8 /\ On({"write"})' /\ ~count'.read
      BY <1>1, <1>2, <1>4, <3>1, <3>2, <3>3 DEF DeviceGoes, DeviceIs, Silent
    <3> QED BY <1>1, <3>4 DEF LostInv, LostCall, LostPlace, Refused, Waiting, Misled,
                       Apart, Astray, At, On
  <2> QED BY <2>3, <2>4
<1> QED BY <1>3, <1>4 DEF CrossedInv, CrossedAt

\* A byte is not interrupted.
LEMMA CrossedCalls ==
  ASSUME TypeInv, WireInv, CrossedInv, Calls
  PROVE  FALSE
<1>1. step = 10
  BY MidCall DEF CrossedInv, On
<1> QED BY <1>1 DEF CrossedInv, CrossedAt, Sending

-----------------------------------------------------------------------------
(* A byte is read *)

\* A tick: what the host has read are the bits that the device has driven.
LEMMA ReadingTick ==
  ASSUME TypeInv, WireInv, ReadingInv, i2c_int_tmr0
  PROVE  ReadingInv'
<1>1. /\ Ticks /\ Quiet /\ call' = call /\ count' = count /\ heard' = heard
      /\ given' = given /\ dev_sda' = dev_sda /\ device' = device
  <2>1. ~At("first_low")
    BY DEF ReadingInv, ReadingAt, Sending, Drives, At
  <2> QED BY <2>1, TickDoes DEF deviceVars
<1>2. /\ On({"read"}) /\ On({"write", "read"}) /\ host_state.read
      /\ step \in 2..10 /\ bit \in 0..(BITS - 1) /\ BITS \in Nat
  BY Facts DEF ReadingInv, On, WireInv, CallInv
<1>3. /\ \A x, n : Drives(x, n)' <=> Drives(x, n)
      /\ \A pc : At(pc)' <=> At(pc)
  BY <1>1 DEF Drives, At
<1>4. /\ step # 4 => host_data' = host_data
      /\ step = 4 => host_data' = Shift(host_data, SDA)
  <2>1. CASE step = 4
    BY <1>1, <1>2, <2>1 DEF Ticks
  <2>2. CASE step # 4
    BY <1>1, <1>2, <2>2 DEF Ticks
  <2> QED BY <2>1, <2>2
<1>5. SUFFICES \/ /\ step' \in 2..4 /\ bit' = 0 /\ At("read")' /\ given' = <<>>
                  /\ host_data' = 0
               \/ \E x \in Byte : GotSoFar(x)' /\ ReadingAt(x)'
  BY <1>1 DEF ReadingInv, On
<1>6. CASE step \in 2..4 /\ bit = 0 /\ At("read") /\ given = <<>> /\ host_data = 0
  <2>1. step \in {2, 3, 4} /\ SCL = 0
    BY <1>6, Clock DEF At, Callbacks
  <2>2. step' \in {3, 4} /\ bit' = bit /\ step # 4
    <3>1. CASE step = 2
      BY <1>1, <3>1, TickSteps
    <3>2. CASE step = 3
      BY <1>1, <3>2, TickSteps
    <3>3. CASE step = 4
      BY <1>1, <2>1, <3>3, TickSteps
    <3> QED BY <2>1, <3>1, <3>2, <3>3
  <2> QED BY <1>1, <1>3, <1>4, <1>6, <2>2
<1>7. CASE \E x \in Byte : GotSoFar(x) /\ ReadingAt(x)
  <2>1. PICK x \in Byte : GotSoFar(x) /\ ReadingAt(x)
    BY <1>7
  <2>2. GotSoFar(x)' /\ ReadingAt(x)'
    <3>1. CASE given = <<x>> /\ \E n \in 0..(BITS - 1) : Sending(n) /\ Drives(x, n)
      <4>1. PICK n \in 0..(BITS - 1) : Sending(n) /\ Drives(x, n)
        BY <3>1
      <4>2. Sending(n)' /\ Drives(x, n)'
        BY <1>2, <1>3, <4>1, SendingTick
      <4>3. ReadingAt(x)'
        BY <1>1, <3>1, <4>2 DEF ReadingAt
      <4>4. step \in {2, 3, 4, 5, 6}
        BY <1>2, <4>1 DEF Sending
      <4>5. GotSoFar(x)'
        <5>1. CASE step \in {2, 3}
          <6>1. step' \in {3, 4} /\ bit' = bit
            <7>1. CASE step = 2
              BY <1>1, <7>1, TickSteps
            <7>2. CASE step = 3
              BY <1>1, <7>2, TickSteps
            <7> QED BY <5>1, <7>1, <7>2
          <6> QED BY <1>4, <2>1, <5>1, <6>1 DEF GotSoFar, Got
        <5>2. CASE step = 4
          <6>1. step' = 5 /\ bit' = bit
            BY <1>1, <5>2, TickSteps
          <6>2. n = bit
            BY <4>1, <5>2 DEF Sending
          <6>3. SDA = BitOf(x, bit)
            <7>1. dev_sda = BitOf(x, bit)
              BY <4>1, <6>2 DEF Drives
            <7>2. BitOf(x, bit) \in {0, 1}
              BY <1>2, Shifts
            <7>3. ~host_sda
              BY <1>2, <5>2 DEF WireInv, DataInv
            <7> QED BY <7>1, <7>2, <7>3 DEF SDA
          <6>4. host_data = Bits(x, bit)
            BY <2>1, <5>2 DEF GotSoFar, Got
          <6>5. host_data' = Bits(x, bit + 1)
            BY <1>2, <1>4, <5>2, <6>3, <6>4, Shifts
          <6> QED BY <6>1, <6>5 DEF GotSoFar, Got
        <5>3. CASE step = 5
          <6>1. host_data' = Bits(x, bit + 1)
            BY <1>4, <2>1, <5>3 DEF GotSoFar, Got
          <6>4. ~host_sda
            BY <1>2, <5>3 DEF WireInv, DataInv
          <6>2. CASE bit = BITS - 1
            <7>1. step' = 6 /\ bit + 1 = BITS
              BY <1>1, <1>2, <5>3, <6>2, <6>4, TickSteps
            <7> QED BY <6>1, <7>1 DEF GotSoFar, Got
          <6>3. CASE bit # BITS - 1
            <7>1. step' = 2 /\ bit' = bit + 1
              BY <1>1, <5>3, <6>3, <6>4, TickSteps
            <7> QED BY <6>1, <7>1 DEF GotSoFar, Got
          <6> QED BY <6>2, <6>3
        <5>4. CASE step = 6
          <6>1. step' = 7
            BY <1>1, <5>4, TickSteps
          <6> QED BY <1>4, <2>1, <5>4, <6>1 DEF GotSoFar, Got
        <5> QED BY <4>4, <5>1, <5>2, <5>3, <5>4
      <4> QED BY <4>3, <4>5
    <3>2. CASE ~(given = <<x>> /\ \E n \in 0..(BITS - 1) : Sending(n) /\ Drives(x, n))
      <4>1. \A y, n : Drives(y, n) => At("bit_end")
        BY DEF Drives
      <4>2. step \in {6, 7, 8, 9, 10}
        BY <2>1, <3>2 DEF ReadingAt
      <4>3. GotSoFar(x)' /\ (step = 6 => step' = 7) /\ (step = 7 => step' = 8)
            /\ (step = 8 => step' = 9) /\ (step \in {9, 10} => step' = 10)
        <5>1. /\ step = 6 => step' = 7
              /\ step = 7 => step' = 8
              /\ step = 8 => step' = 9
              /\ step \in {9, 10} => step' = 10
          BY <1>1, TickSteps
        <5>2. step' \in {7, 8, 9, 10} /\ host_data' = host_data
          BY <1>4, <4>2, <5>1
        <5> QED BY <2>1, <4>2, <5>1, <5>2 DEF GotSoFar, Got
      <4>4. ReadingAt(x)'
        <5>1. CASE /\ given = <<x>> /\ dev_sda = 2
                   /\ step \in 6..8 /\ At("mack") /\ (step > 6 => device.seen)
          <6>1. device.seen <=> SCL = 0
            BY <1>1, <5>1 DEF Quiet, At, Rising
          <6>2. step # 8
            BY <5>1, <6>1, Clock DEF At, Callbacks
          <6>3. device.seen /\ step' \in {7, 8}
            BY <4>2, <4>3, <5>1, <6>1, <6>2, Clock
          <6> QED BY <1>1, <1>3, <5>1, <6>3 DEF ReadingAt
        <5>2. CASE /\ given = <<x>> /\ dev_sda = 2
                   /\ step \in 8..10 /\ At("mack_end") /\ (step > 8 => device.seen)
          <6>1. device.seen <=> SCL = 1
            BY <1>1, <5>2 DEF Quiet, At, Falling
          <6>2. step # 10
            BY <5>2, <6>1, Clock
          <6>3. device.seen /\ step' \in {9, 10}
            BY <4>2, <4>3, <5>2, <6>1, <6>2, Clock DEF At, Callbacks
          <6> QED BY <1>1, <1>3, <5>2, <6>3 DEF ReadingAt
        <5>3. CASE given = <<x>> /\ dev_sda = 2 /\ step = 10 /\ At("read")
          BY <1>1, <1>3, <4>3, <5>3 DEF ReadingAt
        <5>4. CASE /\ step = 10 /\ ~device.seen
                   /\ \E y \in Byte : given = <<x, y>> /\ Drives(y, 0)
          BY <1>1, <1>3, <4>3, <5>4 DEF ReadingAt
        <5> QED BY <2>1, <3>2, <5>1, <5>2, <5>3, <5>4 DEF ReadingAt
      <4> QED BY <4>3, <4>4
    <3> QED BY <3>1, <3>2
  <2> QED BY <2>2
<1> QED BY <1>6, <1>7 DEF ReadingInv

\* The device drives a byte from its first bit.
LEMMA DrivesFirst ==
  ASSUME NEW x \in Byte, dev_sda' = Top(x), DeviceGoes("bit_end", 0, Shift(x, 0))
  PROVE  Drives(x, 0)' /\ At("bit_end")' /\ ~device'.seen /\ device'.bit = 0
<1>1. dev_sda' = BitOf(x, 0) /\ device'.data = Rest(x, 0 + 1)
  BY FirstBit DEF DeviceGoes, DeviceIs
<1> QED BY <1>1 DEF Drives, DeviceGoes, DeviceIs, At

\* And goes on with it.
LEMMA DrivesNext ==
  ASSUME NEW x \in Byte, NEW n \in 0..(BITS - 1), n + 1 \in 0..(BITS - 1), Drives(x, n),
         dev_sda' = Top(device.data), DeviceGoes("bit_end", n + 1, Shift(device.data, 0))
  PROVE  Drives(x, n + 1)'
<1>1. device.data = Rest(x, n + 1)
  BY DEF Drives
<1>2. PICK m \in 0..(BITS - 1) : m = n + 1
  OBVIOUS
<1>3. Top(Rest(x, m)) = BitOf(x, m) /\ Shift(Rest(x, m), 0) = Rest(x, m + 1)
  BY Shifts
<1>4. Drives(x, m)'
  BY <1>1, <1>2, <1>3 DEF Drives, DeviceGoes, DeviceIs, At
<1> QED BY <1>2, <1>4

\* The device follows, calls read when it is told to go on, and drives what it
\* has got.
LEMMA ReadingDevice ==
  ASSUME TypeInv, WireInv, ReadingInv, i2c_int_gpio
  PROVE  ReadingInv'
<1>1. /\ On({"read"}) /\ On({"write", "read"}) /\ host_state.read
      /\ step \in 2..10 /\ bit \in 0..(BITS - 1) /\ BITS \in Nat
      /\ count.read /\ device.ready /\ device.read
  BY Facts DEF ReadingInv, On, WireInv, CallInv
<1>2. /\ Moves \/ Answers
      /\ call' = call /\ count' = count /\ host_data' = host_data
      /\ step' = step /\ bit' = bit /\ (\A names : On(names)' <=> On(names))
  BY <1>1, Following DEF On
<1>3. \A x : GotSoFar(x)' <=> GotSoFar(x)
  BY <1>2 DEF GotSoFar, Got
<1>4. ASSUME device'.ready, device'.read,
             \E x \in Byte : GotSoFar(x)' /\ ReadingAt(x)'
      PROVE  ReadingInv'
  BY <1>1, <1>2, <1>4 DEF ReadingInv
<1>5. CASE step \in 2..4 /\ bit = 0 /\ At("read") /\ given = <<>> /\ host_data = 0
  <2>1. Answers
    BY <1>2, <1>5, FromPlaces DEF At, Callbacks
  <2>2. PICK x \in Byte :
          given' = Append(given, x) /\ dev_sda' = Top(x) /\ DeviceGoes("bit_end", 0, Shift(x, 0))
    BY <1>5, <2>1 DEF Answers, At
  <2>3. given' = <<x>>
    BY <1>5, <2>2
  <2>4. Drives(x, 0)' /\ At("bit_end")' /\ ~device'.seen /\ device'.bit = 0
    BY <2>2, DrivesFirst
  <2>5. Sending(0)' /\ 0 \in 0..(BITS - 1)
    <3>1. step' \in {2, 3, 4} /\ bit' = 0
      BY <1>2, <1>5
    <3> QED BY <1>1, <1>5, <2>4, <3>1 DEF Sending
  <2>6. GotSoFar(x)'
    <3>1. step' < 5 /\ bit' = 0 /\ host_data' = 0
      BY <1>2, <1>5
    <3> QED BY <3>1, WholeByte DEF GotSoFar, Got
  <2>7. ReadingAt(x)'
    BY <2>3, <2>4, <2>5 DEF ReadingAt
  <2>8. device'.ready /\ device'.read
    BY <1>1, <2>2 DEF DeviceGoes, DeviceIs
  <2> QED BY <1>4, <2>6, <2>7, <2>8
<1>6. CASE \E x \in Byte : GotSoFar(x) /\ ReadingAt(x)
  <2>1. PICK x \in Byte : GotSoFar(x) /\ ReadingAt(x)
    BY <1>6
  <2>2. SUFFICES ReadingAt(x)' /\ device'.ready /\ device'.read
    BY <1>3, <1>4, <2>1
  <2>3. CASE given = <<x>> /\ \E n \in 0..(BITS - 1) : Sending(n) /\ Drives(x, n)
    <3>1. PICK n \in 0..(BITS - 1) : Sending(n) /\ Drives(x, n)
      BY <2>3
    <3>2. /\ given' = <<x>>
          /\ \/ step = 4 /\ Notices /\ Sending(n)'
             \/ /\ step = 2 /\ n + 1 = bit /\ Sending(n + 1)' /\ dev_sda' = Top(device.data)
                /\ DeviceGoes("bit_end", n + 1, Shift(device.data, 0))
             \/ step = 6 /\ dev_sda' = 2 /\ DeviceGoes("mack", device.bit, device.data)
      BY <1>1, <2>3, <3>1, SendingDevice
    <3>3. device'.ready /\ device'.read
      BY <1>1, <3>2 DEF Notices, DeviceGoes, DeviceIs
    <3>4. CASE step = 4 /\ Notices /\ Sending(n)'
      <4>1. Drives(x, n)'
        BY <3>1, <3>4 DEF Drives, Notices, Silent, DeviceIs, At
      <4> QED BY <3>2, <3>3, <3>4, <4>1 DEF ReadingAt
    <3>5. CASE /\ step = 2 /\ n + 1 = bit /\ Sending(n + 1)' /\ dev_sda' = Top(device.data)
               /\ DeviceGoes("bit_end", n + 1, Shift(device.data, 0))
      <4>1. n + 1 \in 0..(BITS - 1)
        BY <1>1, <3>5
      <4>2. Drives(x, n + 1)'
        BY <3>1, <3>5, <4>1, DrivesNext
      <4> QED BY <3>2, <3>3, <3>5, <4>1, <4>2 DEF ReadingAt
    <3>6. CASE step = 6 /\ dev_sda' = 2 /\ DeviceGoes("mack", device.bit, device.data)
      BY <1>2, <3>2, <3>3, <3>6 DEF ReadingAt, DeviceGoes, DeviceIs, At
    <3> QED BY <3>2, <3>4, <3>5, <3>6
  <2>4. CASE /\ given = <<x>> /\ dev_sda = 2
             /\ step \in 6..8 /\ At("mack") /\ (step > 6 => device.seen)
    <3>1. Moves
      BY <1>2, <2>4 DEF Answers, At
    <3>2. /\ step \in {6, 7, 8}
          /\ step \in {6, 7} => SCL = 0
      BY <2>4, Clock
    <3>3. CASE Notices
      <4>1. step = 6
        BY <2>4, <3>2, <3>3 DEF Notices
      <4> QED BY <1>1, <1>2, <2>4, <3>3, <4>1 DEF ReadingAt, Notices, Silent, DeviceIs, At
    <3>4. CASE ~Notices
      <4>1. /\ SCL = 1 /\ Silent
            /\ DeviceGoes(IF SDA = 1 THEN "stop_clock" ELSE "mack_end", device.bit, device.data)
        BY <2>4, <3>1, <3>4, FromPlaces DEF Ends
      <4>2. step = 8
        BY <3>2, <4>1
      <4>3. SDA = 0
        BY <1>1, <4>2 DEF WireInv, DataInv, SDA
      <4> QED BY <1>1, <1>2, <2>4, <4>1, <4>2, <4>3
              DEF ReadingAt, DeviceGoes, Silent, DeviceIs, At
    <3> QED BY <3>3, <3>4
  <2>5. CASE /\ given = <<x>> /\ dev_sda = 2
             /\ step \in 8..10 /\ At("mack_end") /\ (step > 8 => device.seen)
    <3>1. Moves
      BY <1>2, <2>5 DEF Answers, At
    <3>2. /\ step \in {8, 9, 10}
          /\ step \in {8, 9} => SCL = 1
          /\ step = 10 => SCL = 0
      BY <2>5, Clock DEF At, Callbacks
    <3>3. CASE Notices
      <4>1. step = 8
        BY <2>5, <3>2, <3>3 DEF Notices, At, Falling
      <4> QED BY <1>1, <1>2, <2>5, <3>3, <4>1 DEF ReadingAt, Notices, Silent, DeviceIs, At
    <3>4. CASE ~Notices
      <4>1. SCL = 0 /\ Stretches("read")
        BY <1>1, <2>5, <3>1, <3>4, FromPlaces DEF Ends
      <4>2. step = 10
        BY <3>2, <4>1
      <4> QED BY <1>1, <1>2, <2>5, <4>1, <4>2 DEF ReadingAt, Stretches, DeviceIs, At
    <3> QED BY <3>3, <3>4
  <2>6. CASE given = <<x>> /\ dev_sda = 2 /\ step = 10 /\ At("read")
    <3>1. Answers
      BY <1>2, <2>6, FromPlaces DEF At, Callbacks
    <3>2. PICK y \in Byte :
            /\ given' = Append(given, y) /\ dev_sda' = Top(y)
            /\ DeviceGoes("bit_end", 0, Shift(y, 0))
      BY <2>6, <3>1 DEF Answers, At
    <3>3. given' = <<x, y>>
      <4>1. Append(<<x>>, y) = <<x, y>>
        <5>1. /\ Append(<<x>>, y) \in Seq(Byte) /\ <<x, y>> \in Seq(Byte) /\ <<x>> \in Seq(Byte)
              /\ Len(<<x>>) = 1 /\ Len(<<x, y>>) = 2
          OBVIOUS
        <5>2. Len(Append(<<x>>, y)) = 2 /\ Append(<<x>>, y)[1] = x /\ Append(<<x>>, y)[2] = y
          BY <5>1, AppendProperties
        <5>3. /\ \A i \in 1..2 : i = 1 \/ i = 2
              /\ <<x, y>>[1] = x /\ <<x, y>>[2] = y
          OBVIOUS
        <5>4. \A i \in 1..2 : Append(<<x>>, y)[i] = <<x, y>>[i]
          BY <5>2, <5>3
        <5> QED BY <5>1, <5>2, <5>4, SeqEqual
      <4> QED BY <2>6, <3>2, <4>1
    <3>4. Drives(y, 0)' /\ ~device'.seen
      BY <3>2, DrivesFirst
    <3> QED BY <1>1, <1>2, <2>6, <3>2, <3>3, <3>4 DEF ReadingAt, DeviceGoes, DeviceIs
  <2>7. CASE /\ step = 10 /\ ~device.seen
             /\ \E y \in Byte : given = <<x, y>> /\ Drives(y, 0)
    <3>1. At("bit_end") /\ SCL = 0
      BY <2>7, Clock DEF Drives
    <3>2. Moves
      BY <1>2, <3>1 DEF Answers, At
    <3>3. Notices
      BY <2>7, <3>1, <3>2, FromPlaces DEF Ends
    <3> QED BY <3>1, <3>3 DEF Notices, At, Falling
  <2> QED BY <2>1, <2>3, <2>4, <2>5, <2>6, <2>7 DEF ReadingAt
<1> QED BY <1>5, <1>6 DEF ReadingInv

\* i2c_read returns: what it has read is what the device has given.
LEMMA ReadingCalls ==
  ASSUME TypeInv, WireInv, ReadingInv, Calls
  PROVE  BetweenInv' /\ Len(given) > 0 /\ host_data = Head(given)
<1>1. On({"begin", "write", "read"}) /\ On({"read"})
  BY DEF ReadingInv, On
<1>2. DoesReturn /\ step = 10 /\ SCL = 0 /\ Quiet
  BY <1>1, MidCall
<1>3. /\ step' = step /\ device' = device /\ dev_sda' = dev_sda
      /\ On({"none"})' /\ given' = Tail(given) /\ count'.read
  BY <1>1, <1>2 DEF ReadingInv, DoesReturn, CallIs, On, step, CountIs
<1>4. PICK x \in Byte : GotSoFar(x) /\ ReadingAt(x)
  BY <1>2 DEF ReadingInv
<1>5. host_data = x
  BY <1>2, <1>4, WholeByte DEF GotSoFar, Got
<1>6. ~At("mack_end")
  <2>1. device.pc = "mack_end" => (device.seen <=> SCL = 1)
    BY <1>2 DEF Quiet, Falling
  <2>2. At("mack_end") => device.seen
    BY <1>2, <1>4 DEF ReadingAt, At, Drives
  <2> QED BY <1>2, <2>1, <2>2 DEF At
<1>7. \/ given = <<x>> /\ At("read")
      \/ ~device.seen /\ \E y \in Byte : given = <<x, y>> /\ Drives(y, 0)
  BY <1>2, <1>4, <1>6 DEF ReadingAt, Sending
<1>8. Len(given) > 0 /\ Head(given) = x
  BY <1>7
<1>9. /\ \A pc : At(pc)' <=> At(pc)
      /\ \A y, n : Drives(y, n)' <=> Drives(y, n)
  BY <1>3 DEF At, Drives
<1>10. device'.ready /\ device'.read
  BY <1>3 DEF ReadingInv
<1>11. CASE given = <<x>> /\ At("read")
  <2>1. given' = <<>>
    BY <1>3, <1>11
  <2> QED BY <1>2, <1>3, <1>5, <1>8, <1>9, <1>10, <1>11, <2>1 DEF BetweenInv
<1>12. CASE ~device.seen /\ \E y \in Byte : given = <<x, y>> /\ Drives(y, 0)
  <2>1. PICK y \in Byte : given = <<x, y>> /\ Drives(y, 0)
    BY <1>12
  <2>2. given' = <<y>>
    BY <1>3, <2>1
  <2> QED BY <1>2, <1>3, <1>5, <1>8, <1>9, <1>10, <1>12, <2>1, <2>2 DEF BetweenInv
<1> QED BY <1>7, <1>11, <1>12

-----------------------------------------------------------------------------
(* Between two calls, and when all is over *)

\* No time passes.
LEMMA NoTicks ==
  ASSUME TypeInv, WireInv, On({"none"}), i2c_int_tmr0
  PROVE  FALSE
BY TickDoes DEF WireInv, CallInv

\* The device asks for the next byte to send, at most.
LEMMA BetweenDevice ==
  ASSUME TypeInv, WireInv, BetweenInv, ~Pauses, i2c_int_gpio
  PROVE  BetweenInv'
<1>1. /\ On({"none"}) /\ step = 10 /\ device.ready /\ SCL = 0
  BY Clock DEF BetweenInv
<1>2. /\ Moves \/ Answers
      /\ call' = call /\ count' = count /\ step' = step
  <2>1. ~GivesUp
    <3>1. step # 0
      BY <1>1
    <3>2. ~(Pauses \/ step = 0)
      BY <3>1
    <3> QED BY <3>2 DEF GivesUp
  <2> QED BY <2>1, DeviceDoes DEF i2c_int_gpio, hostVars, step
<1>3. CASE ~device.read /\ ~count.read /\ At("first") /\ device.seen /\ dev_sda = 2
  <2>1. Moves
    BY <1>2, <1>3 DEF Answers, At
  <2> QED BY <1>1, <1>3, <2>1, FromPlaces DEF Notices, Ends
<1>4. CASE count.read /\ device.read /\ At("read") /\ given = <<>>
  <2>1. Answers
    BY <1>2, <1>4, FromPlaces DEF At, Callbacks
  <2>2. PICK x \in Byte :
          given' = Append(given, x) /\ dev_sda' = Top(x) /\ DeviceGoes("bit_end", 0, Shift(x, 0))
    BY <1>4, <2>1 DEF Answers, At
  <2>3. given' = <<x>>
    BY <1>4, <2>2
  <2>4. Drives(x, 0)' /\ ~device'.seen
    BY <2>2, DrivesFirst
  <2>5. device'.ready /\ device'.read
    BY <1>1, <1>4, <2>2 DEF DeviceGoes, DeviceIs
  <2> QED BY <1>1, <1>2, <1>4, <2>3, <2>4, <2>5 DEF BetweenInv, On
<1>5. CASE ~device.seen /\ \E x \in Byte : given = <<x>> /\ Drives(x, 0)
  <2>1. At("bit_end")
    BY <1>5 DEF Drives
  <2>2. Moves
    BY <1>2, <2>1 DEF Answers, At
  <2> QED BY <1>1, <1>5, <2>1, <2>2, FromPlaces DEF Notices, Ends, At, Falling
<1> QED BY <1>3, <1>4, <1>5 DEF BetweenInv

\* The next call begins where the device is.
LEMMA BetweenCalls ==
  ASSUME TypeInv, WireInv, BetweenInv, ~Pauses, Calls
  PROVE  WritingInv' \/ CrossedInv' \/ ReadingInv' \/ OverInv'
<1>1. On({"none"}) /\ step = 10 /\ device.ready /\ 0 \in 0..(BITS - 1)
  BY I2cAssumption DEF BetweenInv
<1>2. DoesWrite \/ DoesRead \/ DoesEnd
  <2>1. Main
    BY CallsDo
  <2>2. ~On({"restart"}) /\ ~On({"begin", "write", "read"}) /\ ~On({"end"})
    BY <1>1 DEF On
  <2>3. ~DoesRestart
    BY <1>1 DEF DoesRestart
  <2>4. ~DoesBegin
    BY <1>1 DEF DoesBegin
  <2> QED BY <2>1, <2>2, <2>3, <2>4 DEF Main, DoesBeginAgain, DoesReturn, DoesFinish
<1>3. \A x, n : Drives(x, n) => At("bit_end") /\ device.bit = n
  BY DEF Drives
<1>4. CASE DoesWrite
  <2>1. /\ On({"write"})' /\ step' = 0 /\ bit' = 0 /\ heard' = <<>>
        /\ device' = device /\ dev_sda' = dev_sda /\ ~count.read /\ ~count'.read
    BY <1>4 DEF DoesWrite, Begins, CallIs, HostIs, Hears, CountIs, On, step, bit
  <2>2. CASE ~device.read /\ ~count.read /\ At("first") /\ device.seen /\ dev_sda = 2
    BY <1>1, <2>1, <2>2 DEF WritingInv, WritingAt, At
  <2>3. CASE /\ device.read /\ ~device.seen /\ (count.read \/ GoesOn)
             /\ \E x \in Byte : given = <<x>> /\ Drives(x, 0)
    <3>1. At("bit_end") /\ device.bit = 0
      BY <1>3, <2>3
    <3>2. Sending(0)'
      BY <1>1, <2>1, <2>3, <3>1 DEF Sending, At
    <3> QED BY <1>1, <2>1, <2>3, <3>2 DEF CrossedInv, CrossedAt
  <2> QED BY <2>1, <2>2, <2>3 DEF BetweenInv
<1>5. CASE DoesRead
  <2>1. /\ On({"read"})' /\ step' = 2 /\ bit' = 0 /\ given' = given /\ host_data' = 0
        /\ device' = device /\ dev_sda' = dev_sda /\ count.read /\ count'.read
    BY <1>5 DEF DoesRead, Begins, CallIs, HostIs, CountIs, On, step, bit, deviceVars
  <2>2. CASE count.read /\ device.read /\ At("read") /\ given = <<>>
    BY <1>1, <2>1, <2>2 DEF ReadingInv, At
  <2>3. CASE /\ device.read /\ ~device.seen /\ (count.read \/ GoesOn)
             /\ \E x \in Byte : given = <<x>> /\ Drives(x, 0)
    <3>1. PICK x \in Byte : given = <<x>> /\ Drives(x, 0)
      BY <2>3
    <3>2. At("bit_end") /\ device.bit = 0
      BY <3>1 DEF Drives
    <3>3. Sending(0)'
      BY <1>1, <2>1, <2>3, <3>2 DEF Sending, At
    <3>4. Drives(x, 0)'
      BY <2>1, <3>1 DEF Drives, At
    <3>5. ReadingAt(x)'
      BY <1>1, <2>1, <3>1, <3>3, <3>4 DEF ReadingAt
    <3>6. GotSoFar(x)'
      BY <2>1, WholeByte DEF GotSoFar, Got
    <3> QED BY <1>1, <2>1, <2>3, <3>5, <3>6 DEF ReadingInv
  <2> QED BY <2>1, <2>2, <2>3 DEF BetweenInv
<1>6. CASE DoesEnd
  BY <1>6 DEF DoesEnd, CallIs, OverInv, On
<1> QED BY <1>2, <1>4, <1>5, <1>6

\* Behind a STOP condition the host makes no change of the bus of its own.
LEMMA OverTick ==
  ASSUME TypeInv, WireInv, OverInv, i2c_int_tmr0
  PROVE  OverInv'
<1>1. call' = call
  BY TickDoes
<1>2. ~On({"none"})
  BY NoTicks
<1> QED BY <1>1, <1>2 DEF OverInv, On

\* What the device does is of no interest.
LEMMA OverDevice ==
  ASSUME OverInv, i2c_int_gpio
  PROVE  OverInv'
BY DEF OverInv, i2c_int_gpio, hostVars, On, step

\* A transaction begins with an idle device.
LEMMA OverCalls ==
  ASSUME TypeInv, WireInv, OverInv, Calls, Edge
  PROVE  OverInv' \/ AddressInv'
<1>1. Main /\ Quiet
  BY CallsDo
<1>2. DoesBegin \/ DoesFinish
  <2>1. ~On({"restart"}) /\ ~On({"begin", "write", "read"}) /\ (On({"none"}) => step = 0)
    BY DEF OverInv, On
  <2>2. (On({"none"}) => ~(step = 10)) /\ (On({"end"}) => ~On({"none"}))
    <3>1. On({"none"}) => step # 10
      BY <2>1
    <3> QED BY <3>1 DEF On
  <2> QED BY <1>1, <2>1, <2>2 DEF Main, DoesRestart, DoesBeginAgain, DoesWrite, DoesRead,
                                  DoesEnd, DoesReturn
<1>3. CASE DoesBegin
  <2>1. /\ On({"begin"})' /\ step' = 0 /\ heard' = <<>> /\ dev_sda' = 2 /\ ~count'.read
        /\ device' = device /\ At("idle") /\ host_sda' = host_sda /\ dev_sda' = dev_sda
    BY <1>3 DEF DoesBegin, Begins, CallIs, HostIs, Hears, CountIs, On, step
  <2>2. ~edge'
    <3>1. SDA' = SDA /\ ~edge
      BY <1>1, <2>1 DEF SDA, Quiet
    <3> QED BY <3>1, Wires DEF Edge
  <2>3. AddressAt'
    BY <2>1, <2>2 DEF AddressAt, At
  <2>4. On({"begin", "write"})' /\ ~On({"write"})'
    BY <2>1 DEF On
  <2> QED BY <2>1, <2>3, <2>4 DEF AddressInv
<1>4. CASE DoesFinish
  BY <1>4 DEF DoesFinish, CallIs, HostIs, OverInv, On, step
<1> QED BY <1>2, <1>3, <1>4

-----------------------------------------------------------------------------
(* The device does not take part *)

\* A tick: the host samples no acknowledge, and a falling edge of SDA behind
\* which SCL is low is the edge of a data bit.
LEMMA LostTick ==
  ASSUME TypeInv, WireInv, LostInv, i2c_int_tmr0, Edge
  PROVE  LostInv'
<1>1. /\ Ticks /\ call' = call /\ count' = count /\ heard' = heard
      /\ dev_sda' = dev_sda /\ dev_scl' = dev_scl /\ device' = device
      /\ Quiet \/ (step = 5 /\ At("first_low"))
  BY TickDoes DEF deviceVars
<1>2. /\ dev_sda = 2 /\ ~count.read /\ (step \in {9, 10} => host_ack.nack)
      /\ On({"begin", "write"}) \/ On({"restart"})
      /\ \A names : On(names)' <=> On(names)
      /\ \A pc : At(pc)' <=> At(pc)
  <2>1. ~On({"none"})
    BY NoTicks
  <2> QED BY <1>1, <2>1 DEF LostInv, LostCall, On, At
<1>3. /\ step \in {0, 1, 2, 3, 4, 5, 6, 7, 8, 9, 10, 14, 15}
      /\ step \in {14, 15} <=> On({"restart"})
      /\ step \in {6, 8, 9, 10} => ~host_state.read
  <2>1. CASE On({"begin", "write"})
    BY <2>1, Facts DEF WireInv, CallInv, On
  <2>2. CASE On({"restart"})
    BY <2>2 DEF WireInv, CallInv, On
  <2> QED BY <1>2, <2>1, <2>2
<1>4. SDA = (IF host_sda THEN 0 ELSE 1) /\ SDA' = (IF host_sda' THEN 0 ELSE 1)
  BY <1>1, <1>2 DEF SDA
<1>5. /\ step = 0 => step' = 1
      /\ step = 1 => step' = 2
      /\ step = 2 => step' = 3
      /\ step = 3 => step' = 4
      /\ step = 4 => step' = 5 /\ SCL = 1
      /\ step = 5 => step' \in {2, 5, 6}
      /\ step = 6 => step' = 7
      /\ step = 7 => step' = 8
      /\ step = 8 => step' = 9
      /\ step \in {9, 10} => step' = 10
      /\ step \in {14, 15} => step' = 15
  BY <1>1, TickSteps
<1>6. LostCall'
  <2>1. step' \in {9, 10} => host_ack'.nack
    <3>1. step' \in {9, 10} => step \in {8, 9, 10}
      BY <1>3, <1>5
    <3>2. CASE step = 8
      <4>1. host_ack'.nack = (SDA = 1)
        BY <1>1, <1>3, <3>2 DEF Ticks, AckIs
      <4>2. SDA = 1
        BY <1>3, <1>4, <3>2 DEF WireInv, DataInv
      <4> QED BY <4>1, <4>2
    <3>3. CASE step = 9
      BY <1>1, <1>2, <3>3 DEF Ticks
    <3>4. CASE step = 10
      BY <1>1, <1>2, <3>4 DEF Ticks, AckIs
    <3> QED BY <3>1, <3>2, <3>3, <3>4
  <2> QED BY <1>1, <1>2, <2>1 DEF LostInv, LostCall, On
<1>7. LostPlace'
  BY <1>1 DEF LostInv, LostPlace
<1>8. Refused'
  <2>1. ASSUME On({"restart"}), heard # <<>>
        PROVE  At("ack_end") /\ (device.seen => SCL' = 1)
    <3>1. At("ack_end") /\ (device.seen => SCL = 1)
      BY <2>1 DEF LostInv, Refused
    <3>2. CASE step = 14
      BY <3>1, <3>2 DEF WireInv, ClockInv, SCL
    <3>3. CASE step = 15
      <4>1. host_scl' = FALSE
        BY <1>1, <3>3 DEF Ticks
      <4>2. dev_scl' = FALSE
        <5>1. ~dev_scl
          BY <3>1 DEF WireInv, ClockInv, At, Callbacks
        <5> QED BY <1>1, <5>1 DEF TypeInv
      <4> QED BY <3>1, <4>1, <4>2 DEF SCL
    <3> QED BY <1>3, <2>1, <3>1, <3>2, <3>3
  <2> QED BY <1>1, <1>2, <2>1 DEF LostInv, Refused
<1>9. Waiting'
  <2>1. At("first_low") => host_sda' \/ step' = 5 \/ (SCL' = 0 /\ step' \notin {0, 1})
    <3>1. SUFFICES ASSUME At("first_low")
                   PROVE  step # 0 /\ (host_scl' \/ host_sda' \/ step' = 5)
      BY <1>3, <1>5 DEF SCL
    <3>2. step # 5 => SCL = 1 /\ host_sda /\ ~host_scl
      BY <1>1, <1>4, <3>1 DEF Quiet, SCL
    <3>3. step \in {1, 3, 4, 5}
      BY <1>3, <3>2 DEF WireInv, DataInv, ClockInv
    <3>4. CASE step = 1
      BY <1>1, <3>4 DEF Ticks
    <3>5. CASE step = 3
      BY <3>2, <3>5 DEF WireInv, ClockInv
    <3>6. CASE step = 4
      BY <1>5, <3>6
    <3>7. CASE step = 5
      <4>1. CASE host_sda
        BY <1>1, <3>7, <4>1, TickSteps
      <4>2. CASE ~host_sda
        BY <1>1, <3>7, <4>2 DEF Ticks
      <4> QED BY <4>1, <4>2
    <3> QED BY <3>3, <3>4, <3>5, <3>6, <3>7
  <2>2. step' \in {0, 1} =>
          ~At("stop") /\ ~At("idle") /\ (At("stop_clock") /\ device.seen => SCL' = 0)
    <3>1. step' \in {0, 1} => step = 0
      BY <1>3, <1>5
    <3>2. step = 0 => SCL' = SCL
      BY <1>1 DEF Ticks, SCL
    <3> QED BY <3>1, <3>2 DEF LostInv, Waiting
  <2>3. At("idle") /\ edge' /\ SDA' = 0 => step' = 3
    <3>1. SUFFICES ASSUME At("idle"), edge', SDA' = 0 PROVE step = 2
      BY <1>5
    <3>2. ~host_sda /\ host_sda'
      <4>1. ~edge
        BY <1>1, <3>1 DEF Quiet, At
      <4>2. SDA = 1
        BY <3>1, <4>1 DEF Edge
      <4> QED BY <1>4, <3>1, <4>2
    <3>3. step # 0
      BY <3>1 DEF LostInv, Waiting
    <3>4. /\ step = 1 => host_sda' = host_sda
          /\ step = 3 => host_sda' = host_sda
          /\ step = 4 => host_sda' = host_sda
          /\ step = 5 => host_sda' = FALSE
          /\ step = 6 => host_sda' = (host_state.read \/ host_sda)
          /\ step = 7 => host_sda' = host_sda
          /\ step = 8 => host_sda' = host_sda
          /\ step = 9 => host_sda' = host_sda
          /\ step = 10 => host_sda' = (host_sda /\ ~host_state.read)
          /\ step = 14 => host_sda' = FALSE
          /\ step = 15 => host_sda' = host_sda
      <4>1. step = 1 => host_sda' = host_sda
        BY <1>1 DEF Ticks
      <4>2. step = 3 => host_sda' = host_sda
        BY <1>1 DEF Ticks
      <4>3. step = 4 => host_sda' = host_sda
        BY <1>1 DEF Ticks
      <4>4. step = 5 => host_sda' = FALSE
        BY <1>1, Facts DEF Ticks
      <4>5. step = 6 => host_sda' = (host_state.read \/ host_sda)
        BY <1>1 DEF Ticks
      <4>6. step = 7 => host_sda' = host_sda
        BY <1>1 DEF Ticks
      <4>7. step = 8 => host_sda' = host_sda
        BY <1>1 DEF Ticks
      <4>8. step = 9 => host_sda' = host_sda
        BY <1>1 DEF Ticks
      <4>9. step = 10 => host_sda' = (host_sda /\ ~host_state.read)
        BY <1>1 DEF Ticks
      <4>10. step = 14 => host_sda' = FALSE
        BY <1>1 DEF Ticks
      <4>11. step = 15 => host_sda' = host_sda
        BY <1>1 DEF Ticks
      <4> QED BY <4>1, <4>2, <4>3, <4>4, <4>5, <4>6, <4>7, <4>8, <4>9, <4>10, <4>11
    <3>5. step = 6 => ~host_sda'
      BY <1>3, <3>2, <3>4
    <3>6. step = 10 => ~host_sda'
      BY <1>3, <3>2, <3>4
    <3> QED BY <1>3, <3>2, <3>3, <3>4, <3>5, <3>6
  <2> QED BY <1>2, <2>1, <2>2, <2>3, <1>1 DEF Waiting
<1>10. Misled'
  <2>1. CASE At("addr") /\ device.bit = 0
    <3>1. /\ device.data = 0 /\ host_sda
          /\ step = 3 \/ (step = 4 /\ device.seen)
      BY <2>1 DEF LostInv, Misled
    <3>2. device.seen <=> SCL = 0
      BY <1>1, <2>1 DEF Quiet, At, Rising
    <3>3. step = 3
      BY <1>5, <3>1, <3>2
    <3>4. step' = 4 /\ host_sda' /\ device.seen
      <4>1. step' = 4
        BY <1>5, <3>3
      <4>2. host_sda'
        BY <1>1, <3>1, <3>3 DEF Ticks
      <4>3. device.seen
        BY <3>2, <3>3, Clock
      <4> QED BY <4>1, <4>2, <4>3
    <3> QED BY <1>1, <2>1, <3>1, <3>4 DEF Misled, At
  <2>2. CASE ~(At("addr") /\ device.bit = 0)
    BY <1>1, <2>2 DEF LostInv, Misled, At
  <2> QED BY <2>1, <2>2
<1> QED BY <1>6, <1>7, <1>8, <1>9, <1>10 DEF LostInv

\* An address that begins with zeros is half the address of the device, at most.
LEMMA Half ==
  ASSUME NEW n \in 1..(BITS - 2), NEW x \in Nat, x < 2^(n - 1), NEW b \in {0, 1}
  PROVE  Shift(x, b) < 2^n /\ Shift(x, b) \in Nat /\ n - 1 \in Nat
<1>1. n - 1 \in 0..(BITS - 1) /\ n \in 0..(BITS - 1) /\ (n - 1) + 1 = n
  BY I2cAssumption
<1>2. PICK P \in Nat \ {0} : P = 2^(n - 1) /\ 2^n = 2 * P
  <2>1. 2^(n - 1) \in Nat \ {0} /\ 2^((n - 1) + 1) = 2 * 2^(n - 1)
    BY <1>1, Powers
  <2> QED BY <1>1, <2>1
<1>3. PICK Q \in Nat \ {0} : 2^(BITS - n) = Q /\ 2^n * Q = 2^BITS
  <2>1. BITS - n \in 0..BITS
    BY I2cAssumption
  <2> QED BY <1>1, <2>1, Powers, PowersAssumption
<1>4. 2 * P <= 2^BITS
  <2>1. 2 * P <= (2 * P) * Q
    OBVIOUS
  <2> QED BY <1>2, <1>3, <2>1
<1>5. 2 * x + b \in 0..(2 * P - 1)
  BY <1>2
<1>6. PICK M \in Nat \ {0} : M = 2^BITS
  BY <1>1, Powers
<1>7. 2 * x + b \in 0..(M - 1)
  BY <1>4, <1>5, <1>6
<1>8. (2 * x + b) % M = 2 * x + b
  BY <1>6, <1>7, Below
<1> QED BY <1>1, <1>2, <1>5, <1>6, <1>8 DEF Shift

\* start refuses what follows an edge of SDA behind which SCL is low.
LEMMA LostAnswered ==
  ASSUME TypeInv, WireInv, LostInv, HighAddress, Answers, i2c_int_gpio, Edge,
         UNCHANGED <<host_state, host_ack, host_sda, call, count>>
  PROVE  LostInv'
<1>1. At("start")
  BY DEF Answers, LostInv, LostPlace, Apart, Astray, At
<1>2. PICK ok \in BOOLEAN, x \in Nat :
        /\ ok => device.data = OwnAddress
        /\ heard' = Heard(x, ok)
        /\ dev_sda' = IF ok THEN 0 ELSE dev_sda
        /\ device'.pc = "ack_end" /\ device'.seen = FALSE /\ device'.ready = ok
  <2>1. 2 * device.data + Dir \in Nat
    BY Facts DEF Byte, Dir
  <2> QED BY <1>1, <2>1 DEF Answers, At, DeviceIs
<1>3. ~ok
  <2>1. device.data < 2^(BITS - 2)
    BY <1>1 DEF LostInv, Misled, At
  <2>2. OwnAddress >= 2^(BITS - 2) /\ OwnAddress \in Nat /\ 2^(BITS - 2) \in Nat
    <3>1. BITS - 2 \in 0..BITS /\ OwnAddress \in Nat
      BY I2cAssumption
    <3> QED BY <3>1, PowersAssumption DEF HighAddress
  <2>3. device.data # OwnAddress
    BY <2>1, <2>2
  <2> QED BY <1>2, <2>3
<1>4. heard' # <<>> /\ ~Head(heard').ok
  <2>1. heard \in Seq(Entry) /\ [byte |-> x, ok |-> ok] \in Entry
    BY Facts DEF Entry
  <2>2. heard' = Append(heard, [byte |-> x, ok |-> ok])
    BY <1>2 DEF Heard
  <2>3. heard' # <<>>
    BY <2>1, <2>2, AppendProperties
  <2>4. Head(heard') = IF heard = <<>> THEN [byte |-> x, ok |-> ok] ELSE Head(heard)
    BY <2>1, <2>2, HeadTailAppend
  <2> QED BY <1>3, <2>3, <2>4 DEF LostInv, Refused
<1>5. dev_sda' = 2
  BY <1>2, <1>3 DEF LostInv, LostCall
<1>6. LostCall'
  BY <1>5 DEF LostInv, LostCall, On, step
<1>7. LostPlace'
  BY <1>1, <1>2, <1>3 DEF LostPlace, Apart, Astray
<1>8. Refused'
  BY <1>2, <1>4 DEF Refused, At
<1>9. Waiting' /\ Misled'
  BY <1>2 DEF Waiting, Misled, At
<1> QED BY <1>6, <1>7, <1>8, <1>9 DEF LostInv

\* The device goes its own way.
LEMMA LostDevice ==
  ASSUME TypeInv, WireInv, LostInv, ~Pauses, HighAddress, i2c_int_gpio, Edge
  PROVE  LostInv'
<1>1. /\ UNCHANGED <<host_state, host_ack, host_sda, host_scl, call, count>>
      /\ Moves \/ Answers \/ GivesUp
  BY DeviceDoes DEF i2c_int_gpio, hostVars
<1>2. /\ dev_sda = 2 /\ ~count.read /\ (step \in {9, 10} => host_ack.nack)
      /\ On({"none", "begin", "write", "restart"}) /\ (On({"none"}) => step = 10)
      /\ step' = step /\ (\A names : On(names)' <=> On(names))
  BY <1>1 DEF LostInv, LostCall, On, step
<1>3. ~GivesUp
  <2>1. TR0 \/ step # 0
    BY <1>2 DEF WireInv, CallInv
  <2>2. TR0 \/ ~(Pauses \/ step = 0)
    BY <2>1
  <2> QED BY <2>2 DEF GivesUp
<1>4. CASE Answers
  BY <1>1, <1>4, LostAnswered
<1>5. CASE Moves
  <2>1. /\ device.pc \notin Callbacks /\ ~dev_scl
        /\ SCL = (IF host_scl THEN 0 ELSE 1) /\ SDA = (IF host_sda THEN 0 ELSE 1)
    BY <1>2, <1>5, FromPlaces, Facts DEF WireInv, ClockInv, SCL, SDA
  <2>2. ASSUME dev_sda' = 2, LostPlace', Refused', Waiting', Misled'
        PROVE  LostInv'
    BY <1>1, <1>2, <2>2 DEF LostInv, LostCall
  <2>3. ~At("ack_end") /\ heard' = heard => Refused'
    BY <1>2 DEF LostInv, Refused
  <2>5. /\ dev_sda' = 2 => SDA' = SDA
        /\ dev_scl' = dev_scl => SCL' = SCL
    BY <1>1, <1>2 DEF SDA, SCL
  <2>6. device.pc \in Apart => ~device.ready
    BY DEF LostInv, LostPlace
  <2>7. CASE At("ack_end")
    <3>1. ~device.ready
      BY <2>6, <2>7 DEF Apart, At
    <3>3. Bit(device.data) = 2
      BY <1>2, <3>1 DEF Bit
    <3>4. /\ heard # <<>> => ~Head(heard).ok
          /\ On({"restart"}) /\ heard # <<>> /\ device.seen => SCL = 1
      BY DEF LostInv, Refused
    <3>5. CASE Notices
      <4>1. SCL = 1 /\ ~device.seen
        BY <2>7, <3>5 DEF Notices, At, Falling
      <4>3. /\ device'.pc = "ack_end" /\ ~device'.ready /\ dev_sda' = 2 /\ heard' = heard
            /\ SCL' = 1
        BY <1>2, <2>5, <2>7, <3>1, <3>5, <4>1 DEF Notices, Silent, DeviceIs, At
      <4>4. LostPlace'
        BY <4>3 DEF LostPlace, Apart, Astray
      <4>5. Refused'
        BY <3>4, <4>3 DEF Refused, At
      <4>6. Waiting' /\ Misled'
        BY <4>3 DEF Waiting, Misled, At
      <4> QED BY <2>2, <4>3, <4>4, <4>5, <4>6
    <3>6. CASE ~Notices
      <4>1. /\ device.seen /\ SCL = 0 /\ heard' = heard /\ dev_sda' = 2
            /\ device'.pc \in {"bit_end", "first"} /\ ~device'.seen /\ ~device'.ready
        BY <1>5, <2>7, <3>1, <3>3, <3>6, FromPlaces DEF Ends, DeviceGoes, DeviceIs
      <4>3. LostPlace'
        BY <4>1 DEF LostPlace, Apart, Astray
      <4>4. Refused'
        BY <1>2, <3>4, <4>1 DEF Refused
      <4>5. Waiting' /\ Misled'
        BY <4>1 DEF Waiting, Misled, At
      <4> QED BY <2>2, <4>1, <4>3, <4>4, <4>5
    <3> QED BY <3>5, <3>6
  <2>8. CASE At("first")
    <3>1. ~device.ready
      BY <2>6, <2>8 DEF Apart, At
    <3>2. CASE Notices
      <4>1. /\ device'.pc = "first" /\ ~device'.ready /\ dev_sda' = 2 /\ heard' = heard
        BY <1>2, <2>8, <3>1, <3>2 DEF Notices, Silent, DeviceIs, At
      <4>2. LostPlace'
        BY <4>1 DEF LostPlace, Apart, Astray
      <4>3. Waiting' /\ Misled'
        BY <4>1 DEF Waiting, Misled, At
      <4> QED BY <2>2, <2>3, <2>8, <4>1, <4>2, <4>3 DEF At
    <3>3. CASE ~Notices
      <4>1. /\ SCL = 1 /\ dev_sda' = 2 /\ heard' = heard /\ ~device'.ready
            /\ device'.pc = IF SDA = 1 THEN "data" ELSE "first_low"
        BY <1>2, <1>5, <2>8, <3>1, <3>3, FromPlaces DEF Ends, Silent, DeviceGoes, DeviceIs
      <4>3. LostPlace'
        BY <4>1 DEF LostPlace, Apart, Astray
      <4>4. device'.pc = "first_low" => host_sda'
        BY <1>1, <2>1, <4>1
      <4>5. Waiting' /\ Misled'
        BY <4>1, <4>4 DEF Waiting, Misled, At
      <4> QED BY <2>2, <2>3, <2>8, <4>1, <4>3, <4>5 DEF At
    <3> QED BY <3>2, <3>3
  <2>9. CASE At("bit_end")
    <3>1. ~device.ready
      BY <2>6, <2>9 DEF Apart, At
    <3>3. Bit(device.data) = 2
      BY <1>2, <3>1 DEF Bit
    <3>4. /\ dev_sda' = 2 /\ heard' = heard /\ ~device'.ready
          /\ device'.pc \in {"bit_end", "mack"}
      <4>1. CASE Notices
        BY <1>2, <2>9, <3>1, <4>1 DEF Notices, Silent, DeviceIs, At
      <4>2. CASE ~Notices
        BY <1>5, <2>9, <3>1, <3>3, <4>2, FromPlaces DEF DeviceGoes, DeviceIs
      <4> QED BY <4>1, <4>2
    <3>5. LostPlace'
      BY <3>4 DEF LostPlace, Apart, Astray
    <3>6. Waiting' /\ Misled'
      BY <3>4 DEF Waiting, Misled, At
    <3> QED BY <2>2, <2>3, <2>9, <3>4, <3>5, <3>6 DEF At
  <2>10. CASE At("mack") \/ At("mack_end") \/ At("data") \/ At("byte_end") \/ At("nack_end")
    <3>1. ~device.ready /\ ~At("ack_end")
      BY <2>6, <2>10 DEF Apart, At
    <3>2. /\ dev_sda' = 2 /\ heard' = heard /\ ~device'.ready
          /\ device'.pc \in {"mack", "mack_end", "data", "byte_end", "nack_end", "bit_end",
                             "first", "stop_clock"}
          /\ device'.pc = "stop_clock" => ~device'.seen
      <4>1. CASE Notices
        BY <1>2, <2>10, <3>1, <4>1 DEF Notices, Silent, DeviceIs, At
      <4>2. CASE At("mack") /\ ~Notices
        BY <1>2, <1>5, <3>1, <4>2, FromPlaces DEF Silent, DeviceGoes, DeviceIs
      <4>3. CASE At("mack_end") /\ ~Notices
        BY <1>2, <1>5, <3>1, <4>3, FromPlaces DEF Silent, DeviceGoes, DeviceIs
      <4>4. CASE At("data") /\ ~Notices
        BY <1>2, <1>5, <3>1, <4>4, FromPlaces DEF Silent, DeviceGoes, DeviceIs
      <4>5. CASE At("byte_end") /\ ~Notices
        BY <1>2, <1>5, <3>1, <4>5, FromPlaces DEF Silent, DeviceGoes, DeviceIs
      <4>6. CASE At("nack_end") /\ ~Notices
        BY <1>2, <1>5, <3>1, <4>6, FromPlaces DEF Silent, DeviceGoes, DeviceIs
      <4> QED BY <2>10, <4>1, <4>2, <4>3, <4>4, <4>5, <4>6
    <3>3. LostPlace'
      BY <3>1, <3>2 DEF LostPlace, Apart, Astray
    <3>4. Waiting' /\ Misled'
      BY <3>2 DEF Waiting, Misled, At
    <3> QED BY <2>2, <2>3, <3>1, <3>2, <3>3, <3>4
  <2>11. CASE At("first_low")
    <3>1. ~device.ready /\ ~At("ack_end")
      BY <2>6, <2>11 DEF Apart, At
    <3>2. host_sda \/ step = 5 \/ step \notin {0, 1}
      BY <2>11 DEF LostInv, Waiting
    <3>3. /\ dev_sda' = 2 /\ heard' = heard /\ ~device'.ready
          /\ device'.pc = "data" \/ (device'.pc = "idle" /\ SDA = 1)
      BY <1>2, <1>5, <2>11, <3>1, FromPlaces DEF Silent, DeviceGoes, DeviceIs
    <3>4. LostPlace'
      BY <3>3 DEF LostPlace, Apart, Astray
    <3>5. Waiting' /\ Misled'
      <4>1. CASE device'.pc = "data"
        BY <4>1 DEF Waiting, Misled, At
      <4>2. CASE device'.pc = "idle" /\ SDA = 1
        <5>1. step \notin {0, 1} /\ SDA' = 1
          BY <2>1, <2>5, <3>2, <3>3, <4>2
        <5> QED BY <1>2, <4>2, <5>1 DEF Waiting, Misled, At
      <4> QED BY <3>3, <4>1, <4>2
    <3> QED BY <2>2, <2>3, <3>1, <3>3, <3>4, <3>5
  <2>12. CASE At("stop_clock")
    <3>1. ~At("ack_end")
      BY <2>12 DEF At
    <3>2. step \in {0, 1} /\ device.seen => SCL = 0
      BY <2>12 DEF LostInv, Waiting
    <3>3. CASE Notices
      <4>1. /\ dev_sda' = 2 /\ heard' = heard /\ device'.pc = "stop_clock" /\ SCL' = 0
        BY <1>2, <2>5, <2>12, <3>3 DEF Notices, Silent, DeviceIs, At, Rising
      <4>2. LostPlace'
        BY <3>1, <4>1 DEF LostPlace, Apart, Astray
      <4>3. Waiting' /\ Misled'
        BY <4>1 DEF Waiting, Misled, At
      <4> QED BY <2>2, <2>3, <3>1, <4>1, <4>2, <4>3
    <3>4. CASE ~Notices
      <4>1. /\ dev_sda' = 2 /\ heard' = heard /\ device'.pc = "stop" /\ step \notin {0, 1}
        BY <1>2, <1>5, <2>12, <3>2, <3>4, FromPlaces DEF Ends, Silent, DeviceIs
      <4>2. LostPlace'
        BY <3>1, <4>1 DEF LostPlace, Apart, Astray
      <4>3. Waiting' /\ Misled'
        BY <1>2, <4>1 DEF Waiting, Misled, At
      <4> QED BY <2>2, <2>3, <3>1, <4>1, <4>2, <4>3
    <3> QED BY <3>3, <3>4
  <2>13. CASE At("stop")
    <3>1. ~At("ack_end") /\ step \notin {0, 1}
      BY <2>13 DEF At, LostInv, Waiting
    <3>2. SDA = 1 /\ dev_sda' = 2 /\ heard' = heard /\ device'.pc = "idle"
      BY <1>2, <1>5, <2>13, FromPlaces DEF Silent, DeviceIs
    <3>3. LostPlace'
      BY <3>1, <3>2 DEF LostPlace, Apart, Astray
    <3>4. SDA' = 1
      BY <2>5, <3>2
    <3>5. Waiting' /\ Misled'
      BY <1>2, <3>1, <3>2, <3>4 DEF Waiting, Misled, At
    <3> QED BY <2>2, <2>3, <3>1, <3>2, <3>3, <3>5
  <2>14. CASE At("idle")
    <3>1. ~At("ack_end") /\ step \notin {0, 1} /\ (edge /\ SDA = 0 => step = 3)
      BY <2>14 DEF At, LostInv, Waiting
    <3>2. /\ edge /\ dev_sda' = 2 /\ heard' = heard
          /\ \/ SDA = 1 /\ device' = device
             \/ SDA = 0 /\ device'.pc = "addr" /\ device'.bit = 0 /\ device'.data = 0
      BY <1>2, <1>5, <2>14, FromPlaces DEF Silent, DeviceIs
    <3>3. CASE SDA = 1
      <4>1. device' = device /\ SDA' = 1
        BY <2>5, <3>2, <3>3
      <4>2. LostPlace'
        BY <2>14, <3>1, <4>1 DEF LostPlace, Apart, Astray, At
      <4>3. Waiting' /\ Misled'
        BY <1>2, <2>14, <3>1, <4>1 DEF Waiting, Misled, At
      <4> QED BY <2>2, <2>3, <3>1, <3>2, <4>2, <4>3
    <3>4. CASE SDA = 0
      <4>1. /\ device'.pc = "addr" /\ device'.bit = 0 /\ device'.data = 0 /\ host_sda'
            /\ step' = 3
        BY <1>1, <1>2, <2>1, <3>1, <3>2, <3>4
      <4>2. LostPlace'
        BY <3>1, <4>1 DEF LostPlace, Apart, Astray
      <4>3. Waiting' /\ Misled'
        BY <4>1 DEF Waiting, Misled, At
      <4> QED BY <2>2, <2>3, <3>1, <3>2, <4>2, <4>3
    <3> QED BY <3>3, <3>4, Wires
  <2>15. CASE At("addr")
    <3>1. ~At("ack_end")
      BY <2>15 DEF At
    <3>2. \/ /\ device.bit = 0 /\ device.data = 0 /\ host_sda
             /\ step = 3 \/ (step = 4 /\ device.seen)
          \/ device.bit \in 1..(BITS - 2) /\ device.data < 2^(device.bit - 1)
      BY <2>15 DEF LostInv, Misled
    <3>3. BITS \in Nat /\ BITS > 1 /\ device.data \in Nat /\ device.bit \in Nat
      BY Facts DEF Byte
    <3>4. CASE Notices
      <4>1. /\ dev_sda' = 2 /\ heard' = heard /\ device'.pc = "addr"
            /\ device'.bit = device.bit /\ device'.data = device.data
            /\ ~device.seen /\ host_sda' = host_sda
        BY <1>1, <1>2, <2>15, <3>4 DEF Notices, Silent, DeviceIs, At
      <4>2. LostPlace'
        BY <3>1, <4>1 DEF LostPlace, Apart, Astray
      <4>3. Waiting'
        BY <4>1 DEF Waiting, At
      <4>4. Misled'
        BY <1>2, <3>2, <4>1 DEF Misled, At
      <4> QED BY <2>2, <2>3, <3>1, <4>1, <4>2, <4>3, <4>4
    <3>5. CASE ~Notices
      <4>1. /\ SCL = 1 /\ device.seen /\ dev_sda' = 2 /\ heard' = heard
            /\ device'.pc = IF device.bit = BITS - 2 THEN "dir" ELSE "addr"
            /\ device'.bit = device.bit + 1 /\ device'.data = Shift(device.data, SDA)
        BY <1>2, <1>5, <2>15, <3>5, FromPlaces DEF Ends, Silent, DeviceGoes, DeviceIs
      <4>2. LostPlace'
        BY <3>1, <4>1 DEF LostPlace, Apart, Astray
      <4>3. Waiting'
        BY <4>1 DEF Waiting, At
      <4>4. PICK n \in 0..(BITS - 2) : n = device.bit /\ Shift(device.data, SDA) < 2^n
        <5>1. CASE device.bit = 0
          <6>1. device.data = 0 /\ SDA = 0
            BY <2>1, <3>2, <5>1
          <6>2. Shift(0, 0) = 0
            <7>1. PICK M \in Nat \ {0} : M = 2^BITS
              BY Powers, <3>3
            <7>2. 2 * 0 + 0 = 0 /\ 0 \in 0..(M - 1)
              BY <7>1
            <7>3. (2 * 0 + 0) % M = 0
              BY <7>2, Below
            <7> QED BY <7>1, <7>3 DEF Shift
          <6>3. 0 \in 0..(BITS - 2) /\ 0 \in 0..BITS
            BY <3>3
          <6>4. 2^0 \in Nat \ {0}
            BY <6>3, Powers
          <6>5. 0 < 2^0
            BY <6>4
          <6>6. 0 = device.bit /\ Shift(device.data, SDA) < 2^0
            BY <5>1, <6>1, <6>2, <6>5
          <6> QED BY <6>3, <6>6
        <5>2. CASE device.bit \in 1..(BITS - 2) /\ device.data < 2^(device.bit - 1)
          <6>1. Shift(device.data, SDA) < 2^(device.bit)
            BY <3>3, <5>2, Half, Wires
          <6> QED BY <3>3, <5>2, <6>1
        <5> QED BY <3>2, <5>1, <5>2
      <4>5. Misled'
        <5>1. CASE n = BITS - 2
          BY <4>1, <4>4, <5>1 DEF Misled, At
        <5>2. CASE n # BITS - 2
          <6>1. /\ device'.pc = "addr" /\ device'.bit = n + 1 /\ n + 1 \in 1..(BITS - 2)
                /\ device'.data < 2^n /\ (n + 1) - 1 = n
            BY <3>3, <4>1, <4>4, <5>2
          <6>2. device'.data < 2^(device'.bit - 1)
            BY <6>1
          <6> QED BY <6>1, <6>2 DEF Misled, At
        <5> QED BY <5>1, <5>2
      <4> QED BY <2>2, <2>3, <3>1, <4>1, <4>2, <4>3, <4>5
    <3> QED BY <3>4, <3>5
  <2>16. CASE At("dir") \/ At("dir_end")
    <3>1. ~At("ack_end") /\ device.data < 2^(BITS - 2)
      BY <2>16 DEF At, LostInv, Misled
    <3>2. /\ dev_sda' = 2 /\ heard' = heard /\ device'.data = device.data
          /\ device'.pc \in {"dir", "dir_end", "start"}
      <4>1. CASE Notices
        BY <1>2, <2>16, <4>1 DEF Notices, Silent, DeviceIs, At
      <4>2. CASE At("dir") /\ ~Notices
        BY <1>2, <1>5, <4>2, FromPlaces DEF Silent, DeviceIs
      <4>3. CASE At("dir_end") /\ ~Notices
        BY <1>2, <1>5, <4>3, FromPlaces DEF Stretches, DeviceIs
      <4> QED BY <2>16, <4>1, <4>2, <4>3
    <3>3. LostPlace'
      BY <3>1, <3>2 DEF LostPlace, Apart, Astray
    <3>4. Waiting' /\ Misled'
      BY <3>1, <3>2 DEF Waiting, Misled, At
    <3> QED BY <2>2, <2>3, <3>1, <3>2, <3>3, <3>4
  <2>17. /\ device.pc \in Apart \union Astray
         /\ ~At("start")
    BY <2>1 DEF LostInv, LostPlace, At, Callbacks
  <2> QED BY <2>7, <2>8, <2>9, <2>10, <2>11, <2>12, <2>13, <2>14, <2>15, <2>16, <2>17
          DEF Apart, Astray, At
<1> QED BY <1>1, <1>3, <1>4, <1>5

\* The next call finds the device on its way, or waiting for a START condition.
LEMMA LostCalls ==
  ASSUME TypeInv, WireInv, LostInv, ~Pauses, Calls, Edge
  PROVE  LostInv' \/ AddressInv' \/ OverInv'
<1>1. Main /\ Quiet
  BY CallsDo
<1>2. /\ On({"none", "begin", "write", "restart"}) /\ (On({"none"}) => step = 10)
      /\ dev_sda = 2 /\ ~count.read /\ (step \in {9, 10} => host_ack.nack)
  BY DEF LostInv, LostCall
<1>3. SDA = (IF host_sda THEN 0 ELSE 1) /\ device.pc \in Apart \union Astray
  BY <1>2 DEF SDA, LostInv, LostPlace
<1>4. /\ DoesRestart \/ DoesBeginAgain \/ DoesWrite \/ DoesEnd \/ DoesReturn
      /\ On({"none"}) => step = 10 /\ SCL = 0 /\ ~host_sda
      /\ On({"begin", "write", "read"}) => step = 10 /\ SCL = 0
      /\ On({"restart"}) /\ host_ack.ready => step = 15 /\ ~host_sda
  <2>1. /\ ~On({"end"})
        /\ ~On({"read"})
        /\ On({"none"}) => step # 0
    BY <1>2 DEF On
  <2>2. ~DoesBegin /\ ~DoesFinish
    BY <2>1 DEF DoesBegin, DoesFinish
  <2>3. ~DoesRead
    BY <1>2 DEF DoesRead
  <2>4. On({"none"}) => step = 10 /\ SCL = 0 /\ ~host_sda
    BY <1>2, <2>1, Clock DEF WireInv, DataInv
  <2>5. On({"begin", "write", "read"}) => step = 10 /\ SCL = 0
    BY MidCall
  <2>6. On({"restart"}) /\ host_ack.ready => step = 15 /\ ~host_sda
    BY DEF WireInv, ClockInv, DataInv
  <2> QED BY <1>1, <2>2, <2>3, <2>4, <2>5, <2>6 DEF Main
<1>5. ASSUME DoesRestart \/ DoesBeginAgain \/ DoesWrite \/ DoesReturn
      PROVE  /\ device' = device /\ dev_sda' = dev_sda /\ dev_scl' = dev_scl
             /\ host_sda' = host_sda /\ host_scl' = host_scl
             /\ SDA' = SDA /\ SCL' = SCL
  <2>1. /\ device' = device /\ dev_sda' = dev_sda /\ dev_scl' = dev_scl
        /\ host_sda' = host_sda /\ host_scl' = host_scl
    BY <1>5 DEF DoesRestart, DoesBeginAgain, DoesWrite, DoesReturn, Begins, Hears, deviceVars
  <2> QED BY <2>1 DEF SDA, SCL
<1>6. ASSUME DoesRestart \/ DoesBeginAgain \/ DoesWrite \/ DoesReturn, At("idle")
      PROVE  ~edge' /\ ~edge
  <2>1. ~edge /\ SDA' = SDA
    BY <1>1, <1>5, <1>6 DEF Quiet
  <2> QED BY <2>1, Wires DEF Edge
<1>8. CASE DoesRestart
  <2>1. /\ On({"restart"})' /\ ~On({"none"})' /\ step' = 14 /\ heard' = <<>> /\ ~count'.read
        /\ On({"none"}) /\ (GoesOn \/ ~host_ack.nack)
    BY <1>8 DEF DoesRestart, Begins, CallIs, HostIs, Hears, CountIs, On, step
  <2>2. GoesOn /\ SCL = 0
    BY <1>2, <1>4, <2>1
  <2>3. LostCall'
    BY <1>2, <1>5, <1>8, <2>1 DEF LostCall, On
  <2>4. LostPlace'
    BY <1>5, <1>8, <2>2 DEF LostInv, LostPlace
  <2>5. Refused'
    BY <2>1 DEF Refused
  <2>6. Waiting'
    <3>1. ~At("first_low")
      BY <1>1, <2>2 DEF Quiet
    <3> QED BY <1>5, <1>6, <1>8, <2>1, <3>1 DEF Waiting, At
  <2>7. Misled'
    <3>1. step \notin {3, 4}
      BY <1>4, <2>1
    <3> QED BY <1>5, <1>8, <3>1 DEF LostInv, Misled, At
  <2> QED BY <2>3, <2>4, <2>5, <2>6, <2>7 DEF LostInv
<1>9. CASE DoesBeginAgain
  <2>1. /\ On({"begin"})' /\ On({"begin", "write"})' /\ ~On({"none"})' /\ ~On({"write"})'
        /\ ~On({"restart"})'
        /\ step' = 0 /\ heard' = heard /\ ~count'.read /\ On({"restart"}) /\ host_ack.ready
    BY <1>2, <1>9 DEF DoesBeginAgain, Begins, CallIs, HostIs, On, step, deviceVars
  <2>2. step = 15 /\ ~host_sda /\ SDA = 1
    BY <1>3, <1>4, <2>1
  <2>3. CASE At("idle")
    <3>1. heard = <<>>
      BY <2>1, <2>3 DEF LostInv, Refused, At
    <3>2. AddressAt'
      BY <1>5, <1>6, <1>9, <2>1, <2>3 DEF AddressAt, At
    <3> QED BY <1>2, <1>5, <1>9, <2>1, <3>1, <3>2 DEF AddressInv
  <2>4. CASE ~At("idle")
    <3>1. LostCall'
      BY <1>2, <1>5, <1>9, <2>1 DEF LostCall, On
    <3>2. LostPlace'
      BY <1>5, <1>9, <2>2 DEF LostInv, LostPlace
    <3>3. Refused'
      BY <2>1 DEF LostInv, Refused
    <3>4. Waiting'
      <4>1. ~At("first_low") /\ ~At("stop")
        BY <1>1, <2>2 DEF Quiet
      <4>2. At("stop_clock") /\ device.seen => SCL = 0
        BY <1>1 DEF Quiet, At, Rising
      <4> QED BY <1>5, <1>9, <2>1, <2>4, <4>1, <4>2 DEF Waiting, At
    <3>5. Misled'
      BY <1>5, <1>9, <2>2 DEF LostInv, Misled, At
    <3> QED BY <3>1, <3>2, <3>3, <3>4, <3>5 DEF LostInv
  <2> QED BY <2>3, <2>4
<1>10. CASE DoesWrite
  <2>1. /\ On({"write"})' /\ On({"begin", "write"})' /\ ~On({"none"})' /\ ~On({"restart"})'
        /\ step' = 0 /\ heard' = <<>> /\ ~count'.read
        /\ On({"none"}) /\ (GoesOn \/ ~host_ack.nack)
    BY <1>10 DEF DoesWrite, Begins, CallIs, HostIs, Hears, CountIs, On, step
  <2>2. GoesOn /\ SCL = 0 /\ SDA = 1 /\ step = 10
    BY <1>2, <1>3, <1>4, <2>1
  <2>3. CASE At("idle")
    <3>1. AddressAt'
      BY <1>5, <1>6, <1>10, <2>1, <2>3 DEF AddressAt, At
    <3> QED BY <1>2, <1>5, <1>10, <2>1, <2>2, <3>1 DEF AddressInv
  <2>4. CASE ~At("idle")
    <3>1. LostCall'
      BY <1>2, <1>5, <1>10, <2>1 DEF LostCall, On
    <3>2. LostPlace'
      BY <1>5, <1>10, <2>2 DEF LostInv, LostPlace
    <3>3. Refused'
      BY <2>1 DEF Refused
    <3>4. Waiting'
      <4>1. ~At("first_low") /\ ~At("stop")
        BY <1>1, <2>2 DEF Quiet
      <4> QED BY <1>5, <1>10, <2>1, <2>2, <2>4, <4>1 DEF Waiting, At
    <3>5. Misled'
      BY <1>5, <1>10, <2>2 DEF LostInv, Misled, At
    <3> QED BY <3>1, <3>2, <3>3, <3>4, <3>5 DEF LostInv
  <2> QED BY <2>3, <2>4
<1>11. CASE DoesReturn
  <2>1. /\ On({"none"})' /\ ~On({"restart"})' /\ On({"begin", "write", "read"})
        /\ step' = step /\ host_ack' = host_ack /\ heard' = heard
        /\ count'.read <=> IF On({"begin"}) THEN ~host_ack.nack /\ byte % 2 = 1
                           ELSE count.read
    BY <1>11 DEF DoesReturn, CallIs, CountIs, On, step
  <2>2. step = 10 /\ SCL = 0 /\ host_ack.nack
    BY <1>2, <1>4, <2>1
  <2>3. ~count'.read
    BY <1>2, <2>1, <2>2
  <2>4. LostCall'
    BY <1>2, <1>5, <1>11, <2>1, <2>2, <2>3 DEF LostCall, On
  <2>5. LostPlace'
    BY <1>5, <1>11, <2>1 DEF LostInv, LostPlace, At
  <2>6. Refused'
    BY <2>1 DEF LostInv, Refused
  <2>7. Waiting'
    BY <1>5, <1>6, <1>11, <2>1, <2>2 DEF Waiting, At
  <2>8. Misled'
    BY <1>5, <1>11, <2>1 DEF LostInv, Misled, At
  <2> QED BY <2>4, <2>5, <2>6, <2>7, <2>8 DEF LostInv
<1>12. CASE DoesEnd
  BY <1>12 DEF DoesEnd, CallIs, OverInv, On
<1> QED BY <1>4, <1>8, <1>9, <1>10, <1>11, <1>12

\* A refusal is reported.
LEMMA LostReturns ==
  ASSUME TypeInv, WireInv, LostInv, Calls, On({"begin", "write"})
  PROVE  host_ack.nack /\ (heard # <<>> => ~Head(heard).ok)
<1>1. step = 10
  BY MidCall DEF On
<1> QED BY <1>1 DEF LostInv, LostCall, Refused

-----------------------------------------------------------------------------
(* The invariant, and what a call reports                                    *)

\* Before the first call there is none and nothing is under way.
LEMMA I2cInit == ASSUME Init PROVE I2cInv
<1>1. ByteInv /\ OverInv
  BY DEF Init, NoCall, ByteInv, OverInv, On, step
<1> QED BY <1>1, TypeInit, WireInit DEF I2cInv, ModeInv

\* Nothing changes while nothing happens.
LEMMA I2cStutters ==
  ASSUME I2cInv, UNCHANGED vars
  PROVE  I2cInv'
<1> USE DEF vars, hostVars, deviceVars, On, At, step, bit, byte
<1>1. TypeInv' /\ WireInv' /\ ByteInv'
  BY DEF I2cInv, TypeInv, HostState, AckState, CallState, CountState, DeviceState, WireInv,
         CallInv, ClockInv, DataInv, ByteInv
<1>2. CASE OverInv
  <2>1. OverInv'
    BY <1>2 DEF OverInv
  <2> QED BY <1>1, <2>1 DEF I2cInv, ModeInv
<1>3. CASE AddressInv
  <2>1. AddressInv'
    BY <1>3 DEF AddressInv, AddressAt, Took
  <2> QED BY <1>1, <2>1 DEF I2cInv, ModeInv
<1>4. CASE AnswerInv
  <2>1. AnswerInv'
    BY <1>4 DEF AnswerInv, Answer, AnswerAt, Drives
  <2> QED BY <1>1, <2>1 DEF I2cInv, ModeInv
<1>5. CASE WritingInv
  <2>1. WritingInv'
    BY <1>5 DEF WritingInv, WritingAt, Wrote, FirstIsLow
  <2> QED BY <1>1, <2>1 DEF I2cInv, ModeInv
<1>6. CASE CrossedInv
  <2>1. CrossedInv'
    BY <1>6 DEF CrossedInv, CrossedAt, Sending
  <2> QED BY <1>1, <2>1 DEF I2cInv, ModeInv
<1>7. CASE ReadingInv
  <2>1. ReadingInv'
    BY <1>7 DEF ReadingInv, GotSoFar, Got, ReadingAt, Sending, Drives
  <2> QED BY <1>1, <2>1 DEF I2cInv, ModeInv
<1>8. CASE BetweenInv
  <2>1. BetweenInv'
    BY <1>8 DEF BetweenInv, Drives
  <2> QED BY <1>1, <2>1 DEF I2cInv, ModeInv
<1>9. CASE LostInv
  <2>1. LostInv'
    BY <1>9 DEF LostInv, LostCall, LostPlace, Refused, Waiting, Misled, SDA, SCL
  <2> QED BY <1>1, <2>1 DEF I2cInv, ModeInv
<1> QED BY <1>2, <1>3, <1>4, <1>5, <1>6, <1>7, <1>8, <1>9 DEF I2cInv, ModeInv

\* A tick leaves host and device in the mode they are in.
LEMMA ModeTick ==
  ASSUME I2cInv, i2c_int_tmr0, Edge
  PROVE  ModeInv'
<1>1. CASE OverInv \/ AddressInv \/ LostInv
  BY <1>1, OverTick, AddressTick, LostTick DEF I2cInv, ModeInv
<1>2. CASE AnswerInv \/ WritingInv
  BY <1>2, AnswerTick, WritingTick DEF I2cInv, ModeInv
<1>3. CASE CrossedInv \/ ReadingInv
  BY <1>3, CrossedTick, ReadingTick DEF I2cInv, ModeInv
<1>4. CASE BetweenInv
  BY <1>4, NoTicks DEF I2cInv, BetweenInv
<1> QED BY <1>1, <1>2, <1>3, <1>4 DEF I2cInv, ModeInv

\* The device takes an address or a byte, answers it, or loses the way.
LEMMA ModeDevice ==
  ASSUME I2cInv, ~Pauses, HighAddress, i2c_int_gpio, Edge
  PROVE  ModeInv'
<1>1. CASE OverInv \/ AddressInv \/ LostInv
  BY <1>1, OverDevice, AddressDevice, LostDevice DEF I2cInv, ModeInv
<1>2. CASE AnswerInv \/ WritingInv
  BY <1>2, AnswerDevice, WritingDevice DEF I2cInv, ModeInv
<1>3. CASE CrossedInv \/ ReadingInv \/ BetweenInv
  BY <1>3, CrossedDevice, ReadingDevice, BetweenDevice DEF I2cInv, ModeInv
<1> QED BY <1>1, <1>2, <1>3 DEF I2cInv, ModeInv

\* A call begins a byte, or returns behind it.
LEMMA ModeCalls ==
  ASSUME I2cInv, ~Pauses, Calls, Edge
  PROVE  ModeInv'
<1>1. CASE OverInv \/ AddressInv \/ LostInv
  BY <1>1, OverCalls, AddressCalls, LostCalls DEF I2cInv, ModeInv
<1>2. CASE AnswerInv \/ WritingInv
  BY <1>2, AnswerCalls, WritingCalls DEF I2cInv, ModeInv
<1>3. CASE CrossedInv \/ ReadingInv \/ BetweenInv
  BY <1>3, CrossedCalls, ReadingCalls, BetweenCalls DEF I2cInv, ModeInv
<1> QED BY <1>1, <1>2, <1>3 DEF I2cInv, ModeInv

\* Every step keeps the invariant.
LEMMA I2cSteps ==
  ASSUME I2cInv, ~Pauses, HighAddress, Next
  PROVE  I2cInv'
<1>1. Edge /\ edge' \in BOOLEAN
  BY EdgeType DEF Next
<1>2. CASE i2c_int_tmr0
  BY <1>1, <1>2, TypeTick, WireTick, ByteTick, ModeTick DEF I2cInv
<1>3. CASE i2c_int_gpio
  <2>1. ByteInv'
    BY <1>3 DEF I2cInv, ByteInv, i2c_int_gpio, hostVars, On, step, bit, byte
  <2> QED BY <1>1, <1>3, <2>1, TypeDevice, WireDevice, ModeDevice DEF I2cInv
<1>4. CASE Calls
  BY <1>1, <1>4, TypeCalls, WireCalls, ByteCalls, ModeCalls DEF I2cInv
<1> QED BY <1>2, <1>3, <1>4 DEF Next

\* An acceptance is reported for a byte that was accepted, and a refusal for
\* one that was not.
LEMMA WriteReturns ==
  ASSUME I2cInv, Calls, On({"begin", "write"})
  PROVE  ~host_ack.nack <=> heard = <<[byte |-> call.byte, ok |-> TRUE]>>
<1>1. step = 10
  BY MidCall DEF I2cInv, On
<1>2. CASE AnswerInv
  <2>1. PICK ok \in BOOLEAN :
          heard = <<[byte |-> call.byte, ok |-> ok]>> /\ (host_ack.nack <=> ~ok)
    BY <1>1, <1>2 DEF AnswerInv, Answer, byte
  <2>2. heard = <<[byte |-> call.byte, ok |-> TRUE]>> => ok
    <3>1. Head(heard).ok = ok
      BY <2>1
    <3>2. heard = <<[byte |-> call.byte, ok |-> TRUE]>> => Head(heard).ok = TRUE
      OBVIOUS
    <3> QED BY <3>1, <3>2
  <2> QED BY <2>1, <2>2
<1>3. CASE LostInv
  <2>1. host_ack.nack /\ (heard # <<>> => ~Head(heard).ok)
    BY <1>3, LostReturns DEF I2cInv
  <2>2. heard = <<[byte |-> call.byte, ok |-> TRUE]>> => heard # <<>> /\ Head(heard).ok
    OBVIOUS
  <2> QED BY <2>1, <2>2
<1>4. ~OverInv /\ ~ReadingInv /\ ~BetweenInv
  BY DEF OverInv, ReadingInv, BetweenInv, On
<1>5. ~AddressInv /\ ~WritingInv /\ ~CrossedInv
  BY AddressCalls, WritingCalls, CrossedCalls DEF I2cInv
<1> QED BY <1>2, <1>3, <1>4, <1>5 DEF I2cInv, ModeInv

\* A byte that i2c_read returns is the next that read has given.
LEMMA ReadReturns ==
  ASSUME I2cInv, Calls, On({"read"})
  PROVE  Len(given) > 0 /\ host_data = Head(given)
<1>1. ReadingInv
  BY DEF I2cInv, ModeInv, OverInv, AddressInv, AnswerInv, Answer, WritingInv, CrossedInv,
         BetweenInv, LostInv, LostCall, On
<1> QED BY <1>1, ReadingCalls DEF I2cInv

(* A call reports what has happened on the other side of the bus, for every  *)
(* width of a byte and any number of bytes and transactions: what i2c_begin  *)
(* and i2c_write report as accepted a callback of the device has accepted,   *)
(* and i2c_read returns what a callback has given.  The device does not time *)
(* out within a transaction, and its address is in the upper half.           *)
THEOREM Arrives ==
  ASSUME ~Pauses, HighAddress
  PROVE  Spec => BytesArrive
<1>1. Init => I2cInv
  BY I2cInit
<1>2. I2cInv /\ [Next]_vars => I2cInv'
  BY I2cStutters, I2cSteps
<1>3. I2cInv /\ [Next]_vars => [WritesArrive /\ ReadsArrive]_vars
  <2> SUFFICES ASSUME I2cInv, Next PROVE WritesArrive /\ ReadsArrive
    OBVIOUS
  <2>1. CASE call' = call
    BY <2>1 DEF WritesArrive, ReadsArrive, Return, NoCall
  <2>2. CASE Calls
    BY <2>2, WriteReturns, ReadReturns DEF WritesArrive, ReadsArrive, Return, On
  <2> QED BY <2>1, <2>2 DEF Next, i2c_int_tmr0, i2c_int_gpio
<1> QED BY <1>1, <1>2, <1>3, PTL DEF Spec, BytesArrive

=============================================================================
