---------------------------- MODULE DelayProofs ----------------------------
(***************************************************************************)
(* Proofs about Timer3 and Delay for every width of the counter, every     *)
(* number of ticks per millisecond and any delays: what a call that reads  *)
(* the moving counter a byte at a time returns was true at some moment of  *)
(* it, and a delay that is over before the counter starts again is less    *)
(* than a millisecond short.  DelayInv is the inductive invariant.         *)
(***************************************************************************)
EXTENDS Delay, Integers, TLAPS

H(c) == c \div LOW
L(c) == c % LOW

RawReads == {"raw_high", "raw_low", "raw_check"}

(* The types of the variables, and what goes with what.                      *)
TypeInv ==
  /\ count \in 0..(END - 1) /\ start \in 0..(END - 1) /\ age \in 0..MaxAge
  /\ pc \in {"idle"} \union RawReads \union InBetween
  /\ begin \in Nat /\ end \in Nat /\ high \in Nat /\ low \in Nat
  /\ tick \in Nat /\ between \in BOOLEAN
  /\ state \in {"RUN", "BEGIN", "DELAY"} /\ unit \in {"us", "ms"}
  /\ delay \in Nat /\ delay_begin \in Nat /\ delay_end \in Nat
  /\ elapsed \in 0..MaxElapsed

\* Which call can be under way, and its arguments.
CallInv ==
  /\ pc \in RawReads <=> state = "BEGIN"
  /\ pc \in InBetween => state = "DELAY"
  /\ pc \in InBetween => begin = ticks(delay_begin) /\ end = ticks(delay_end)
  /\ state # "RUN" =>
       IF unit = "ms" THEN delay \in 1..SECOND ELSE delay \in 1..(END - 1)
  /\ state = "DELAY" => delay_end = delay_begin + delay

\* The counter is where the history says.
ClockInv == pc # "idle" => count = (start + age) % END

\* The bytes timer3_tick_raw has read were the counter's, in this order.
RawInv ==
  /\ pc = "raw_low" => \E k \in 0..age : high = H((start + k) % END)
  /\ pc = "raw_check" =>
       \E k \in 0..age : \E j \in k..age :
         high = H((start + k) % END) /\ low = L((start + j) % END)

\* The counter has been inside, below and above the interval ever since the
\* call began.
Steady == start + age < END /\ begin <= start /\ start + age <= end
Below == start + age < END /\ start + age < begin
Above == start + age < END /\ start > end

\* What the bytes compared so far say then of the counter.
SteadyInv ==
  Steady => /\ pc = "ge_check" => H(count) > H(begin)
            /\ pc = "le_low" => H(count) >= H(end)
BelowInv ==
  Below => /\ pc \notin {"le_high", "le_low", "le_check"}
           /\ pc = "ge_low" => H(count) >= H(begin)
AboveInv ==
  Above => (pc = "le_check" => H(count) > H(end))

\* A delay that has not lasted AtLeast so long: the counter is in the interval,
\* and was when the poll began.
Slack == IF unit = "ms" THEN MSEC - 1 ELSE 0

AgeInv == state = "BEGIN" => elapsed >= age \/ elapsed = MaxElapsed

WaitInv ==
  state = "DELAY" /\ WithinSecond /\ elapsed < AtLeast =>
    /\ ticks(delay_begin) <= count
    /\ count <= ticks(delay_begin) + Slack + elapsed
    /\ pc \in InBetween =>
         start + age < END /\ ticks(delay_begin) <= start

DelayInv ==
  /\ TypeInv /\ CallInv /\ ClockInv /\ RawInv
  /\ SteadyInv /\ BelowInv /\ AboveInv

LongInv == AgeInv /\ WaitInv

-----------------------------------------------------------------------------
(* The two bytes of a number.                                                *)

\* A number is made of its two bytes.
LEMMA Bytes ==
  ASSUME NEW c \in Nat
  PROVE  H(c) \in Nat /\ L(c) \in 0..(LOW - 1) /\ c = H(c) * LOW + L(c)
<1>1. PICK q \in Int : q = c \div LOW
  BY TimerAssumption
<1>2. q \in Nat /\ q * LOW <= c /\ c < q * LOW + LOW
  BY <1>1, TimerAssumption
<1>3. PICK r \in Int : r = c - q * LOW
  BY <1>1, <1>2, TimerAssumption
<1>4. c = q * LOW + r /\ r \in 0..(LOW - 1)
  BY <1>2, <1>3, TimerAssumption
<1>5. c % LOW = r
  BY <1>2, <1>4, TimerAssumption
<1> QED BY <1>1, <1>2, <1>4, <1>5 DEF H, L

\* The larger number has no smaller high byte.
LEMMA HighOrder ==
  ASSUME NEW a \in Nat, NEW b \in Nat, a <= b
  PROVE  H(a) <= H(b)
BY TimerAssumption DEF H

\* Numbers with the same high byte are ordered as their low bytes are.
LEMMA LowOrder ==
  ASSUME NEW a \in Nat, NEW b \in Nat, H(a) = H(b)
  PROVE  a <= b <=> L(a) <= L(b)
<1>1. PICK p \in Int : p = H(a) * LOW
  BY Bytes, TimerAssumption
<1>2. a = p + L(a) /\ b = p + L(b) /\ L(a) \in Int /\ L(b) \in Int
  BY <1>1, Bytes
<1> QED BY <1>1, <1>2

\* A number that is LOW smaller has a smaller high byte.
LEMMA HighApart ==
  ASSUME NEW a \in Nat, NEW b \in Nat, a + LOW <= b
  PROVE  H(a) < H(b)
<1>1. H(a) * LOW + L(a) + LOW <= H(b) * LOW + L(b)
  BY Bytes, TimerAssumption
<1>2. H(a) * LOW < H(b) * LOW
  BY <1>1, Bytes, TimerAssumption
<1> QED BY <1>2, Bytes, TimerAssumption

\* What the counter is after at most one restart.
LEMMA Restart ==
  ASSUME NEW c \in Nat, c < END + END
  PROVE  c % END = IF c < END THEN c ELSE c - END
BY TimerAssumption

\* A number rounded down to a multiple of n.
LEMMA RoundDown ==
  ASSUME NEW c \in Nat, NEW n \in Nat \ {0}
  PROVE  c \div n \in Nat /\ (c \div n) * n <= c /\ c <= (c \div n) * n + (n - 1)
OBVIOUS


-----------------------------------------------------------------------------
(* The interval of a poll.                                                   *)

\* The end of the interval of a poll is behind its begin.
LEMMA IntervalOrder ==
  ASSUME TypeInv, CallInv, pc \in InBetween
  PROVE  begin < end
<1>1. /\ begin = ticks(delay_begin) /\ end = ticks(delay_begin + delay)
      /\ delay_begin \in Nat /\ delay \in Nat /\ delay >= 1
  BY SecondAssumption, TimerAssumption DEF TypeInv, CallInv
<1>2. CASE unit = "ms"
  <2>1. end = delay_begin * MSEC + delay * MSEC /\ begin = delay_begin * MSEC
    BY <1>1, <1>2, SecondAssumption DEF ticks
  <2>2. delay * MSEC >= MSEC /\ delay_begin * MSEC \in Nat /\ delay * MSEC \in Nat
    BY <1>1, SecondAssumption
  <2>3. PICK p \in Nat, q \in Nat : p = delay_begin * MSEC /\ q = delay * MSEC
    BY <2>2
  <2>4. end = p + q /\ begin = p /\ q >= MSEC
    BY <2>1, <2>2, <2>3
  <2>5. end > begin
    BY <2>4, SecondAssumption
  <2> QED BY <2>5 DEF TypeInv
<1>3. CASE unit # "ms"
  BY <1>1, <1>3 DEF ticks
<1> QED BY <1>2, <1>3

\* The value the counter had k ticks after the call began.
LEMMA SeenAt ==
  ASSUME TypeInv, NEW k \in 0..age
  PROVE  /\ start + k \in Nat /\ start + k < END + END
         /\ (start + k) % END =
              IF start + k < END THEN start + k ELSE start + k - END
         /\ (start + k) % END \in Seen
<1>1. start + k \in Nat /\ start + k < END + END
  BY TimerAssumption DEF TypeInv
<1>2. (start + k) % END =
        IF start + k < END THEN start + k ELSE start + k - END
  BY <1>1, Restart, TimerAssumption DEF TypeInv
<1>3. (start + k) % END \in Seen
  BY DEF Seen
<1> QED BY <1>1, <1>2, <1>3

\* If the interval holds all that the counter was during a call, the counter
\* has not started again.
LEMMA InsideIsSteady ==
  ASSUME TypeInv, CallInv, pc \in InBetween,
         Seen \subseteq Interval, Interval # 0..(END - 1)
  PROVE  Steady
<1> USE TimerAssumption DEF TypeInv
<1>1. /\ begin < end
      /\ Interval = {c \in 0..(END - 1) : begin <= c /\ c <= end}
  BY IntervalOrder DEF Interval, Between
<1>2. begin <= start /\ start <= end
  <2>1. start \in Seen
    BY SeenAt
  <2> QED BY <1>1, <2>1
<1>3. start + age < END
  <2>1. SUFFICES ASSUME start + age >= END PROVE FALSE
    OBVIOUS
  <2>2. 0 \in Seen
    <3>1. PICK k \in 0..age : start + k = END
      BY <2>1, END - start \in 0..age
    <3>2. start + k - END = 0 /\ ~(start + k < END)
      BY <3>1
    <3>3. (start + k) % END = start + k - END /\ (start + k) % END \in Seen
      BY <3>2, SeenAt
    <3> QED BY <3>2, <3>3
  <2>3. END - 1 \in Seen
    <3>1. PICK k \in 0..age : start + k = END - 1
      BY <2>1, END - 1 - start \in 0..age
    <3>2. (start + k) % END = END - 1 /\ (start + k) % END \in Seen
      BY <3>1, SeenAt
    <3> QED BY <3>2
  <2>4. begin <= 0 /\ END - 1 <= end
    BY <1>1, <2>2, <2>3
  <2>5. Interval = 0..(END - 1)
    BY <1>1, <2>4
  <2> QED BY <2>5
<1>4. start + age <= end
  BY <1>1, <1>3, SeenAt
<1> QED BY <1>2, <1>3, <1>4 DEF Steady

\* If the interval holds nothing of what the counter was during a call, all of
\* it is below or all of it above, unless the counter has started again.
LEMMA OutsideIsBelowOrAbove ==
  ASSUME TypeInv, CallInv, pc \in InBetween,
         Seen \intersect Interval = {}, start + age < END
  PROVE  Below \/ Above
<1> USE TimerAssumption DEF TypeInv
<1>1. /\ begin < end
      /\ Interval = {c \in 0..(END - 1) : begin <= c /\ c <= end}
  BY IntervalOrder DEF Interval, Between
<1>2. CASE start < begin
  <2>1. SUFFICES ASSUME start + age >= begin PROVE FALSE
    BY <1>2 DEF Below
  <2>2. begin \in Seen
    <3>1. PICK k \in 0..age : start + k = begin
      BY <1>2, <2>1, begin - start \in 0..age
    <3>2. start + k < END
      BY <3>1, <2>1
    <3>3. (start + k) % END = begin /\ (start + k) % END \in Seen
      BY <3>1, <3>2, SeenAt
    <3> QED BY <3>3
  <2>3. begin \in Interval
    BY <1>1, <2>1
  <2> QED BY <2>2, <2>3
<1>3. CASE start >= begin
  <2>1. start \in Seen
    BY SeenAt
  <2> QED BY <1>1, <1>3, <2>1 DEF Above
<1> QED BY <1>2, <1>3

-----------------------------------------------------------------------------
(* timer3_tick_raw_between.                                                  *)

\* A call that has not seen a restart: the counter is where it began, and as
\* much further as it has counted since.
LEMMA CounterMoved ==
  ASSUME TypeInv, ClockInv, pc # "idle", start + age < END
  PROVE  count = start + age
BY TimerAssumption, Restart DEF TypeInv, ClockInv

\* How the bytes of the counter compare with those of a number.
LEMMA BytesCompare ==
  ASSUME NEW c \in Nat, NEW x \in Nat
  PROVE  /\ H(c) \in Nat /\ H(x) \in Nat /\ L(c) \in Nat /\ L(x) \in Nat
         /\ H(c) > H(x) => c > x
         /\ H(c) < H(x) => c < x
         /\ H(c) = H(x) => (c >= x <=> L(c) >= L(x))
         /\ H(c) = H(x) => (c > x <=> L(c) > L(x))
<1>1. /\ H(c) \in Nat /\ H(x) \in Nat /\ L(c) \in Nat /\ L(x) \in Nat
  BY Bytes, TimerAssumption
<1>2. H(c) > H(x) => c > x
  BY <1>1, HighOrder
<1>3. H(c) < H(x) => c < x
  BY <1>1, HighOrder
<1>4. H(c) = H(x) => (c >= x <=> L(c) >= L(x)) /\ (c > x <=> L(c) > L(x))
  BY <1>1, LowOrder
<1> QED BY <1>1, <1>2, <1>3, <1>4

\* A comparison that returns, and one that reads on.
Returned ==
  /\ pc' = "idle"
  /\ begin' = 0 /\ end' = 0 /\ high' = 0 /\ low' = 0 /\ start' = 0 /\ age' = 0
  /\ UNCHANGED <<count, tick>>
ReadsOn ==
  UNCHANGED <<count, begin, end, high, low, tick, between, start, age>>

\* The three outcomes of timer3_tick_ge and timer3_tick_le.
Continues == pc' = "le_high" /\ ReadsOn
Refuses == between' = FALSE /\ Returned
Accepts == between' = TRUE /\ Returned

\* What timer3_tick_raw_between does with the result of timer3_tick_ge in an
\* interval that does not go over the end of the counter.
LEMMA GeResult ==
  ASSUME begin < end, NEW v \in BOOLEAN, ge(v)
  PROVE  IF v THEN Continues ELSE Refuses
<1>1. CASE v = TRUE
  BY <1>1, (begin < end) = TRUE DEF ge, then, Continues, ReadsOn
<1>2. CASE v = FALSE
  BY <1>2, (begin < end) = TRUE DEF ge, le, leave, Refuses, Returned
<1> QED BY <1>1, <1>2

\* ... and with that of timer3_tick_le.
LEMMA LeResult ==
  ASSUME NEW v \in BOOLEAN, le(v)
  PROVE  IF v THEN Accepts ELSE Refuses
<1>1. CASE v = TRUE
  BY <1>1 DEF le, leave, Accepts, Returned
<1>2. CASE v = FALSE
  BY <1>2 DEF le, leave, Refuses, Returned
<1> QED BY <1>1, <1>2

\* The registers are the bytes of the counter.
LEMMA Registers ==
  /\ T3_COUNT_H = H(count) /\ T3_COUNT_L = L(count)
  /\ begin \div LOW = H(begin) /\ begin % LOW = L(begin)
  /\ end \div LOW = H(end) /\ end % LOW = L(end)
BY DEF H, L, T3_COUNT_H, T3_COUNT_L

\* Each register read of timer3_tick_ge, and what it decides.
LEMMA GeHigh ==
  ASSUME begin < end, ge_high
  PROVE  /\ pc = "ge_high"
         /\ \/ H(count) = H(begin) /\ pc' = "ge_low" /\ ReadsOn
            \/ H(count) # H(begin) /\ H(count) > H(begin) /\ Continues
            \/ H(count) # H(begin) /\ ~(H(count) > H(begin)) /\ Refuses
<1>1. CASE H(count) = H(begin)
  BY <1>1, Registers DEF ge_high, then, ReadsOn
<1>2. CASE H(count) # H(begin)
  <2>1. PICK v \in BOOLEAN : v = (H(count) > H(begin))
    BY (H(count) > H(begin)) \in BOOLEAN
  <2>2. pc = "ge_high" /\ ge(v)
    BY <1>2, <2>1, Registers DEF ge_high
  <2> QED BY <1>2, <2>1, <2>2, GeResult
<1> QED BY <1>1, <1>2

\* The outcomes of the four reads: the low byte of begin,
LEMMA GeLow ==
  ASSUME begin < end, ge_low
  PROVE  /\ pc = "ge_low"
         /\ \/ L(count) >= L(begin) /\ Continues
            \/ ~(L(count) >= L(begin)) /\ pc' = "ge_check" /\ ReadsOn
<1>1. CASE L(count) >= L(begin)
  <2>1. ge(TRUE)
    BY <1>1, Registers DEF ge_low
  <2> QED BY <1>1, <2>1, GeResult DEF ge_low
<1>2. CASE ~(L(count) >= L(begin))
  BY <1>2, Registers DEF ge_low, then, ReadsOn
<1> QED BY <1>1, <1>2

\* the high byte read again,
LEMMA GeCheck ==
  ASSUME begin < end, ge_check
  PROVE  /\ pc = "ge_check"
         /\ \/ H(count) > H(begin) /\ Continues
            \/ ~(H(count) > H(begin)) /\ Refuses
<1>1. PICK v \in BOOLEAN : v = (H(count) > H(begin))
  BY (H(count) > H(begin)) \in BOOLEAN
<1>2. pc = "ge_check" /\ ge(v)
  BY <1>1, Registers DEF ge_check
<1> QED BY <1>1, <1>2, GeResult

\* ... and of timer3_tick_le.
LEMMA LeHigh ==
  ASSUME le_high
  PROVE  /\ pc = "le_high"
         /\ \/ H(count) = H(end) /\ pc' = "le_low" /\ ReadsOn
            \/ H(count) # H(end) /\ H(count) < H(end) /\ Accepts
            \/ H(count) # H(end) /\ ~(H(count) < H(end)) /\ Refuses
<1>1. CASE H(count) = H(end)
  BY <1>1, Registers DEF le_high, then, ReadsOn
<1>2. CASE H(count) # H(end)
  <2>1. PICK v \in BOOLEAN : v = (H(count) < H(end))
    BY (H(count) < H(end)) \in BOOLEAN
  <2>2. pc = "le_high" /\ le(v)
    BY <1>2, <2>1, Registers DEF le_high
  <2> QED BY <1>2, <2>1, <2>2, LeResult
<1> QED BY <1>1, <1>2

\* the low byte of end,
LEMMA LeLow ==
  ASSUME le_low
  PROVE  /\ pc = "le_low"
         /\ \/ L(count) > L(end) /\ Refuses
            \/ ~(L(count) > L(end)) /\ pc' = "le_check" /\ ReadsOn
<1>1. CASE L(count) > L(end)
  <2>1. le(FALSE)
    BY <1>1, Registers DEF le_low
  <2> QED BY <1>1, <2>1, LeResult DEF le_low
<1>2. CASE ~(L(count) > L(end))
  BY <1>2, Registers DEF le_low, then, ReadsOn
<1> QED BY <1>1, <1>2

\* and its high byte read again.
LEMMA LeCheck ==
  ASSUME le_check
  PROVE  /\ pc = "le_check"
         /\ \/ H(count) <= H(end) /\ Accepts
            \/ ~(H(count) <= H(end)) /\ Refuses
<1>1. PICK v \in BOOLEAN : v = (H(count) <= H(end))
  BY (H(count) <= H(end)) \in BOOLEAN
<1>2. pc = "le_check" /\ le(v)
  BY <1>1, Registers DEF le_check
<1> QED BY <1>1, <1>2, LeResult

\* A comparison belongs to timer3_tick_raw_between; it either returns or reads
\* on, and the counter stands still.
LEMMA CompareEffect ==
  ASSUME TypeInv, CallInv, Compares
  PROVE  /\ pc \in InBetween /\ begin < end
         /\ \/ Refuses \/ Accepts
            \/ pc' \in InBetween /\ ReadsOn
<1>1. pc \in InBetween
  BY DEF Compares, InBetween, ge_high, ge_low, ge_check, le_high, le_low, le_check
<1>2. begin < end
  BY <1>1, IntervalOrder
<1> QED
  BY <1>1, <1>2, GeHigh, GeLow, GeCheck, LeHigh, LeLow, LeCheck
     DEF Compares, Continues, InBetween

\* A comparison does only one of these.
LEMMA OneResult ==
  /\ Refuses => ~Accepts /\ ~Continues /\ pc' = "idle"
  /\ Accepts => ~Refuses /\ ~Continues /\ pc' = "idle"
  /\ Continues => pc' = "le_high"
BY DEF Refuses, Accepts, Continues, Returned

\* While the counter has always been in the interval no comparison refuses.
LEMMA SteadyStep ==
  ASSUME TypeInv, CallInv, ClockInv, SteadyInv, Steady, Compares
  PROVE  /\ ~Refuses
         /\ pc' = "ge_check" => H(count) > H(begin)
         /\ pc' = "le_low" => H(count) >= H(end)
<1>1. pc \in InBetween /\ begin < end
  BY CompareEffect
<1>2. /\ count \in Nat /\ begin \in Nat /\ end \in Nat
      /\ begin <= count /\ count <= end
  BY <1>1, CounterMoved, TimerAssumption DEF TypeInv, Steady, InBetween
<1>3. /\ H(count) \in Nat /\ H(begin) \in Nat /\ L(count) \in Nat /\ L(begin) \in Nat
      /\ H(count) >= H(begin)
      /\ H(count) = H(begin) => L(count) >= L(begin)
  BY <1>2, BytesCompare
<1>4. /\ H(end) \in Nat /\ L(end) \in Nat
      /\ H(count) <= H(end)
      /\ H(count) = H(end) => L(count) <= L(end)
  BY <1>2, BytesCompare
<1>5. CASE ge_high
  BY <1>1, <1>3, <1>5, GeHigh, OneResult
<1>6. CASE ge_low
  BY <1>1, <1>3, <1>6, GeLow, OneResult
<1>7. CASE ge_check
  BY <1>1, <1>3, <1>7, GeCheck, OneResult DEF SteadyInv
<1>8. CASE le_high
  BY <1>3, <1>4, <1>8, LeHigh, OneResult
<1>9. CASE le_low
  BY <1>3, <1>4, <1>9, LeLow, OneResult DEF SteadyInv
<1>10. CASE le_check
  BY <1>3, <1>4, <1>10, LeCheck, OneResult
<1> QED BY <1>5, <1>6, <1>7, <1>8, <1>9, <1>10 DEF Compares

\* While it has always been below none accepts, and timer3_tick_le is not
\* asked.
LEMMA BelowStep ==
  ASSUME TypeInv, CallInv, ClockInv, BelowInv, Below, Compares
  PROVE  /\ ~Accepts
         /\ pc' \notin {"le_high", "le_low", "le_check"}
         /\ pc' = "ge_low" => H(count) >= H(begin)
<1>1. pc \in InBetween /\ begin < end
  BY CompareEffect
<1>2. count \in Nat /\ begin \in Nat /\ count < begin
  BY <1>1, CounterMoved, TimerAssumption DEF TypeInv, Below, InBetween
<1>3. /\ H(count) \in Nat /\ H(begin) \in Nat /\ L(count) \in Nat /\ L(begin) \in Nat
      /\ H(count) <= H(begin)
      /\ H(count) = H(begin) => L(count) < L(begin)
  BY <1>2, BytesCompare
<1>4. CASE ge_high
  BY <1>1, <1>3, <1>4, GeHigh, OneResult
<1>5. CASE ge_low
  BY <1>1, <1>3, <1>5, GeLow, OneResult DEF BelowInv
<1>6. CASE ge_check
  BY <1>1, <1>3, <1>6, GeCheck, OneResult
<1>7. CASE le_high \/ le_low \/ le_check
  BY <1>7 DEF BelowInv, le_high, le_low, le_check
<1> QED BY <1>4, <1>5, <1>6, <1>7 DEF Compares

\* While it has always been above none accepts either.
LEMMA AboveStep ==
  ASSUME TypeInv, CallInv, ClockInv, AboveInv, Above, Compares
  PROVE  /\ ~Accepts
         /\ pc' = "le_check" => H(count) > H(end)
<1>1. pc \in InBetween /\ begin < end
  BY CompareEffect
<1>2. count \in Nat /\ end \in Nat /\ end < count
  BY <1>1, CounterMoved, TimerAssumption DEF TypeInv, Above, InBetween
<1>3. /\ H(count) \in Nat /\ H(end) \in Nat /\ L(count) \in Nat /\ L(end) \in Nat
      /\ H(count) >= H(end)
      /\ H(count) = H(end) => L(count) > L(end)
  BY <1>2, BytesCompare
<1>4. CASE ge_high
  BY <1>1, <1>4, GeHigh, OneResult
<1>5. CASE ge_low
  BY <1>1, <1>5, GeLow, OneResult
<1>6. CASE ge_check
  BY <1>1, <1>6, GeCheck, OneResult
<1>7. CASE le_high
  BY <1>3, <1>7, LeHigh, OneResult
<1>8. CASE le_low
  BY <1>3, <1>8, LeLow, OneResult
<1>9. CASE le_check
  BY <1>3, <1>9, LeCheck, OneResult DEF AboveInv
<1> QED BY <1>4, <1>5, <1>6, <1>7, <1>8, <1>9 DEF Compares

-----------------------------------------------------------------------------
(* timer3_tick_raw.                                                          *)

\* If the high byte is the same k and a ticks after the call began, the counter
\* has not started again in between, and the high byte was the same at every
\* j in between.
LEMMA SameHigh ==
  ASSUME NEW s \in 0..(END - 1), NEW a \in 0..MaxAge,
         NEW k \in 0..a, NEW j \in k..a,
         H((s + k) % END) = H((s + a) % END)
  PROVE  /\ (s + j) % END \in Nat /\ ((s + j) % END) + (a - j) = (s + a) % END
         /\ H((s + j) % END) = H((s + a) % END)
<1> USE TimerAssumption
<1>1. PICK x \in Nat, y \in Nat, z \in Nat :
        x = (s + k) % END /\ y = (s + j) % END /\ z = (s + a) % END
  <2>1. s + k \in Nat /\ s + j \in Nat /\ s + a \in Nat
    OBVIOUS
  <2> QED BY <2>1
<1>2. /\ x = IF s + k < END THEN s + k ELSE s + k - END
      /\ y = IF s + j < END THEN s + j ELSE s + j - END
      /\ z = IF s + a < END THEN s + a ELSE s + a - END
  BY <1>1, Restart
<1>3. ~(s + k < END /\ s + a >= END)
  <2>1. SUFFICES ASSUME s + k < END, s + a >= END PROVE FALSE
    OBVIOUS
  <2>2. z + LOW <= x
    BY <1>2, <2>1
  <2>3. H(z) < H(x) /\ H(z) \in Nat
    BY <2>2, HighApart, Bytes
  <2> QED BY <1>1, <2>3
<1>4. x <= y /\ y <= z /\ y + (a - j) = z
  BY <1>2, <1>3
<1>5. H(x) <= H(y) /\ H(y) <= H(z) /\ H(x) \in Nat /\ H(y) \in Nat /\ H(z) \in Nat
  BY <1>4, HighOrder, Bytes
<1>6. H(y) = H(z)
  BY <1>1, <1>5
<1> QED BY <1>1, <1>4, <1>6

\* What timer3_tick_raw returns, and where the counter is by then.
LEMMA RawResult ==
  ASSUME TypeInv, ClockInv, RawInv, raw_check, pc' = "idle"
  PROVE  /\ tick' \in Nat /\ tick' \in Seen /\ UNCHANGED count
         /\ tick' <= count /\ count <= tick' + age
<1>1. /\ pc = "raw_check" /\ high = H(count)
      /\ tick' = high * LOW + low /\ UNCHANGED count
  BY DEF raw_check, enter, leave, H, T3_COUNT_H
<1>2. PICK k \in 0..age : \E i \in k..age :
        high = H((start + k) % END) /\ low = L((start + i) % END)
  BY <1>1 DEF RawInv
<1>3. PICK j \in k..age :
        high = H((start + k) % END) /\ low = L((start + j) % END)
  BY <1>2
<1>4. count = (start + age) % END
  BY <1>1 DEF ClockInv
<1>5. PICK y \in Nat : y = (start + j) % END
  BY <1>1, <1>3, <1>4, SameHigh DEF TypeInv
<1>6. y + (age - j) = count /\ H(y) = high /\ L(y) = low
  BY <1>1, <1>3, <1>4, <1>5, SameHigh DEF TypeInv
<1>7. tick' = y
  BY <1>1, <1>6, Bytes
<1>8. y \in Seen
  BY <1>5, TimerAssumption DEF Seen, TypeInv
<1> QED BY <1>1, <1>5, <1>6, <1>7, <1>8, TimerAssumption DEF TypeInv

-----------------------------------------------------------------------------
(* DelayInv is inductive.                                                    *)

\* The invariant holds at the start.
LEMMA InitHolds == Init => DelayInv
<1> SUFFICES ASSUME Init PROVE DelayInv
  OBVIOUS
<1> USE TimerAssumption DEF Init, TimerInit
<1>1. TypeInv
  <2>1. 0 \in 0..(END - 1) /\ 0 \in 0..MaxAge /\ 0 \in 0..MaxElapsed
    BY DelaysAssumption
  <2> QED BY <2>1 DEF TypeInv
<1>2. CallInv
  BY DEF CallInv, RawReads, InBetween
<1>3. ClockInv /\ RawInv /\ SteadyInv /\ BelowInv /\ AboveInv
  BY DEF ClockInv, RawInv, SteadyInv, BelowInv, AboveInv
<1> QED BY <1>1, <1>2, <1>3 DEF DelayInv

\* Between two calls only the types and the arguments of a delay are at stake.
LEMMA IdleHolds ==
  ASSUME pc = "idle"
  PROVE  ClockInv /\ RawInv /\ SteadyInv /\ BelowInv /\ AboveInv
BY DEF ClockInv, RawInv, SteadyInv, BelowInv, AboveInv

\* The counter counts: what was read stays read, and nothing that has been
\* found out about the counter becomes wrong.
LEMMA TickKeeps ==
  ASSUME DelayInv, Tick
  PROVE  DelayInv'
<1> USE TimerAssumption
<1>1. /\ UNCHANGED <<pc, begin, end, high, low, tick, between, start, state>>
      /\ UNCHANGED <<unit, delay, delay_begin, delay_end>>
      /\ count' = (count + 1) % END
      /\ elapsed' = IF state = "RUN" \/ elapsed = MaxElapsed THEN elapsed
                    ELSE elapsed + 1
  BY DEF Tick, Count, delayVars
<1>2. age' \in 0..MaxAge /\ (pc # "idle" => age' = age + 1)
  BY DEF Tick, Count, DelayInv, TypeInv
<1>3. count' \in 0..(END - 1)
  BY <1>1 DEF DelayInv, TypeInv
<1>4. TypeInv'
  BY <1>1, <1>2, <1>3, DelaysAssumption DEF DelayInv, TypeInv
<1>5. CallInv'
  BY <1>1 DEF DelayInv, CallInv, ticks
<1>6. CASE pc = "idle"
  BY <1>1, <1>4, <1>5, <1>6 DEF DelayInv, ClockInv, RawInv, SteadyInv, BelowInv, AboveInv
<1>7. CASE pc # "idle"
  <2>1. /\ start \in 0..(END - 1) /\ age \in Nat /\ age' = age + 1 /\ age' \in 0..MaxAge
        /\ count \in Nat /\ count = (start + age) % END
    BY <1>2, <1>7 DEF DelayInv, TypeInv, ClockInv
  <2>2. /\ count = IF start + age < END THEN start + age ELSE start + age - END
        /\ (start + age') % END =
             IF start + age' < END THEN start + age' ELSE start + age' - END
    BY <2>1, Restart
  <2>3. count' = (start + age') % END
    BY <1>1, <2>1, <2>2, Restart
  <2>4. ClockInv'
    BY <1>1, <2>3 DEF ClockInv
  <2>5. RawInv'
    <3>1. 0..age \subseteq 0..age' /\ \A k \in 0..age : k..age \subseteq k..age'
      BY <2>1
    <3> QED BY <1>1, <3>1 DEF DelayInv, RawInv, H, L
  <2>6. start + age' < END =>
          /\ start + age < END /\ count' = count + 1
          /\ H(count') \in Nat /\ H(count) \in Nat /\ H(count) <= H(count')
    <3>1. ASSUME start + age' < END PROVE start + age < END /\ count' = count + 1
      BY <2>1, <2>2, <2>3, <3>1
    <3>2. PICK n \in Nat : n = count'
      BY <1>3
    <3>3. ASSUME n = count + 1
          PROVE  H(n) \in Nat /\ H(count) \in Nat /\ H(count) <= H(n)
      BY <2>1, <3>3, HighOrder, Bytes
    <3> QED BY <3>1, <3>2, <3>3
  <2>7. begin \in Nat /\ end \in Nat /\ H(begin) \in Nat /\ H(end) \in Nat
    BY Bytes DEF DelayInv, TypeInv
  <2>8. SteadyInv'
    <3>1. ASSUME Steady', pc \in {"ge_check", "le_low"}
          PROVE  /\ pc = "ge_check" => H(count') > H(begin)
                 /\ pc = "le_low" => H(count') >= H(end)
      BY <1>1, <2>1, <2>6, <2>7, <3>1 DEF DelayInv, SteadyInv, Steady
    <3> QED BY <1>1, <3>1 DEF SteadyInv, H
  <2>9. BelowInv'
    <3>1. ASSUME Below'
          PROVE  /\ pc \notin {"le_high", "le_low", "le_check"}
                 /\ pc = "ge_low" => H(count') >= H(begin)
      BY <1>1, <2>1, <2>6, <2>7, <3>1 DEF DelayInv, BelowInv, Below
    <3> QED BY <1>1, <3>1 DEF BelowInv, H
  <2>10. AboveInv'
    <3>1. ASSUME Above'
          PROVE  pc = "le_check" => H(count') > H(end)
      BY <1>1, <2>1, <2>6, <2>7, <3>1 DEF DelayInv, AboveInv, Above
    <3> QED BY <1>1, <3>1 DEF AboveInv, H
  <2> QED BY <1>4, <1>5, <2>4, <2>5, <2>8, <2>9, <2>10 DEF DelayInv
<1> QED BY <1>6, <1>7

\* A delay is asked for.
LEMMA DelayForKeeps ==
  ASSUME DelayInv, delay_us \/ delay_ms
  PROVE  DelayInv'
<1> USE TimerAssumption
<1>1. PICK u \in {"us", "ms"}, d \in Nat :
        /\ delay_for(u, d)
        /\ IF u = "ms" THEN d \in 1..SECOND ELSE d \in 1..(END - 1)
  BY DelaysAssumption, SecondAssumption DEF delay_us, delay_ms
<1>2. /\ pc = "idle" /\ pc' = "raw_high" /\ high' = 0 /\ low' = 0 /\ tick' = 0
      /\ between' = FALSE /\ start' = count /\ age' = 0
      /\ UNCHANGED <<count, begin, end>>
      /\ state' = "BEGIN" /\ unit' = u /\ delay' = d
      /\ delay_begin' = 0 /\ delay_end' = 0 /\ elapsed' = 0
  BY <1>1 DEF delay_for, timer3_tick_raw, enter
<1>3. TypeInv'
  <2>1. 0 \in 0..MaxAge /\ 0 \in 0..MaxElapsed
    BY DelaysAssumption
  <2> QED BY <1>2, <2>1 DEF DelayInv, TypeInv, RawReads
<1>4. CallInv'
  BY <1>1, <1>2 DEF CallInv, RawReads, InBetween
<1>5. ClockInv'
  BY <1>2, Restart DEF DelayInv, TypeInv, ClockInv
<1>6. RawInv' /\ SteadyInv' /\ BelowInv' /\ AboveInv'
  BY <1>2 DEF RawInv, SteadyInv, BelowInv, AboveInv
<1> QED BY <1>3, <1>4, <1>5, <1>6 DEF DelayInv

\* timer3_tick_raw reads on, or returns.
LEMMA BeginDelayKeeps ==
  ASSUME DelayInv, begin_delay
  PROVE  DelayInv'
<1> USE TimerAssumption DEF DelayInv
<1>1. /\ pc \in RawReads /\ state = "BEGIN" /\ pc \notin InBetween
      /\ UNCHANGED <<count, unit, delay, elapsed>>
      /\ UNCHANGED between \/ between' = FALSE
  BY DEF begin_delay, Reads, raw_high, raw_low, raw_check, then, enter, leave,
         delayVars, CallInv, RawReads, InBetween
<1>2. high' \in Nat /\ low' \in Nat /\ tick' \in Nat /\ begin' \in Nat /\ end' \in Nat
  <2>1. H(count) \in Nat /\ L(count) \in Nat
    BY Bytes DEF TypeInv
  <2>2. CASE raw_high \/ raw_low
    BY <2>1, <2>2 DEF raw_high, raw_low, then, T3_COUNT_H, T3_COUNT_L, H, L, TypeInv
  <2>3. CASE raw_check
    <3>1. CASE pc' = "idle"
      BY <2>3, <3>1, RawResult DEF raw_check, leave, enter
    <3>2. CASE pc' # "idle"
      BY <2>3, <3>2 DEF raw_check, leave, enter, TypeInv
    <3> QED BY <3>1, <3>2
  <2> QED BY <2>2, <2>3 DEF begin_delay, Reads
<1>3. CASE pc' = "idle"
  <2>1. /\ state' = "DELAY" /\ begin' = 0 /\ end' = 0 /\ start' = 0 /\ age' = 0
        /\ delay_begin' = timer3_tick(tick')
        /\ delay_end' = timer3_tick(tick') + delay
    BY <1>3 DEF begin_delay, Reads, raw_high, raw_low, raw_check, then, enter, leave
  <2>2. timer3_tick(tick') \in Nat
    <3>1. PICK t \in Nat : t = tick'
      BY <1>2
    <3>2. t \div MSEC \in Nat
      BY SecondAssumption, RoundDown
    <3> QED BY <3>1, <3>2 DEF timer3_tick
  <2>3. delay_begin' \in Nat /\ delay_end' \in Nat /\ delay_end' = delay_begin' + delay'
    BY <1>1, <2>1, <2>2 DEF TypeInv
  <2>4. TypeInv'
    <3>1. start' \in 0..(END - 1) /\ age' \in 0..MaxAge
      BY <1>1, <2>1 DEF TypeInv
    <3>2. between' \in BOOLEAN
      BY <1>1 DEF TypeInv
    <3> QED BY <1>1, <1>2, <3>2, <1>3, <2>1, <2>3, <3>1 DEF TypeInv
  <2>5. CallInv'
    BY <1>1, <1>3, <2>1, <2>3 DEF CallInv, RawReads, InBetween
  <2>6. ClockInv' /\ RawInv' /\ SteadyInv' /\ BelowInv' /\ AboveInv'
    BY <1>3 DEF ClockInv, RawInv, SteadyInv, BelowInv, AboveInv
  <2> QED BY <2>4, <2>5, <2>6
<1>4. CASE pc' # "idle"
  <2>1. /\ UNCHANGED <<state, delay_begin, delay_end, begin, end>>
        /\ pc' \in RawReads
        /\ \/ UNCHANGED <<start, age, tick>>
           \/ start' = count /\ age' = 0 /\ tick' = 0
    BY <1>4 DEF begin_delay, Reads, raw_high, raw_low, raw_check, then, enter, leave,
           delayVars, RawReads
  <2>2. TypeInv'
    <3>1. start' \in 0..(END - 1) /\ age' \in 0..MaxAge
      BY <1>1, <2>1 DEF TypeInv
    <3>2. between' \in BOOLEAN
      BY <1>1 DEF TypeInv
    <3> QED BY <1>1, <1>2, <3>2, <2>1, <3>1 DEF TypeInv
  <2>3. CallInv'
    BY <1>1, <2>1 DEF CallInv, RawReads, InBetween, ticks
  <2>4. ClockInv'
    BY <1>1, <2>1, Restart DEF ClockInv, TypeInv, RawReads
  <2>5. RawInv'
    <3>1. age \in Nat /\ age \in 0..age /\ count = (start + age) % END
      BY <1>1 DEF TypeInv, ClockInv, RawReads
    <3>2. CASE raw_high
      <4>1. pc' = "raw_low" /\ high' = H((start + age) % END) /\ start' = start /\ age' = age
        BY <3>1, <3>2 DEF raw_high, then, T3_COUNT_H, H
      <4> QED BY <3>1, <4>1 DEF RawInv, H
    <3>3. CASE raw_low
      <4>1. PICK k \in 0..age : high = H((start + k) % END)
        BY <3>3 DEF raw_low, RawInv
      <4>2. /\ pc' = "raw_check" /\ high' = H((start + k) % END)
            /\ low' = L((start + age) % END) /\ start' = start /\ age' = age
        BY <3>1, <3>3, <4>1 DEF raw_low, then, T3_COUNT_L, L
      <4>3. age \in k..age
        BY <3>1, <4>1
      <4> QED BY <4>1, <4>2, <4>3 DEF RawInv, H, L
    <3>4. CASE raw_check
      BY <1>4, <3>4 DEF raw_check, enter, leave, RawInv
    <3> QED BY <3>2, <3>3, <3>4 DEF begin_delay, Reads
  <2>6. SteadyInv' /\ BelowInv' /\ AboveInv'
    BY <2>1 DEF SteadyInv, BelowInv, AboveInv, RawReads
  <2> QED BY <2>2, <2>3, <2>4, <2>5, <2>6
<1> QED BY <1>3, <1>4

\* A poll begins.
LEMMA PollKeeps ==
  ASSUME DelayInv, poll
  PROVE  DelayInv'
<1> USE TimerAssumption
<1>1. /\ pc = "idle" /\ pc' = "ge_high" /\ high' = 0 /\ low' = 0 /\ tick' = 0
      /\ between' = FALSE /\ start' = count /\ age' = 0 /\ state = "DELAY"
      /\ begin' = ticks(delay_begin) /\ end' = ticks(delay_end)
      /\ UNCHANGED <<count, unit, delay, delay_begin, delay_end, state, elapsed>>
  BY DEF poll, timer3_tick_raw_between, enter, delayVars
<1>2. begin' \in Nat /\ end' \in Nat
  BY <1>1, SecondAssumption DEF ticks, DelayInv, TypeInv
<1>3. TypeInv'
  <2>1. 0 \in 0..MaxAge /\ pc' \in InBetween
    BY <1>1 DEF InBetween
  <2> QED BY <1>1, <1>2, <2>1 DEF DelayInv, TypeInv
<1>4. CallInv'
  BY <1>1 DEF DelayInv, CallInv, RawReads, InBetween, ticks
<1>5. ClockInv'
  BY <1>1, Restart DEF DelayInv, TypeInv, ClockInv
<1>6. RawInv' /\ SteadyInv' /\ BelowInv' /\ AboveInv'
  BY <1>1 DEF RawInv, SteadyInv, BelowInv, AboveInv
<1> QED BY <1>3, <1>4, <1>5, <1>6 DEF DelayInv

\* A comparison reads on, or returns.
LEMMA StateDelayKeeps ==
  ASSUME DelayInv, state_delay
  PROVE  DelayInv'
<1> USE TimerAssumption
<1>1. /\ TypeInv /\ CallInv /\ ClockInv /\ SteadyInv /\ BelowInv /\ AboveInv
      /\ Compares /\ UNCHANGED <<unit, delay, delay_begin, delay_end, elapsed>>
      /\ \/ pc' # "idle" /\ UNCHANGED state
         \/ pc' = "idle" /\ state' = IF between' THEN "DELAY" ELSE "RUN"
  BY DEF DelayInv, state_delay, delayVars
<1>2. pc \in InBetween /\ state = "DELAY"
  BY <1>1, CompareEffect DEF CallInv
<1>3. CASE Refuses \/ Accepts
  <2>1. /\ pc' = "idle" /\ between' \in BOOLEAN
        /\ begin' = 0 /\ end' = 0 /\ high' = 0 /\ low' = 0 /\ start' = 0 /\ age' = 0
        /\ UNCHANGED <<count, tick>>
    BY <1>3 DEF Refuses, Accepts, Returned
  <2>2. TypeInv'
    BY <1>1, <2>1 DEF TypeInv
  <2>3. CallInv'
    BY <1>1, <1>2, <2>1 DEF CallInv, RawReads, InBetween
  <2>4. ClockInv' /\ RawInv' /\ SteadyInv' /\ BelowInv' /\ AboveInv'
    BY <2>1 DEF ClockInv, RawInv, SteadyInv, BelowInv, AboveInv
  <2> QED BY <2>2, <2>3, <2>4 DEF DelayInv
<1>4. CASE pc' \in InBetween /\ ReadsOn
  <2>1. /\ UNCHANGED <<count, begin, end, high, low, tick, between, start, age, state>>
        /\ pc' \in InBetween
    BY <1>1, <1>4 DEF ReadsOn, InBetween
  <2>2. TypeInv'
    BY <1>1, <2>1 DEF TypeInv
  <2>3. CallInv'
    BY <1>1, <1>2, <2>1 DEF CallInv, RawReads, InBetween, ticks
  <2>4. ClockInv'
    BY <1>1, <1>2, <2>1 DEF ClockInv, InBetween
  <2>5. RawInv'
    BY <2>1 DEF RawInv, InBetween
  <2>6. SteadyInv'
    BY <1>1, <2>1, SteadyStep DEF SteadyInv, Steady, H
  <2>7. BelowInv'
    BY <1>1, <2>1, BelowStep DEF BelowInv, Below, H
  <2>8. AboveInv'
    BY <1>1, <2>1, AboveStep DEF AboveInv, Above, H
  <2> QED BY <2>2, <2>3, <2>4, <2>5, <2>6, <2>7, <2>8 DEF DelayInv
<1> QED BY <1>1, <1>3, <1>4, CompareEffect

\* Nothing happens.
LEMMA StutterKeeps ==
  ASSUME DelayInv, UNCHANGED vars
  PROVE  DelayInv'
BY DEF vars, timerVars, delayVars, DelayInv, TypeInv, CallInv, ClockInv, RawInv,
       SteadyInv, BelowInv, AboveInv, Steady, Below, Above, ticks, H, L

\* DelayInv holds in every state.
LEMMA DelayInvariant == Spec => []DelayInv
<1>1. DelayInv /\ [Next]_vars => DelayInv'
  BY TickKeeps, DelayForKeeps, BeginDelayKeeps, PollKeeps, StateDelayKeeps,
     StutterKeeps DEF Next
<1> QED BY <1>1, InitHolds, PTL DEF Spec

-----------------------------------------------------------------------------
(* What a call returns.                                                      *)

\* The steps that end a call.
LEMMA ReturnSteps ==
  ASSUME DelayInv, Next, pc # "idle", pc' = "idle"
  PROVE  /\ pc \in RawReads => raw_check
         /\ pc \in InBetween => Compares
<1>1. begin_delay \/ state_delay
  BY DEF Next, Tick, Count, delay_us, delay_ms, delay_for, poll,
         timer3_tick_raw, timer3_tick_raw_between
<1>2. pc \in RawReads => pc \notin InBetween
  BY DEF RawReads, InBetween
<1>3. CASE begin_delay
  BY <1>2, <1>3 DEF begin_delay, Reads, raw_high, raw_low, raw_check, then, RawReads
<1>4. CASE state_delay
  BY <1>2, <1>4, CompareEffect DEF state_delay, DelayInv
<1> QED BY <1>1, <1>3, <1>4

\* timer3_tick_raw and timer3_tick_raw_between return what was true at some
\* moment of the call.
LEMMA ReturnsRight ==
  ASSUME DelayInv, Next
  PROVE  RawIsCurrent /\ FalseIsRight /\ TrueIsRight
<1>1. RawIsCurrent
  <2>1. SUFFICES ASSUME pc = "raw_check", pc' = "idle" PROVE tick' \in Seen
    BY DEF RawIsCurrent, Returns
  <2>2. raw_check
    BY <2>1, ReturnSteps DEF RawReads
  <2> QED BY <2>1, <2>2, RawResult DEF DelayInv
<1>2. FalseIsRight
  <2>1. SUFFICES ASSUME pc \in InBetween, pc' = "idle", ~between',
                        Interval # 0..(END - 1), Seen \subseteq Interval
                 PROVE  FALSE
    BY DEF FalseIsRight, Returns
  <2>2. Compares
    BY <2>1, ReturnSteps DEF InBetween
  <2>3. Steady
    BY <2>1, InsideIsSteady DEF DelayInv
  <2>4. ~Refuses
    BY <2>2, <2>3, SteadyStep DEF DelayInv
  <2>5. Accepts
    BY <2>1, <2>2, <2>4, CompareEffect DEF DelayInv, InBetween
  <2> QED BY <2>1, <2>5 DEF Accepts
<1>3. TrueIsRight
  <2>1. SUFFICES ASSUME pc \in InBetween, pc' = "idle", between',
                        start + age < END, Seen \intersect Interval = {}
                 PROVE  FALSE
    BY DEF TrueIsRight, Returns
  <2>2. Compares
    BY <2>1, ReturnSteps DEF InBetween
  <2>3. Below \/ Above
    BY <2>1, OutsideIsBelowOrAbove DEF DelayInv
  <2>4. ~Accepts
    BY <2>2, <2>3, BelowStep, AboveStep DEF DelayInv
  <2>5. Refuses
    BY <2>1, <2>2, <2>4, CompareEffect DEF DelayInv, InBetween
  <2> QED BY <2>1, <2>5 DEF Refuses
<1> QED BY <1>1, <1>2, <1>3

\* What a read of the counter, a byte at a time while it goes on counting, and a
\* comparison of it with an interval return was true at some moment of the call:
\* for every width of the bytes, every MaxAge that leaves one value of the high
\* byte unseen, and every interval a delay is waited for in.
THEOREM ReadsWereRight == Spec => ReadsAreRight
<1>1. DelayInv /\ [Next]_vars =>
        [RawIsCurrent /\ FalseIsRight /\ TrueIsRight]_timerVars
  BY ReturnsRight DEF vars
<1> QED BY <1>1, DelayInvariant, PTL DEF Spec, ReadsAreRight

-----------------------------------------------------------------------------
(* How long a delay lasts.                                                   *)

\* ticks, AtLeast, Slack and timer3_tick of a delay in the unit u.
TicksOf(u, t) == IF u = "ms" THEN t * MSEC ELSE t
AtLeastOf(u, d) == IF u = "ms" THEN d * MSEC - (MSEC - 1) ELSE d
SlackOf(u) == IF u = "ms" THEN MSEC - 1 ELSE 0
TickOf(u, t) == IF u = "ms" THEN t \div MSEC ELSE t

\* The interval of a delay is as long as what was asked for, and the ticks that
\* rounding its begin down to a millisecond may have lost.
LEMMA AtLeastFits ==
  ASSUME NEW u, NEW p \in Nat, NEW d \in Nat
  PROVE  /\ TicksOf(u, p) \in Nat /\ AtLeastOf(u, d) \in Int /\ SlackOf(u) \in Nat
         /\ TicksOf(u, p + d) = TicksOf(u, p) + SlackOf(u) + AtLeastOf(u, d)
<1> USE DEF TicksOf, AtLeastOf, SlackOf
<1>1. CASE u = "ms"
  <2>1. PICK x \in Nat, y \in Nat : x = p * MSEC /\ y = d * MSEC
    BY SecondAssumption
  <2>2. (p + d) * MSEC = p * MSEC + d * MSEC
    BY SecondAssumption
  <2>3. /\ TicksOf(u, p) = x /\ TicksOf(u, p + d) = x + y
        /\ AtLeastOf(u, d) = y - (MSEC - 1) /\ SlackOf(u) = MSEC - 1
    BY <1>1, <2>1, <2>2
  <2> QED BY <2>1, <2>3, SecondAssumption
<1>2. CASE u # "ms"
  BY <1>2
<1> QED BY <1>1, <1>2

\* The begin of a delay is rounded down by at most that much.
LEMMA BeginFits ==
  ASSUME NEW t \in Nat, NEW u
  PROVE  /\ TickOf(u, t) \in Nat
         /\ TicksOf(u, TickOf(u, t)) <= t
         /\ t <= TicksOf(u, TickOf(u, t)) + SlackOf(u)
<1> USE DEF TicksOf, TickOf, SlackOf
<1>1. CASE u = "ms"
  <2>1. TickOf(u, t) = t \div MSEC /\ SlackOf(u) = MSEC - 1
    BY <1>1
  <2>2. TicksOf(u, TickOf(u, t)) = (t \div MSEC) * MSEC
    BY <1>1
  <2> QED BY <2>1, <2>2, RoundDown, SecondAssumption
<1>2. CASE u # "ms"
  BY <1>2
<1> QED BY <1>1, <1>2

\* ... for the delay that is waited for.
LEMMA DelayFits ==
  ASSUME DelayInv, state = "DELAY"
  PROVE  /\ ticks(delay_begin) \in Nat /\ AtLeast \in Int /\ Slack \in Nat
         /\ ticks(delay_end) = ticks(delay_begin) + Slack + AtLeast
<1>1. delay_begin \in Nat /\ delay \in Nat /\ delay_end = delay_begin + delay
  BY DEF DelayInv, TypeInv, CallInv
<1>2. /\ ticks(delay_begin) = TicksOf(unit, delay_begin)
      /\ ticks(delay_end) = TicksOf(unit, delay_begin + delay)
      /\ AtLeast = AtLeastOf(unit, delay) /\ Slack = SlackOf(unit)
  BY <1>1 DEF ticks, AtLeast, Slack, TicksOf, AtLeastOf, SlackOf
<1> QED BY <1>1, <1>2, AtLeastFits

\* The counter counts on: a delay that is still too short stays in its interval.
LEMMA TickKeepsLong ==
  ASSUME MaxElapsed >= END, DelayInv, LongInv, Tick
  PROVE  LongInv'
<1> USE TimerAssumption, DelaysAssumption
<1>1. /\ UNCHANGED <<pc, start, state, unit, delay, delay_begin, delay_end>>
      /\ count' = (count + 1) % END
      /\ age' = IF pc = "idle" THEN 0 ELSE age + 1
      /\ elapsed' = IF state = "RUN" \/ elapsed = MaxElapsed THEN elapsed
                    ELSE elapsed + 1
  BY DEF Tick, Count, delayVars
<1>2. /\ count \in 0..(END - 1) /\ start \in 0..(END - 1) /\ age \in Nat
      /\ elapsed \in 0..MaxElapsed
  BY DEF DelayInv, TypeInv
<1>3. AgeInv'
  BY <1>1, <1>2 DEF LongInv, AgeInv, DelayInv, CallInv, RawReads
<1>4. SUFFICES ASSUME state = "DELAY", WithinSecond, elapsed' < AtLeast
      PROVE  /\ ticks(delay_begin) <= count'
             /\ count' <= ticks(delay_begin) + Slack + elapsed'
             /\ pc \in InBetween =>
                  start + age' < END /\ ticks(delay_begin) <= start
  BY <1>1, <1>3 DEF LongInv, WaitInv, WithinSecond, AtLeast, Slack, ticks
<1>5. PICK b \in Nat, a \in Int, s \in Nat :
        /\ b = ticks(delay_begin) /\ a = AtLeast /\ s = Slack
        /\ ticks(delay_end) = b + s + a
  BY <1>4, DelayFits
<1>6. a < END /\ b + s + a < END
  BY <1>4, <1>5 DEF WithinSecond
<1>7. elapsed' = elapsed + 1 /\ elapsed < a
  BY <1>1, <1>2, <1>4, <1>5, <1>6
<1>8. /\ b <= count /\ count <= b + s + elapsed
      /\ pc \in InBetween => start + age < END /\ b <= start
  BY <1>4, <1>5, <1>7 DEF LongInv, WaitInv
<1>9. count + 1 < END
  BY <1>2, <1>5, <1>6, <1>7, <1>8
<1>10. count' = count + 1
  BY <1>1, <1>2, <1>9, Restart
<1>11. ASSUME pc \in InBetween PROVE start + age' < END
  <2>1. count = start + age
    BY <1>8, <1>11, CounterMoved DEF DelayInv, InBetween
  <2> QED BY <1>1, <1>2, <1>9, <1>11, <2>1 DEF InBetween
<1> QED BY <1>2, <1>5, <1>7, <1>8, <1>10, <1>11

\* The delay begins: the counter is no further than the time since it was asked
\* for allows.
LEMMA BeginKeepsLong ==
  ASSUME MaxElapsed >= END, DelayInv, LongInv, begin_delay
  PROVE  LongInv'
<1> USE TimerAssumption, DelaysAssumption
<1>1. pc \in RawReads /\ state = "BEGIN" /\ UNCHANGED <<unit, delay, elapsed>>
  BY DEF begin_delay, Reads, raw_high, raw_low, raw_check, RawReads, DelayInv,
         CallInv, delayVars
<1>2. /\ age \in Nat /\ elapsed \in 0..MaxElapsed /\ delay \in Nat
      /\ elapsed >= age \/ elapsed = MaxElapsed
  BY <1>1 DEF DelayInv, TypeInv, LongInv, AgeInv
<1>3. CASE pc' # "idle"
  <2>1. state' = "BEGIN" /\ (age' = age \/ age' = 0)
    BY <1>1, <1>3 DEF begin_delay, Reads, raw_high, raw_low, raw_check, then, enter,
           leave
  <2> QED BY <1>1, <1>2, <2>1 DEF LongInv, AgeInv, WaitInv
<1>4. CASE pc' = "idle"
  <2>1. raw_check /\ state' = "DELAY"
    BY <1>4 DEF begin_delay, Reads, raw_high, raw_low, then
  <2>2. PICK t \in Nat :
          t = tick' /\ t <= count' /\ count' <= t + age /\ count' \in Nat
    BY <1>4, <2>1, RawResult DEF DelayInv, TypeInv
  <2>3. PICK p \in Nat : p = TickOf(unit, t)
    BY BeginFits
  <2>4. delay_begin' = p /\ delay_end' = p + delay
    BY <1>4, <2>2, <2>3 DEF begin_delay, timer3_tick, TickOf
  <2>5. PICK b \in Nat, a \in Int, s \in Nat :
          /\ b = TicksOf(unit, p) /\ a = AtLeastOf(unit, delay) /\ s = SlackOf(unit)
          /\ TicksOf(unit, p + delay) = b + s + a
    <3>1. PICK d \in Nat : d = delay
      BY <1>2
    <3>2. /\ TicksOf(unit, p) \in Nat /\ AtLeastOf(unit, d) \in Int
          /\ SlackOf(unit) \in Nat
          /\ TicksOf(unit, p + d) = TicksOf(unit, p) + SlackOf(unit) + AtLeastOf(unit, d)
      BY AtLeastFits
    <3> QED BY <3>1, <3>2
  <2>6. b <= t /\ t <= b + s
    BY <2>3, <2>5, BeginFits
  <2>7. PICK e \in Int : e = b + s + a
    BY <2>5
  <2>8. e < END /\ elapsed < a => b <= count' /\ count' <= b + s + elapsed
    <3>1. PICK c \in Nat : c = count' /\ t <= c /\ c <= t + age
      BY <2>2
    <3>2. ASSUME e < END, elapsed < a PROVE elapsed >= age
      <4>1. a < END
        BY <2>7, <3>2
      <4> QED BY <1>2, <3>2, <4>1
    <3> QED BY <1>2, <2>6, <3>1, <3>2
  <2>9. /\ ticks(delay_begin)' = b /\ ticks(delay_end)' = e
        /\ AtLeast' = a /\ Slack' = s
    BY <1>1, <2>4, <2>5, <2>7
       DEF ticks, AtLeast, Slack, TicksOf, AtLeastOf, SlackOf
  <2>10. WaitInv'
    BY <1>1, <1>4, <2>8, <2>9 DEF WaitInv, WithinSecond, InBetween
  <2>11. AgeInv'
    BY <2>1 DEF AgeInv
  <2> QED BY <2>10, <2>11 DEF LongInv
<1> QED BY <1>3, <1>4

\* The other steps leave the counter and the interval alone.
LEMMA OthersKeepLong ==
  ASSUME MaxElapsed >= END, DelayInv, LongInv,
         delay_us \/ delay_ms \/ poll \/ state_delay \/ UNCHANGED vars
  PROVE  LongInv'
<1>1. CASE delay_us \/ delay_ms
  <2>1. PICK u, d : delay_for(u, d)
    BY <1>1 DEF delay_us, delay_ms
  <2>2. state' = "BEGIN" /\ age' = 0 /\ elapsed' = 0
    BY <2>1 DEF delay_for, timer3_tick_raw, enter
  <2> QED BY <2>2 DEF LongInv, AgeInv, WaitInv
<1>2. CASE poll
  <2>1. /\ start' = count /\ age' = 0 /\ state = "DELAY" /\ state' = "DELAY"
        /\ UNCHANGED <<count, elapsed, unit, delay, delay_begin, delay_end>>
    BY <1>2 DEF poll, timer3_tick_raw_between, enter, delayVars
  <2>2. start' + age' < END
    BY <2>1, TimerAssumption DEF DelayInv, TypeInv
  <2> QED BY <2>1, <2>2
          DEF LongInv, AgeInv, WaitInv, WithinSecond, AtLeast, Slack, ticks
<1>3. CASE state_delay
  <2>1. /\ Compares /\ UNCHANGED <<elapsed, unit, delay, delay_begin, delay_end>>
        /\ state' = state \/ pc' = "idle"
    BY <1>3 DEF state_delay, delayVars
  <2>2. /\ pc \in InBetween /\ UNCHANGED count
        /\ pc' = "idle" \/ UNCHANGED <<start, age>>
    BY <2>1, CompareEffect
       DEF DelayInv, Refuses, Accepts, Returned, ReadsOn, InBetween
  <2>3. state = "DELAY" /\ state' # "BEGIN"
    BY <1>3, <2>2 DEF DelayInv, CallInv, state_delay
  <2> QED BY <2>1, <2>2, <2>3
          DEF LongInv, AgeInv, WaitInv, WithinSecond, AtLeast, Slack, ticks, InBetween
<1>4. CASE UNCHANGED vars
  BY <1>4 DEF vars, timerVars, delayVars, LongInv, AgeInv, WaitInv, WithinSecond, AtLeast,
         Slack, ticks
<1> QED BY <1>1, <1>2, <1>3, <1>4

\* A poll that ends a delay finds the counter outside the interval, so the delay
\* has lasted.
LEMMA EndsLate ==
  ASSUME DelayInv, LongInv, Next, state = "DELAY", state' = "RUN", WithinSecond
  PROVE  elapsed >= AtLeast
<1>1. SUFFICES ASSUME elapsed < AtLeast PROVE FALSE
  BY DelayFits DEF DelayInv, TypeInv
<1>2. Compares /\ pc' = "idle" /\ between' # TRUE
  <2>1. ~begin_delay
    BY DEF begin_delay, Reads, raw_high, raw_low, raw_check, DelayInv, CallInv, RawReads
  <2> QED BY <2>1 DEF Next, Tick, delay_us, delay_ms, delay_for, poll, state_delay
<1>3. pc \in InBetween /\ Refuses
  BY <1>2, CompareEffect DEF DelayInv, InBetween, Accepts
<1>4. /\ begin = ticks(delay_begin) /\ end = ticks(delay_end)
      /\ start + age < END /\ ticks(delay_begin) <= start
      /\ count <= ticks(delay_begin) + Slack + elapsed
  BY <1>1, <1>3 DEF DelayInv, CallInv, LongInv, WaitInv
<1>5. count = start + age
  BY <1>3, <1>4, CounterMoved DEF DelayInv, InBetween
<1>6. Steady
  BY <1>1, <1>4, <1>5, DelayFits DEF Steady, DelayInv, TypeInv
<1> QED BY <1>2, <1>3, <1>6, SteadyStep DEF DelayInv

\* A delay that is over before the counter starts again is not short in ticks, and
\* in milliseconds by less than one of them, however late and however often it is
\* polled and however the counter moves between the reads of its bytes.
\* MaxElapsed only bounds the history variable the property is stated with.
THEOREM DelaysLast ==
  ASSUME MaxElapsed >= END
  PROVE  Spec => AtMostOneMsecShort
<1>1. Init => LongInv
  BY TimerAssumption, DelaysAssumption DEF Init, TimerInit, LongInv, AgeInv, WaitInv
<1>2. DelayInv /\ LongInv /\ [Next]_vars => LongInv'
  BY TickKeepsLong, BeginKeepsLong, OthersKeepLong DEF Next
<1>3. DelayInv /\ LongInv /\ [Next]_vars =>
        [state = "DELAY" /\ state' = "RUN" /\ WithinSecond => elapsed >= AtLeast]_vars
  BY EndsLate
<1> QED BY <1>1, <1>2, <1>3, DelayInvariant, PTL DEF Spec, AtMostOneMsecShort

=============================================================================
