------------------------------- MODULE Timer3 -------------------------------
(***************************************************************************)
(* Reading the timer of chlib: src/timer3.c.  The counter runs from 0 to   *)
(* END - 1 and starts again, once per second; the program can read it only *)
(* a byte at a time (T3_COUNT_H, T3_COUNT_L) while it goes on counting.    *)
(* Every register read is a step.  Module Delay makes the calls.           *)
(***************************************************************************)
EXTENDS Naturals

CONSTANTS
  LOW,     \* values of T3_COUNT_L (256)
  END,     \* T3_END (16000)
  MaxAge   \* bound: how far the counter gets during one call or one try

ASSUME TimerAssumption ==
  /\ LOW \in Nat \ {0} /\ END \in Nat /\ LOW < END
  /\ MaxAge \in Nat /\ MaxAge < END - LOW

VARIABLES
  count,        \* the counter
  pc,           \* the register read that comes next
  begin, end,   \* arguments; timer3_tick_ge compares with begin, _le with end
  high, low,    \* the bytes timer3_tick_raw has read
  tick,         \* what the last timer3_tick_raw has returned
  between,      \* what the last timer3_tick_raw_between has returned
  start, age    \* history: the counter when the call began, ticks since

timerVars == <<count, pc, begin, end, high, low, tick, between, start, age>>

T3_COUNT_H == count \div LOW
T3_COUNT_L == count % LOW

TimerInit ==
  /\ count \in 0..(END - 1) /\ pc = "idle"
  /\ begin = 0 /\ end = 0 /\ high = 0 /\ low = 0
  /\ tick = 0 /\ between = FALSE
  /\ start = 0 /\ age = 0

\* The counter counts, whatever the program does.
Count ==
  /\ pc # "idle" => age < MaxAge
  /\ count' = (count + 1) % END
  /\ age' = IF pc = "idle" THEN 0 ELSE age + 1
  /\ UNCHANGED <<pc, begin, end, high, low, tick, between, start>>

\* A call, or a new try of timer3_tick_raw, begins: nothing is read yet.
enter(first) ==
  /\ pc' = first
  /\ high' = 0 /\ low' = 0 /\ tick' = 0 /\ between' = FALSE
  /\ start' = count /\ age' = 0
  /\ UNCHANGED count

\* The values of a call that is over are forgotten.
leave ==
  /\ pc' = "idle"
  /\ begin' = 0 /\ end' = 0 /\ high' = 0 /\ low' = 0
  /\ start' = 0 /\ age' = 0
  /\ UNCHANGED count

\* The next register read follows.
then(next) ==
  /\ pc' = next
  /\ UNCHANGED <<count, begin, end, tick, between, start, age>>

-----------------------------------------------------------------------------
(* timer3_tick_raw: high, low, and high again until both are the same *)

timer3_tick_raw ==
  pc = "idle" /\ enter("raw_high") /\ UNCHANGED <<begin, end>>

raw_high ==
  pc = "raw_high" /\ high' = T3_COUNT_H /\ UNCHANGED low /\ then("raw_low")

raw_low ==
  pc = "raw_low" /\ low' = T3_COUNT_L /\ UNCHANGED high /\ then("raw_check")

\* Mutant: the second read of the high byte is left out.
raw_no_check ==
  /\ pc = "raw_check"
  /\ tick' = high * LOW + low
  /\ leave /\ UNCHANGED between

raw_check ==
  /\ pc = "raw_check"
  /\ \/ /\ high = T3_COUNT_H
        /\ tick' = high * LOW + low
        /\ leave /\ UNCHANGED between
     \/ /\ high # T3_COUNT_H
        /\ enter("raw_high") /\ UNCHANGED <<begin, end>>

-----------------------------------------------------------------------------
(* timer3_tick_raw_between: if begin < end both comparisons must hold, in an *)
(* interval over the end of the counter one of them.                         *)

timer3_tick_raw_between(b, e) ==
  /\ pc = "idle"
  /\ begin' = b /\ end' = e
  /\ enter("ge_high")

\* timer3_tick_le(end) has returned v.
le(v) == between' = v /\ leave /\ UNCHANGED tick

\* Mutant: one comparison is enough in every interval.
ge_or(v) == IF v THEN le(v) ELSE then("le_high") /\ UNCHANGED <<high, low>>

\* timer3_tick_ge(begin) has returned v; && and || may skip timer3_tick_le.
ge(v) ==
  IF v = (begin < end)
  THEN then("le_high") /\ UNCHANGED <<high, low>>
  ELSE le(v)

ge_high ==
  /\ pc = "ge_high"
  /\ IF T3_COUNT_H = begin \div LOW
     THEN then("ge_low") /\ UNCHANGED <<high, low>>
     ELSE ge(T3_COUNT_H > begin \div LOW)

ge_low ==
  /\ pc = "ge_low"
  /\ IF T3_COUNT_L >= begin % LOW
     THEN ge(TRUE)
     ELSE then("ge_check") /\ UNCHANGED <<high, low>>

\* Mutant: the byte that just was equal is compared with >=.
ge_check_inclusive ==
  pc = "ge_check" /\ ge(T3_COUNT_H >= begin \div LOW)

ge_check ==
  pc = "ge_check" /\ ge(T3_COUNT_H > begin \div LOW)

le_high ==
  /\ pc = "le_high"
  /\ IF T3_COUNT_H = end \div LOW
     THEN then("le_low") /\ UNCHANGED <<high, low>>
     ELSE le(T3_COUNT_H < end \div LOW)

\* Mutant: the end does not belong to the interval.
le_low_exclusive ==
  /\ pc = "le_low"
  /\ IF T3_COUNT_L >= end % LOW
     THEN le(FALSE)
     ELSE then("le_check") /\ UNCHANGED <<high, low>>

le_low ==
  /\ pc = "le_low"
  /\ IF T3_COUNT_L > end % LOW
     THEN le(FALSE)
     ELSE then("le_check") /\ UNCHANGED <<high, low>>

le_check ==
  pc = "le_check" /\ le(T3_COUNT_H <= end \div LOW)

Reads == raw_high \/ raw_low \/ raw_check
Compares == ge_high \/ ge_low \/ ge_check \/ le_high \/ le_low \/ le_check

-----------------------------------------------------------------------------
(* Properties *)

\* The values the counter had during the call, or the last try.
Seen == {(start + k) % END : k \in 0..age}

Returns(last) == pc \in last /\ pc' = "idle"

(* timer3_tick_raw returns a value the counter really had during the call,   *)
(* although it reads two bytes of a moving counter.                          *)
RawIsCurrent == Returns({"raw_check"}) => tick' \in Seen

Between(b, e) ==
  {c \in 0..(END - 1) : IF b < e THEN b <= c /\ c <= e ELSE b <= c \/ c <= e}

Interval == Between(begin, end)
InBetween == {"ge_high", "ge_low", "ge_check", "le_high", "le_low", "le_check"}

(* timer3_tick_raw_between returns false only if the counter was outside the *)
(* (inclusive) interval at some moment of the call: no delay ends because a  *)
(* byte changed between two reads.  An interval that holds every value is no *)
(* interval to wait in and left out.                                         *)
FalseIsRight ==
  /\ Returns(InBetween) /\ ~between' /\ Interval # 0..(END - 1)
  => ~(Seen \subseteq Interval)

(* It returns true only if the counter was inside at some moment, unless the *)
(* counter started again during the call.                                    *)
TrueIsRight ==
  Returns(InBetween) /\ between' /\ start + age < END => Seen \cap Interval # {}

(* What a call returns was true at some moment of it.                        *)
ReadsAreRight == [][RawIsCurrent /\ FalseIsRight /\ TrueIsRight]_timerVars

=============================================================================
