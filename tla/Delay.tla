------------------------------- MODULE Delay -------------------------------
(***************************************************************************)
(* The delays of the USB host: delay_us, delay_ms, state_delay_us and      *)
(* state_delay_ms of src/usb/usb_host.c, on the timer of src/timer3.c that *)
(* they read a byte at a time (module Timer3).  A delay ends when a poll   *)
(* finds the counter outside the interval the delay was begun with; the    *)
(* counter starts again every second.                                      *)
(***************************************************************************)
EXTENDS Timer3

CONSTANTS
  MSEC,       \* ticks per millisecond (16)
  SECOND,     \* milliseconds until the counter starts again (1000)
  Delays,     \* the milliseconds delay_ms is called with
  Ticks,      \* timer3_tick_from_usec() of what delay_us is called with
  MaxElapsed  \* bound: the time of a delay is counted up to here

ASSUME SecondAssumption ==
  MSEC \in Nat \ {0} /\ SECOND \in Nat \ {0} /\ END = MSEC * SECOND
ASSUME DelaysAssumption ==
  /\ Delays \subseteq 1..SECOND /\ Ticks \subseteq 1..(END - 1)
  /\ MaxElapsed \in Nat

VARIABLES
  state,                   \* "RUN", "BEGIN" in delay_us or delay_ms, "DELAY"
  unit, delay,             \* "us" or "ms", and the argument
  delay_begin, delay_end,
  elapsed                  \* history: the ticks since the delay was asked for

delayVars == <<unit, delay, delay_begin, delay_end>>
vars == <<timerVars, delayVars, state, elapsed>>

Init ==
  /\ TimerInit
  /\ state = "RUN" /\ unit = "us" /\ delay = 0
  /\ delay_begin = 0 /\ delay_end = 0 /\ elapsed = 0

Tick ==
  /\ Count
  /\ elapsed' = IF state = "RUN" \/ elapsed = MaxElapsed THEN elapsed
                ELSE elapsed + 1
  /\ UNCHANGED <<delayVars, state>>

delay_for(u, d) ==
  /\ state = "RUN" /\ state' = "BEGIN"
  /\ timer3_tick_raw
  /\ unit' = u /\ delay' = d /\ delay_begin' = 0 /\ delay_end' = 0
  /\ elapsed' = 0

delay_us == \E d \in Ticks : delay_for("us", d)
delay_ms == \E d \in Delays : delay_for("ms", d)

\* timer3_tick_msec rounds down.
timer3_tick(t) == IF unit = "ms" THEN t \div MSEC ELSE t

begin_delay ==
  /\ Reads
  /\ \/ pc' # "idle" /\ UNCHANGED <<delayVars, state, elapsed>>
     \/ /\ pc' = "idle" /\ state' = "DELAY"
        /\ delay_begin' = timer3_tick(tick')
        /\ delay_end' = timer3_tick(tick') + delay
        /\ UNCHANGED <<unit, delay, elapsed>>

\* Mutant: the counter is compared in ticks, not in milliseconds.
msec_as_ticks(t) == t

\* timer3_tick_msec_between compares ticks.
ticks(t) == IF unit = "ms" THEN t * MSEC ELSE t

poll ==
  /\ state = "DELAY"
  /\ timer3_tick_raw_between(ticks(delay_begin), ticks(delay_end))
  /\ UNCHANGED <<delayVars, state, elapsed>>

\* state_delay_us, state_delay_ms
state_delay ==
  /\ Compares
  /\ \/ pc' # "idle" /\ UNCHANGED state
     \/ pc' = "idle" /\ state' = IF between' THEN "DELAY" ELSE "RUN"
  /\ UNCHANGED <<delayVars, elapsed>>

Next == Tick \/ delay_us \/ delay_ms \/ begin_delay \/ poll \/ state_delay

Spec == Init /\ [][Next]_vars

\* The counter counts, a call reads on, and the port is polled for ever.  Calls
\* take little of a second: whatever the counter is, it is sooner or later
\* that between two polls, and a poll follows at once.
PollOutside ==
  /\ poll /\ count + MaxAge < END
  /\ (count..(count + MaxAge))
       \cap Between(ticks(delay_begin), ticks(delay_end)) = {}

Fairness ==
  /\ WF_vars(Tick) /\ WF_vars(begin_delay) /\ WF_vars(state_delay)
  /\ SF_vars(PollOutside)
  /\ \A c \in 0..(END - 1) : []<>(pc = "idle" /\ count = c)

FairSpec == Spec /\ Fairness

-----------------------------------------------------------------------------
(* Properties *)

\* One tick more than delay - 1 milliseconds for delay_ms, whose begin is
\* rounded down to a millisecond, and the whole delay for delay_us.
AtLeast == IF unit = "ms" THEN delay * MSEC - (MSEC - 1) ELSE delay

\* The delay is over before the counter starts again.
WithinSecond == ticks(delay_end) < END

(* delay_us waits at least as long as it was asked to.  delay_ms does not:   *)
(* its begin is rounded down, and it may end early, but by less than one     *)
(* millisecond, however the counter moves between the reads of its bytes.    *)
(* So the 15 ms of state_get_device_desc_recv may be little more than 14,    *)
(* where state_connect wants "(>15ms)".  This is about delays that are over  *)
(* before the counter starts again; one that spans the restart ends with it, *)
(* earlier by any amount.                                                    *)
AtMostOneMsecShort ==
  [][state = "DELAY" /\ state' = "RUN" /\ WithinSecond => elapsed >= AtLeast]_vars

(* A delay ends, whenever it was begun.                                      *)
DelayEnds == state # "RUN" ~> state = "RUN"

=============================================================================
