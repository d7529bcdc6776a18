----------------------------- MODULE FlashStore -----------------------------
(***************************************************************************)
(* What src/flash.c promises: one block of bytes that survives a shutdown  *)
(* at any moment.  A write replaces some of its bytes, all of them or none *)
(* (comment above flash_write: "If operations are interrupted by a         *)
(* shutdown, we can recover safely."), and is done before the call returns.*)
(***************************************************************************)
CONSTANTS
  Blocks,     \* the contents a block may have: [address -> byte]
  Requests,   \* the writes that are asked for: [some addresses -> byte]
  NoData,     \* nothing is stored
  Blank       \* the contents of a block that was just initialized

VARIABLES
  block,      \* what a reader finds, now or after the next flash_init()
  pending,    \* what the write that is going on will store, or NoData
  status      \* "idle", "writing" (may still be lost), "written", "broken"

vars == <<block, pending, status>>

Init == block \in Blocks \cup {NoData} /\ pending = NoData /\ status = "idle"

Format ==
  /\ status = "idle" /\ block = NoData
  /\ block' = Blank
  /\ UNCHANGED <<pending, status>>

Write ==
  /\ status = "idle" /\ block # NoData
  /\ \E r \in Requests :
       pending' = [i \in DOMAIN block |-> IF i \in DOMAIN r THEN r[i]
                                          ELSE block[i]]
  /\ status' = "writing"
  /\ UNCHANGED block

Commit ==
  /\ status = "writing"
  /\ block' = pending
  /\ pending' = NoData
  /\ status' = "written"

Return ==
  /\ status = "written"
  /\ status' = "idle"
  /\ UNCHANGED <<block, pending>>

Shutdown ==
  /\ pending' = NoData
  /\ status' = "idle"
  /\ UNCHANGED block

\* The flash fails, or is misused, and from then on nothing is promised.
Break ==
  /\ status' = "broken"
  /\ block' \in Blocks \cup {NoData}
  /\ pending' = NoData

Next == Format \/ Write \/ Commit \/ Return \/ Shutdown \/ Break

Spec == Init /\ [][Next]_vars
=============================================================================
