------------------------------- MODULE Flash -------------------------------
(***************************************************************************)
(* The flash storage of chlib: src/flash.c.  The block lives in the data   *)
(* flash; a write first prepares the whole new block in the code flash and *)
(* then copies it over, MAGIC last in both, so that flash_init() finds a   *)
(* complete block after a shutdown at any point.  One step is one command  *)
(* of the ROM controller (erase, or program a 16 bit word), which a        *)
(* shutdown does not split.                                                *)
(***************************************************************************)
EXTENDS Integers

CONSTANTS
  WORDS,    \* flash_size / 2
  Byte, Erased,
  MAGIC,    \* the four bytes of the magic of the application
  Images,   \* what the two flash areas may hold when the program first runs
  Requests, \* the writes of the application: [address -> byte]
  Faults    \* bound: the commands that may fail, once each

Addr == 0..(2 * WORDS - 1)
Image == [Addr -> Byte]
Word(w) == {2 * w, 2 * w + 1}

ASSUME SizeAssumption == WORDS \in Nat /\ WORDS > 2
ASSUME ByteAssumption ==
  /\ Erased \in Byte
  /\ MAGIC \in [0..3 -> Byte] /\ \E i \in 0..3 : MAGIC[i] # Erased
ASSUME ImagesAssumption == Images \subseteq Image
\* flash_write refuses an offset below 4: "Protect magic region."  A request
\* may run past the end of the block, not past 2^16.
ASSUME RequestsAssumption ==
  \A r \in Requests :
    DOMAIN r \subseteq Nat \ (0..3) /\ r \in [DOMAIN r -> Byte]
ASSUME FaultsAssumption == Faults \subseteq {"erase", "program"}

VARIABLES
  pc, w,          \* the command that comes next, the word it programs
  call,           \* the function that runs, or has run last
  req,            \* the argument of flash_write
  result,         \* its local variable
  returned,       \* what the last call has returned
  ready,          \* flash_init() has succeeded since power-up
  data_flash, code_flash,
  failed,         \* history: which commands of the ROM controller have failed
  misused         \* history: there was no block when flash_write was called,
                  \* some time since power-up

control == <<pc, w, call, result, returned, ready>>
vars == <<control, req, data_flash, code_flash, failed, misused>>

MagicAt(f) == \A i \in 0..3 : f[i] = MAGIC[i]

Init ==
  /\ pc = "idle" /\ w = 0
  /\ call = "none" /\ req = [i \in {} |-> Erased]
  /\ result = TRUE /\ returned = FALSE /\ ready = FALSE
  /\ data_flash \in Images /\ code_flash \in Images
  /\ failed = {} /\ misused = FALSE

-----------------------------------------------------------------------------
(* The ROM controller *)

\* A command succeeds if it leaves ROM_STATUS = 0xc0.
ROM_STATUS(command, ok) ==
  /\ ok \/ command \in Faults \ failed
  /\ failed' = IF ok THEN failed ELSE failed \cup {command}

\* ROM_CTRL = 0xa6
erase(f, ok) == IF ok THEN [i \in Addr |-> Erased] ELSE f

\* ROM_CTRL = 0x9a for the bytes of word n of v.  A byte that was not erased
\* holds junk afterwards.
program(f, n, v, ok, junk) ==
  IF ok
  THEN [i \in Addr |-> IF i \notin Word(n) THEN f[i]
                       ELSE IF f[i] = Erased THEN v[i] ELSE junk]
  ELSE f

-----------------------------------------------------------------------------

\* The function that runs returns v.
return(v) ==
  /\ pc' = "idle" /\ w' = 0
  /\ returned' = v
  /\ ready' = IF call = "init" THEN v ELSE ready

step(next, n) ==
  /\ pc' = next /\ w' = n
  /\ UNCHANGED <<returned, ready>>

(* flash_init: the data flash, the backup, or a new block if force is set *)

flash_init(force) ==
  /\ pc = "idle"
  /\ call' = "init"
  /\ result' = TRUE
  /\ IF MagicAt(data_flash)
     THEN pc' = "idle" /\ w' = 0 /\ returned' = TRUE /\ ready' = TRUE
     ELSE IF MagicAt(code_flash)
     THEN step("restore_erase", 0)
     ELSE IF force
     THEN step("format_erase", 0)
     ELSE pc' = "idle" /\ w' = 0 /\ returned' = FALSE /\ ready' = FALSE
  /\ UNCHANGED <<req, data_flash, code_flash, failed, misused>>

format_erase ==
  /\ pc = "format_erase"
  /\ \E ok \in BOOLEAN :
       /\ ROM_STATUS("erase", ok)
       /\ data_flash' = erase(data_flash, ok)
       /\ IF ok THEN step("format", 0) ELSE return(FALSE)
  /\ UNCHANGED <<call, result, req, code_flash, misused>>

\* The low word of the magic, then the high word, whatever the status.
format ==
  /\ pc = "format"
  /\ \E ok \in BOOLEAN, junk \in Byte :
       /\ ROM_STATUS("program", ok)
       /\ data_flash' = program(data_flash, w, MAGIC, ok, junk)
       /\ result' = (result /\ ok)
       /\ IF w = 0 THEN step("format", 1) ELSE return(result /\ ok)
  /\ UNCHANGED <<call, req, code_flash, misused>>

(* flash_write: the new block goes to the code flash, last word first.  It   *)
(* does not look for a block: without one, it stores what there is.          *)

flash_write(r) ==
  /\ pc = "idle"
  /\ call' = "write" /\ req' = r /\ result' = TRUE
  /\ misused' = (misused \/ ~MagicAt(data_flash))
  /\ step("write_erase", 0)
  /\ UNCHANGED <<data_flash, code_flash, failed>>

\* The status of this erase is not looked at.
write_erase ==
  /\ pc = "write_erase"
  /\ \E ok \in BOOLEAN :
       ROM_STATUS("erase", ok) /\ code_flash' = erase(code_flash, ok)
  /\ step("write_program", WORDS - 1)
  /\ UNCHANGED <<call, result, req, data_flash, misused>>

\* Mutant: offset < i instead of offset <= i.
merged_drops_first ==
  [i \in Addr |-> IF i \in DOMAIN req /\ i - 1 \in DOMAIN req THEN req[i]
                  ELSE data_flash[i]]

\* The block with the bytes of the request in place; those past its end are
\* dropped.
Merged ==
  [i \in Addr |-> IF i \in DOMAIN req THEN req[i] ELSE data_flash[i]]

\* Mutant: the loop goes on below the block.
write_program_past_end ==
  /\ pc = "write_program"
  /\ \E ok \in BOOLEAN, junk \in Byte :
       /\ ROM_STATUS("program", ok)
       /\ code_flash' = program(code_flash, w, Merged, ok, junk)
       /\ result' = ok
       /\ IF w >= 0 /\ ok THEN step("write_program", w - 1)
          ELSE step("restore_erase", 0)
  /\ UNCHANGED <<call, req, data_flash, misused>>

\* Whether the loop ends or breaks, restore() is called.
write_program ==
  /\ pc = "write_program"
  /\ \E ok \in BOOLEAN, junk \in Byte :
       /\ ROM_STATUS("program", ok)
       /\ code_flash' = program(code_flash, w, Merged, ok, junk)
       /\ result' = ok
       /\ IF w > 0 /\ ok THEN step("write_program", w - 1)
          ELSE step("restore_erase", 0)
  /\ UNCHANGED <<call, req, data_flash, misused>>

(* restore: the code flash is copied to the data flash, last word first *)

\* flash_init returns what restore returns; flash_write does not look at it.
restored(ok) == return(IF call = "write" THEN result ELSE ok)

\* Mutant: the data flash is not erased before the copy.
restore_no_erase ==
  /\ pc = "restore_erase"
  /\ step("restore_program", WORDS - 1)
  /\ UNCHANGED <<call, result, req, data_flash, code_flash, failed, misused>>

restore_erase ==
  /\ pc = "restore_erase"
  /\ \E ok \in BOOLEAN :
       /\ ROM_STATUS("erase", ok)
       /\ data_flash' = erase(data_flash, ok)
       /\ IF ok THEN step("restore_program", WORDS - 1) ELSE restored(FALSE)
  /\ UNCHANGED <<call, result, req, code_flash, misused>>

\* Mutant: the words are copied from the first to the last, MAGIC first.
restore_ascending ==
  /\ pc = "restore_program"
  /\ LET n == WORDS - 1 - w IN
     \E ok \in BOOLEAN, junk \in Byte :
       /\ ROM_STATUS("program", ok)
       /\ data_flash' = program(data_flash, n, code_flash, ok, junk)
       /\ IF w > 0 /\ ok THEN step("restore_program", w - 1) ELSE restored(ok)
  /\ UNCHANGED <<call, result, req, code_flash, misused>>

restore_program ==
  /\ pc = "restore_program"
  /\ \E ok \in BOOLEAN, junk \in Byte :
       /\ ROM_STATUS("program", ok)
       /\ data_flash' = program(data_flash, w, code_flash, ok, junk)
       /\ IF w > 0 /\ ok THEN step("restore_program", w - 1) ELSE restored(ok)
  /\ UNCHANGED <<call, result, req, code_flash, misused>>

\* The supply fails, and the program starts again.
Shutdown ==
  /\ pc' = "idle" /\ w' = 0 /\ call' = "none"
  /\ req' = [i \in {} |-> Erased]
  /\ result' = TRUE /\ returned' = FALSE /\ ready' = FALSE
  /\ misused' = FALSE
  /\ UNCHANGED <<data_flash, code_flash, failed>>

Next ==
  \/ \E force \in BOOLEAN : flash_init(force)
  \/ format_erase \/ format
  \/ \E r \in Requests : flash_write(r)
  \/ write_erase \/ write_program
  \/ restore_erase \/ restore_program
  \/ Shutdown

Spec == Init /\ [][Next]_vars

-----------------------------------------------------------------------------
(* Properties *)

TypeOK ==
  /\ pc \in {"idle", "format_erase", "format", "write_erase", "write_program",
             "restore_erase", "restore_program"}
  /\ w \in 0..(WORDS - 1)
  /\ call \in {"none", "init", "write"}
  /\ req \in Requests \cup {[i \in {} |-> Erased]}
  /\ result \in BOOLEAN /\ returned \in BOOLEAN /\ ready \in BOOLEAN
  /\ data_flash \in Image /\ code_flash \in Image
  /\ failed \subseteq Faults /\ misused \in BOOLEAN

(* As long as no command has failed, a word is programmed only after it was  *)
(* erased, in every order of calls and shutdowns: what a write reads back is *)
(* what it has programmed.                                                   *)
NoOverprogram ==
  failed = {} =>
    /\ pc = "write_program" => \A i \in Word(w) : code_flash[i] = Erased
    /\ pc \in {"format", "restore_program"} =>
         \A i \in Word(w) : data_flash[i] = Erased

(* restore() runs only when the code flash holds a complete block: "Now the  *)
(* backup in the code flash works. Let's copy it to the data flash."  After  *)
(* a failed program command the loop breaks, and restore() runs all the same.*)
BackupWorks ==
  /\ failed = {} /\ (ready \/ ~misused)
  /\ pc \in {"restore_erase", "restore_program"}
  => MagicAt(code_flash)

(* After a flash_write that has returned true, the data flash holds the      *)
(* bytes that were written, those past the end of the block excepted, and    *)
(* flash_read finds the block, unless it was missing before: a write without *)
(* a flash_init that has succeeded returns true all the same.  flash_write   *)
(* does not look at what restore() returns, so this is only promised as long *)
(* as no command has failed.                                                 *)
ReadsWhatWasWritten ==
  failed = {} /\ pc = "idle" /\ call = "write" /\ returned =>
    /\ \A i \in DOMAIN req \cap Addr : data_flash[i] = req[i]
    /\ ready \/ ~misused => MagicAt(data_flash)

(* Once flash_init has succeeded, flash_read does not fail.                  *)
ReadableWhenReady ==
  failed = {} /\ ready /\ pc = "idle" => MagicAt(data_flash)

-----------------------------------------------------------------------------
(* Refinement *)

Payload == Addr \ (0..3)
Contents(f) == [i \in Payload |-> f[i]]

NoData == [i \in {} |-> Erased]

\* The block flash_init() will find.
Stored ==
  IF MagicAt(data_flash) THEN Contents(data_flash)
  ELSE IF MagicAt(code_flash) THEN Contents(code_flash)
  ELSE NoData

Writing ==
  call = "write" /\ pc \in {"write_erase", "write_program", "restore_erase"}
Written == call = "write" /\ pc = "restore_program"

Store == INSTANCE FlashStore WITH
  Blocks <- [Payload -> Byte],
  Blank <- [i \in Payload |-> Erased],
  block <- Stored,
  pending <- IF Writing /\ failed = {} /\ ~misused THEN Contents(Merged)
             ELSE NoData,
  status <- IF failed # {} \/ misused THEN "broken"
            ELSE IF Writing THEN "writing"
            ELSE IF Written THEN "written" ELSE "idle"

(* The two flash areas, written word by word and cut off at any point,       *)
(* behave like one block that changes at once (the comments above flash_init *)
(* and flash_write), until a command fails; nothing is promised either from  *)
(* a write without a block to the next power-up.                             *)
Refines == Store!Spec

(* When program commands fail, the block may be lost, but what flash_init    *)
(* finds is never a mixture: the old block, or the one that is being         *)
(* written, or a fresh one (MAGIC is programmed last).  It may be one after  *)
(* an erase has failed, because flash_write does not look at the status.     *)
NeverMixed ==
  [][\/ "erase" \in failed'
     \/ Stored' \in {Stored, NoData, Contents(Merged),
                     [i \in Payload |-> Erased]}]_vars

=============================================================================
