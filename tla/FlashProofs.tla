---------------------------- MODULE FlashProofs ----------------------------
(***************************************************************************)
(* Proofs about Flash for every size of the flash, every magic and every   *)
(* set of requests, up to the first command of the ROM controller that     *)
(* fails.                                                                  *)
(***************************************************************************)
EXTENDS Flash, TLAPS

\* What a loop has copied to f from v when word w is next.
Copied(f, v) ==
  \A i \in Addr : f[i] = IF i < 2 * w + 2 THEN Erased ELSE v[i]

\* The requested bytes are in f.
Holds(f) == \A i \in DOMAIN req \cap Addr : f[i] = req[i]

\* The program has found its block, or has had it since power-up.
HasBlock == ready \/ ~misused

FormatInv ==
  /\ pc \in {"format_erase", "format"} => call = "init" /\ ~MagicAt(code_flash)
  /\ pc = "format_erase" => ~MagicAt(data_flash)
  /\ pc = "format" =>
       /\ w \in {0, 1}
       /\ \A i \in Addr :
            data_flash[i] = IF w = 1 /\ i < 2 THEN MAGIC[i] ELSE Erased

WriteInv ==
  /\ pc \in {"write_erase", "write_program"} =>
       call = "write" /\ (HasBlock => MagicAt(data_flash))
  /\ pc = "write_program" => Copied(code_flash, Merged)

RestoreInv ==
  /\ pc \in {"restore_erase", "restore_program"} =>
       /\ call \in {"init", "write"}
       /\ HasBlock \/ call = "init" => MagicAt(code_flash)
  /\ pc = "restore_erase" /\ call = "write" =>
       /\ HasBlock => MagicAt(data_flash)
       /\ \A i \in Addr : code_flash[i] = Merged[i]
  /\ pc = "restore_erase" /\ call = "init" => ~MagicAt(data_flash)
  /\ pc = "restore_program" => Copied(data_flash, code_flash)
  /\ pc = "restore_program" /\ call = "write" => Holds(code_flash)

IdleInv ==
  /\ pc = "idle" /\ ready => MagicAt(data_flash)
  /\ pc = "idle" /\ call = "write" =>
       (HasBlock => MagicAt(data_flash)) /\ Holds(data_flash)

\* No command has failed, so no result has ever been false.
Good == result = TRUE /\ FormatInv /\ WriteInv /\ RestoreInv /\ IdleInv

\* Once a command has failed, only the types are certain.
Types == TypeOK /\ (pc = "format" => w \in {0, 1})
Inv == Types /\ (failed = {} => Good)

-----------------------------------------------------------------------------

\* The bytes of the magic, and of the two words they are in.
LEMMA MagicFacts ==
  /\ 0..3 \subseteq Addr
  /\ WORDS - 1 \in 0..(WORDS - 1) /\ 0 \in 0..(WORDS - 1) /\ 1 \in 0..(WORDS - 1)
  /\ \A i \in 0..3 : MAGIC[i] \in Byte
  /\ ~MagicAt([i \in Addr |-> Erased])
<1>1. /\ 0..3 \subseteq Addr
      /\ WORDS - 1 \in 0..(WORDS - 1) /\ 0 \in 0..(WORDS - 1) /\ 1 \in 0..(WORDS - 1)
  BY SizeAssumption DEF Addr
<1>2. \A i \in 0..3 : MAGIC[i] \in Byte
  BY ByteAssumption
<1>3. ~MagicAt([i \in Addr |-> Erased])
  BY <1>1, ByteAssumption DEF MagicAt
<1> QED BY <1>1, <1>2, <1>3

\* A request is a function, and leaves the magic alone.
LEMMA RequestFacts ==
  ASSUME TypeOK
  PROVE  /\ DOMAIN req \subseteq Nat \ (0..3)
         /\ \A i \in DOMAIN req : req[i] \in Byte
         /\ Merged \in Image
         /\ MagicAt(data_flash) => MagicAt(Merged)
<1>1. /\ DOMAIN req \subseteq Nat \ (0..3)
      /\ \A i \in DOMAIN req : req[i] \in Byte
  <2>1. CASE req \in Requests
    BY <2>1, RequestsAssumption
  <2>2. CASE req = [i \in {} |-> Erased]
    BY <2>2
  <2> QED BY <2>1, <2>2 DEF TypeOK
<1>2. Merged \in Image
  BY <1>1 DEF Merged, TypeOK, Image
<1>3. MagicAt(data_flash) => MagicAt(Merged)
  BY <1>1, MagicFacts DEF Merged, MagicAt
<1> QED BY <1>1, <1>2, <1>3

\* A loop that copies v to f programs erased bytes, and has copied one more
\* word afterwards.
LEMMA CopyStep ==
  ASSUME NEW f \in Image, NEW v \in Image, NEW junk \in Byte,
         w \in 0..(WORDS - 1), Copied(f, v)
  PROVE  /\ program(f, w, v, TRUE, junk) \in Image
         /\ \A i \in Addr : program(f, w, v, TRUE, junk)[i] =
                              IF i < 2 * w THEN Erased ELSE v[i]
BY SizeAssumption DEF program, Copied, Image, Addr, Word

-----------------------------------------------------------------------------
(* Types, also when commands fail *)

\* What a program command leaves is an image.
LEMMA ProgramType ==
  ASSUME NEW f \in Image, NEW v, \A i \in Addr : i \in Word(w) => v[i] \in Byte,
         NEW ok \in BOOLEAN, NEW junk \in Byte
  PROVE  program(f, w, v, ok, junk) \in Image
BY DEF program, Image

\* Every step keeps the types.
LEMMA NextTypes ==
  ASSUME Types, [Next]_vars
  PROVE  Types'
<1> USE MagicFacts DEF Types
<1>0. \A c \in {"erase", "program"}, ok \in BOOLEAN :
        ROM_STATUS(c, ok) => failed' \subseteq Faults
  BY DEF ROM_STATUS, TypeOK
<1>1. \A i \in 0..(WORDS - 1) : i > 0 => i - 1 \in 0..(WORDS - 1)
  BY SizeAssumption
<1>2. \A f \in Image, ok \in BOOLEAN : erase(f, ok) \in Image
  BY ByteAssumption DEF Image, erase
<1>3. ASSUME NEW force \in BOOLEAN, flash_init(force) PROVE Types'
  BY <1>3 DEF flash_init, step, TypeOK
<1>4. CASE format_erase
  <2>1. PICK ok \in BOOLEAN :
          /\ ROM_STATUS("erase", ok)
          /\ data_flash' = erase(data_flash, ok)
          /\ IF ok THEN step("format", 0) ELSE return(FALSE)
    BY <1>4 DEF format_erase
  <2>2. data_flash' \in Image /\ failed' \subseteq Faults
    BY <1>0, <1>2, <2>1 DEF TypeOK
  <2> QED BY <1>4, <2>1, <2>2 DEF format_erase, step, return, TypeOK
<1>5. CASE format
  <2>1. PICK ok \in BOOLEAN, junk \in Byte :
          /\ ROM_STATUS("program", ok)
          /\ data_flash' = program(data_flash, w, MAGIC, ok, junk)
          /\ result' = (result /\ ok)
          /\ IF w = 0 THEN step("format", 1) ELSE return(result /\ ok)
    BY <1>5 DEF format
  <2>2. w \in {0, 1}
    BY <1>5 DEF format
  <2>3. \A i \in Addr : i \in Word(w) => MAGIC[i] \in Byte
    BY <2>2 DEF Word
  <2>4. data_flash' \in Image /\ failed' \subseteq Faults
    BY <1>0, <2>1, <2>3, ProgramType DEF TypeOK
  <2> QED BY <1>5, <2>1, <2>4 DEF format, step, return, TypeOK
<1>6. ASSUME NEW r \in Requests, flash_write(r) PROVE Types'
  BY <1>6 DEF flash_write, step, TypeOK
<1>7. CASE write_erase
  <2>1. PICK ok \in BOOLEAN :
          ROM_STATUS("erase", ok) /\ code_flash' = erase(code_flash, ok)
    BY <1>7 DEF write_erase
  <2>2. code_flash' \in Image /\ failed' \subseteq Faults
    BY <1>0, <1>2, <2>1 DEF TypeOK
  <2> QED BY <1>7, <2>2 DEF write_erase, step, TypeOK
<1>8. CASE write_program
  <2>1. PICK ok \in BOOLEAN, junk \in Byte :
          /\ ROM_STATUS("program", ok)
          /\ code_flash' = program(code_flash, w, Merged, ok, junk)
          /\ result' = ok
          /\ IF w > 0 /\ ok THEN step("write_program", w - 1)
             ELSE step("restore_erase", 0)
    BY <1>8 DEF write_program
  <2>2. \A i \in Addr : i \in Word(w) => Merged[i] \in Byte
    BY RequestFacts DEF Image
  <2>3. code_flash' \in Image /\ failed' \subseteq Faults
    BY <1>0, <2>1, <2>2, ProgramType DEF TypeOK
  <2> QED BY <1>1, <1>8, <2>1, <2>3 DEF write_program, step, TypeOK
<1>9. CASE restore_erase
  <2>1. PICK ok \in BOOLEAN :
          /\ ROM_STATUS("erase", ok)
          /\ data_flash' = erase(data_flash, ok)
          /\ IF ok THEN step("restore_program", WORDS - 1) ELSE restored(FALSE)
    BY <1>9 DEF restore_erase
  <2>2. data_flash' \in Image /\ failed' \subseteq Faults
    BY <1>0, <1>2, <2>1 DEF TypeOK
  <2> QED BY <1>9, <2>1, <2>2 DEF restore_erase, step, restored, return, TypeOK
<1>10. CASE restore_program
  <2>1. PICK ok \in BOOLEAN, junk \in Byte :
          /\ ROM_STATUS("program", ok)
          /\ data_flash' = program(data_flash, w, code_flash, ok, junk)
          /\ IF w > 0 /\ ok THEN step("restore_program", w - 1)
             ELSE restored(ok)
    BY <1>10 DEF restore_program
  <2>2. \A i \in Addr : i \in Word(w) => code_flash[i] \in Byte
    BY DEF TypeOK, Image
  <2>3. data_flash' \in Image /\ failed' \subseteq Faults
    BY <1>0, <2>1, <2>2, ProgramType DEF TypeOK
  <2> QED BY <1>1, <1>10, <2>1, <2>3
          DEF restore_program, step, restored, return, TypeOK
<1>11. CASE Shutdown
  BY <1>11 DEF Shutdown, TypeOK
<1>12. CASE UNCHANGED vars
  BY <1>12 DEF vars, control, TypeOK
<1> QED BY <1>3, <1>4, <1>5, <1>6, <1>7, <1>8, <1>9, <1>10, <1>11, <1>12 DEF Next

-----------------------------------------------------------------------------
(* Inv is inductive *)

\* The invariant holds at the start.
LEMMA InitInv == Init => Inv
<1> SUFFICES ASSUME Init PROVE Inv
  OBVIOUS
<1>1. TypeOK
  BY ImagesAssumption, MagicFacts DEF Init, TypeOK
<1> QED BY <1>1 DEF Init, Inv, Types, Good, FormatInv, WriteInv, RestoreInv,
           IdleInv

\* A step that does not fail keeps what is known of both areas.
LEMMA NextGood ==
  ASSUME TypeOK, Good, failed' = {}, [Next]_vars
  PROVE  Good'
<1> USE MagicFacts DEF Good, HasBlock
<1>0. \A c \in {"erase", "program"}, ok \in BOOLEAN :
        ROM_STATUS(c, ok) => ok = TRUE
  BY DEF ROM_STATUS
<1>1. ASSUME NEW force \in BOOLEAN, flash_init(force) PROVE Good'
  BY <1>1 DEF flash_init, step, TypeOK, FormatInv, WriteInv,
             RestoreInv, IdleInv, MagicAt
<1>2. CASE format_erase
  <2>1. /\ data_flash' = [i \in Addr |-> Erased]
        /\ pc' = "format" /\ w' = 0
        /\ UNCHANGED <<returned, ready, call, result, req, code_flash>>
    BY <1>2, <1>0 DEF format_erase, erase, step
  <2> QED BY <1>2, <2>1 DEF format_erase, FormatInv, WriteInv,
             RestoreInv, IdleInv, MagicAt
<1>3. CASE format
  <2>1. PICK junk \in Byte :
          /\ data_flash' = program(data_flash, w, MAGIC, TRUE, junk)
          /\ IF w = 0 THEN step("format", 1) ELSE return(TRUE)
    BY <1>3, <1>0 DEF format
  <2>2. /\ pc = "format" /\ w \in {0, 1} /\ call = "init" /\ result' = TRUE
        /\ UNCHANGED <<call, req, code_flash>>
    BY <1>3, <1>0 DEF format, FormatInv
  <2>3. \A i \in Addr :
          data_flash'[i] = IF i < 2 * w + 2 THEN MAGIC[i] ELSE Erased
    BY <2>1, <2>2 DEF program, Word, Addr, FormatInv
  <2>6. CASE w = 0
    <3>1. pc' = "format" /\ w' = 1 /\ ~MagicAt(code_flash)
      BY <2>1, <2>2, <2>6 DEF step, FormatInv
    <3>2. FormatInv'
      BY <2>2, <2>3, <2>6, <3>1 DEF FormatInv, MagicAt, Addr
    <3> QED BY <2>2, <3>1, <3>2 DEF WriteInv, RestoreInv, IdleInv
  <2>7. CASE w = 1
    <3>1. MagicAt(data_flash')
      BY <2>3, <2>7 DEF MagicAt
    <3>2. pc' = "idle" /\ call' = "init"
      BY <2>1, <2>2, <2>7 DEF return
    <3> QED BY <2>2, <3>1, <3>2 DEF FormatInv, WriteInv, RestoreInv,
               IdleInv, MagicAt
  <2> QED BY <2>2, <2>6, <2>7
<1>4. ASSUME NEW r \in Requests, flash_write(r) PROVE Good'
  BY <1>4 DEF flash_write, step, FormatInv, WriteInv, RestoreInv,
             IdleInv, MagicAt
<1>5. CASE write_erase
  <2>1. /\ pc = "write_erase" /\ call = "write"
        /\ HasBlock => MagicAt(data_flash)
        /\ code_flash' = [i \in Addr |-> Erased]
        /\ pc' = "write_program" /\ w' = WORDS - 1
        /\ UNCHANGED <<returned, ready, call, result, req, data_flash, misused>>
    BY <1>5, <1>0 DEF write_erase, erase, step, WriteInv
  <2>3. Copied(code_flash, Merged)'
    BY <2>1, SizeAssumption DEF Copied, Addr
  <2> QED BY <2>1, <2>3 DEF FormatInv, WriteInv, RestoreInv, IdleInv,
             MagicAt, Copied
<1>6. CASE write_program
  <2>1. PICK junk \in Byte :
          /\ code_flash' = program(code_flash, w, Merged, TRUE, junk)
          /\ IF w > 0 THEN step("write_program", w - 1)
             ELSE step("restore_erase", 0)
    BY <1>6, <1>0 DEF write_program
  <2>2. /\ pc = "write_program" /\ call = "write" /\ result' = TRUE
        /\ HasBlock => MagicAt(data_flash)
        /\ Copied(code_flash, Merged)
        /\ UNCHANGED <<call, req, data_flash, misused>>
    BY <1>6, <1>0 DEF write_program, WriteInv
  <2>3. Merged' = Merged
    BY <2>2 DEF Merged
  <2>4. /\ code_flash' \in Image
        /\ \A i \in Addr :
             code_flash'[i] = IF i < 2 * w THEN Erased ELSE Merged[i]
    BY <2>1, <2>2, CopyStep, RequestFacts DEF TypeOK
  <2>6. CASE w > 0
    <3>1. pc' = "write_program" /\ w' = w - 1 /\ UNCHANGED ready
      BY <2>1, <2>6 DEF step
    <3>2. Copied(code_flash, Merged)'
      BY <2>3, <2>4, <3>1 DEF Copied, TypeOK, Addr
    <3> QED BY <2>2, <3>1, <3>2 DEF FormatInv, WriteInv, RestoreInv,
               IdleInv, MagicAt
  <2>7. CASE w = 0
    <3>1. pc' = "restore_erase" /\ UNCHANGED ready
      BY <2>1, <2>7 DEF step
    <3>2. \A i \in Addr : code_flash'[i] = Merged'[i]
      BY <2>3, <2>4, <2>7 DEF Addr
    <3>3. HasBlock => MagicAt(code_flash')
      BY <2>2, <2>3, <3>2, RequestFacts DEF MagicAt
    <3> QED BY <2>2, <3>1, <3>2, <3>3 DEF FormatInv, WriteInv,
               RestoreInv, IdleInv, MagicAt
  <2>8. w > 0 \/ w = 0
    BY SizeAssumption DEF TypeOK
  <2> QED BY <2>6, <2>7, <2>8
<1>7. CASE restore_erase
  <2>1. /\ pc = "restore_erase" /\ call \in {"init", "write"}
        /\ HasBlock \/ call = "init" => MagicAt(code_flash)
        /\ data_flash' = [i \in Addr |-> Erased]
        /\ pc' = "restore_program" /\ w' = WORDS - 1
        /\ UNCHANGED <<returned, ready, call, result, req, code_flash, misused>>
    BY <1>7, <1>0 DEF restore_erase, erase, step, RestoreInv
  <2>3. Copied(data_flash, code_flash)'
    BY <2>1, SizeAssumption DEF Copied, Addr
  <2>4. call = "write" => Holds(code_flash)
    BY <2>1, RequestFacts DEF RestoreInv, Holds, Merged
  <2> QED BY <2>1, <2>3, <2>4 DEF FormatInv, WriteInv, RestoreInv,
             IdleInv, MagicAt, Holds
<1>8. CASE restore_program
  <2>1. PICK junk \in Byte :
          /\ data_flash' = program(data_flash, w, code_flash, TRUE, junk)
          /\ IF w > 0 THEN step("restore_program", w - 1) ELSE restored(TRUE)
    BY <1>8, <1>0 DEF restore_program
  <2>2. /\ pc = "restore_program" /\ call \in {"init", "write"}
        /\ HasBlock \/ call = "init" => MagicAt(code_flash)
        /\ Copied(data_flash, code_flash)
        /\ call = "write" => Holds(code_flash)
        /\ UNCHANGED <<call, result, req, code_flash, misused>>
    BY <1>8 DEF restore_program, RestoreInv
  <2>3. /\ data_flash' \in Image
        /\ \A i \in Addr :
             data_flash'[i] = IF i < 2 * w THEN Erased ELSE code_flash[i]
    BY <2>1, <2>2, CopyStep DEF TypeOK
  <2>5. CASE w > 0
    <3>1. pc' = "restore_program" /\ w' = w - 1 /\ UNCHANGED ready
      BY <2>1, <2>5 DEF step
    <3>2. Copied(data_flash, code_flash)'
      BY <2>2, <2>3, <3>1 DEF Copied, TypeOK, Addr
    <3> QED BY <2>2, <3>1, <3>2 DEF FormatInv, WriteInv, RestoreInv,
               IdleInv, MagicAt, Holds
  <2>6. CASE w = 0
    <3>1. pc' = "idle" /\ (call = "write" => UNCHANGED ready)
      <4>0. ~(w > 0)
        BY <2>6
      <4>1. restored(TRUE)
        BY <2>1, <4>0, Zenon
      <4>2. pc' = "idle" /\ ready' = IF call = "init"
                                     THEN IF call = "write" THEN result ELSE TRUE
                                     ELSE ready
        BY <4>1, Zenon DEF restored, return
      <4> QED BY <4>2
    <3>2. \A i \in Addr : data_flash'[i] = code_flash[i]
      BY <2>3, <2>6 DEF Addr
    <3>3. HasBlock \/ call = "init" => MagicAt(data_flash')
      BY <2>2, <3>2 DEF MagicAt
    <3>4. call' = "write" => Holds(data_flash)'
      BY <2>2, <3>2, RequestFacts DEF Holds
    <3> QED BY <2>2, <3>1, <3>3, <3>4 DEF FormatInv, WriteInv,
               RestoreInv, IdleInv, MagicAt
  <2>7. w > 0 \/ w = 0
    BY SizeAssumption DEF TypeOK
  <2> QED BY <2>5, <2>6, <2>7
<1>9. CASE Shutdown
  BY <1>9 DEF Shutdown, FormatInv, WriteInv, RestoreInv, IdleInv
<1>10. CASE UNCHANGED vars
  BY <1>10 DEF vars, control, TypeOK, FormatInv, WriteInv, RestoreInv, IdleInv,
     MagicAt, Copied, Holds, Merged
<1> QED BY <1>1, <1>2, <1>3, <1>4, <1>5, <1>6, <1>7, <1>8, <1>9, <1>10 DEF Next

\* A failure is not forgotten.
LEMMA FailedGrows == [Next]_vars /\ failed' = {} => failed = {}
BY DEF Next, vars, flash_init, format_erase, format, flash_write, write_erase,
   write_program, restore_erase, restore_program, Shutdown, ROM_STATUS

\* Every step keeps the invariant.
LEMMA NextInv == Inv /\ [Next]_vars => Inv'
<1> SUFFICES ASSUME Inv, [Next]_vars PROVE Inv'
  OBVIOUS
<1>1. Types'
  BY NextTypes DEF Inv
<1>2. ASSUME failed' = {} PROVE Good'
  BY <1>2, FailedGrows, NextGood DEF Inv, Types
<1> QED BY <1>1, <1>2 DEF Inv

(* Every state of every behaviour satisfies Inv: until a command fails the   *)
(* flash areas are where the comments above flash_init and flash_write say.  *)
THEOREM Invariance == Spec => []Inv
<1>1. Init => Inv
  BY InitInv
<1>2. Inv /\ [Next]_vars => Inv'
  BY NextInv
<1> QED BY <1>1, <1>2, PTL DEF Spec

(* The types of flash.c's state, in every reachable state.                   *)
THEOREM TypeCorrect == Spec => []TypeOK
<1>1. Inv => TypeOK
  BY DEF Inv, Types
<1> QED BY <1>1, Invariance, PTL

(* No word is programmed that was not erased before.                         *)
THEOREM ProgramsErased == Spec => []NoOverprogram
<1>1. Inv => NoOverprogram
  BY SizeAssumption DEF Inv, Types, Good, TypeOK, FormatInv, WriteInv, RestoreInv, Copied,
     NoOverprogram, Word, Addr
<1> QED BY <1>1, Invariance, PTL

(* restore() finds a complete backup.                                        *)
THEOREM BackupComplete == Spec => []BackupWorks
<1>1. Inv => BackupWorks
  BY DEF Inv, Good, RestoreInv, BackupWorks, HasBlock
<1> QED BY <1>1, Invariance, PTL

(* What flash_write has reported as written is in the data flash, as far as  *)
(* it is inside the block, and flash_read works after a successful           *)
(* flash_init, and after a write that has found a block.                     *)
THEOREM WritesAreRead ==
  Spec => [](ReadsWhatWasWritten /\ ReadableWhenReady)
<1>1. Inv => ReadsWhatWasWritten /\ ReadableWhenReady
  BY DEF Inv, Good, IdleInv, Holds, HasBlock, ReadsWhatWasWritten,
     ReadableWhenReady
<1> QED BY <1>1, Invariance, PTL

-----------------------------------------------------------------------------
(* Refinement *)

\* A block is not "no data".
LEMMA ContentsIsData ==
  ASSUME NEW f \in Image
  PROVE  Contents(f) \in [Payload -> Byte] /\ Contents(f) # NoData
<1>1. 4 \in Payload
  BY SizeAssumption DEF Payload, Addr
<1>2. Contents(f) \in [Payload -> Byte]
  BY DEF Contents, Image, Payload
<1>3. DOMAIN Contents(f) # DOMAIN NoData
  BY <1>1 DEF Contents, NoData
<1> QED BY <1>2, <1>3

\* The first states are first states of the abstract store.
LEMMA InitRefines == Init => Store!Init
<1> SUFFICES ASSUME Init PROVE Store!Init
  OBVIOUS
<1>1. data_flash \in Image /\ code_flash \in Image
  BY ImagesAssumption DEF Init
<1>2. Stored \in [Payload -> Byte] \cup {NoData}
  BY <1>1, ContentsIsData DEF Stored
<1>3. ~Writing /\ ~Written /\ failed = {} /\ misused = FALSE
  BY DEF Init, Writing, Written
<1> QED BY <1>2, <1>3 DEF Store!Init

\* The magic is copied last: where it is, the payload is.
LEMMA MagicIsLast ==
  ASSUME NEW f, NEW v, w \in 0..(WORDS - 1), Copied(f, v), MagicAt(f)
  PROVE  Contents(f) = Contents(v)
<1>1. PICK i \in 0..3 : MAGIC[i] # Erased
  BY ByteAssumption
<1>2. i \in Addr /\ f[i] = MAGIC[i]
  BY MagicFacts DEF MagicAt
<1>3. ~(i < 2 * w + 2)
  BY <1>1, <1>2 DEF Copied
<1>4. \A j \in Payload : j \in Addr /\ ~(j < 2 * w + 2)
  BY <1>3 DEF Payload, Addr
<1>5. \A j \in Payload : f[j] = v[j]
  BY <1>4 DEF Copied
<1> QED BY <1>5 DEF Contents

\* Before a failure every step is a step of the store or leaves it alone,
LEMMA GoodStepRefines ==
  ASSUME TypeOK, TypeOK', Good, failed = {}, failed' = {}, ~misused',
         [Next]_vars
  PROVE  [Store!Next]_(Store!vars)
<1> USE DEF Good, HasBlock
<1>n. /\ misused' = FALSE
      /\ format_erase \/ format \/ write_erase \/ write_program
         \/ restore_erase \/ restore_program => misused = FALSE
      /\ \A r \in Requests : flash_write(r) => misused = FALSE
      /\ \A force \in BOOLEAN : flash_init(force) => misused = FALSE
  BY DEF TypeOK, flash_init, format_erase, format, flash_write,
     write_erase, write_program, restore_erase, restore_program
<1>0. \A c \in {"erase", "program"}, ok \in BOOLEAN :
        ROM_STATUS(c, ok) => ok = TRUE
  BY DEF ROM_STATUS
<1>d. /\ data_flash \in Image /\ code_flash \in Image
      /\ data_flash' \in Image /\ code_flash' \in Image
  BY DEF TypeOK

<1>1. ASSUME NEW force \in BOOLEAN, flash_init(force)
      PROVE  UNCHANGED Store!vars
  <2>1. UNCHANGED Stored
    BY <1>1 DEF flash_init, Stored, MagicAt, Contents
  <2>2. ~Writing /\ ~Written /\ ~Writing' /\ ~Written'
    BY <1>1 DEF flash_init, Writing, Written
  <2> QED BY <1>1, <1>n, <2>1, <2>2 DEF Store!vars
<1>2. CASE format_erase
  <2>1. pc = "format_erase" /\ call = "init" /\ call' = "init"
    BY <1>2 DEF format_erase, FormatInv
  <2>2. ~MagicAt(data_flash) /\ ~MagicAt(code_flash)
    BY <2>1 DEF FormatInv
  <2>3. data_flash' = [i \in Addr |-> Erased] /\ code_flash' = code_flash
    BY <1>2, <1>0 DEF format_erase, erase
  <2>4. ~MagicAt(data_flash)' /\ ~MagicAt(code_flash)'
    BY <2>2, <2>3, MagicFacts DEF MagicAt
  <2>5. UNCHANGED Stored
    BY <2>2, <2>4 DEF Stored, NoData
  <2> QED BY <1>2, <1>n, <2>1, <2>5 DEF Store!vars, Writing, Written
<1>3. CASE format
  <2>1. pc = "format" /\ call = "init" /\ call' = "init"
    BY <1>3 DEF format, FormatInv
  <2>2. ~MagicAt(code_flash) /\ ~MagicAt(code_flash)' /\ w \in {0, 1}
    BY <1>3, <2>1 DEF format, FormatInv, MagicAt
  <2>3. PICK junk \in Byte :
          data_flash' = program(data_flash, w, MAGIC, TRUE, junk)
    BY <1>3, <1>0 DEF format
  <2>4. \A i \in Addr :
          data_flash[i] = IF w = 1 /\ i < 2 THEN MAGIC[i] ELSE Erased
    BY <2>1 DEF FormatInv
  <2>5. \A i \in Addr :
          data_flash'[i] = IF i < 2 * w + 2 THEN MAGIC[i] ELSE Erased
    BY <2>2, <2>3, <2>4 DEF program, Word, Addr
  <2>6. /\ Contents(data_flash) = [i \in Payload |-> Erased]
        /\ Contents(data_flash') = [i \in Payload |-> Erased]
    BY <2>2, <2>4, <2>5 DEF Contents, Payload, Addr
  <2>7. w = 0 => ~MagicAt(data_flash)
    BY <2>4, ByteAssumption, MagicFacts DEF MagicAt
  <2>8. w = 1 => MagicAt(data_flash')
    BY <2>5, MagicFacts DEF MagicAt
  <2>9. \/ UNCHANGED Stored
        \/ Stored = NoData /\ Stored' = [i \in Payload |-> Erased]
    BY <2>2, <2>6, <2>7, <2>8 DEF Stored, NoData
  <2>10. ~Writing /\ ~Written /\ ~Writing' /\ ~Written'
    BY <2>1 DEF Writing, Written
  <2> QED BY <1>3, <1>n, <2>9, <2>10 DEF Store!vars, Store!Next, Store!Format
<1>4. ASSUME NEW r \in Requests, flash_write(r) PROVE Store!Write
  <2>1. /\ pc = "idle" /\ MagicAt(data_flash)
        /\ pc' = "write_erase" /\ call' = "write" /\ req' = r
        /\ UNCHANGED <<data_flash, code_flash>>
    BY <1>4 DEF flash_write, step, IdleInv
  <2>2. ~Writing /\ ~Written /\ Writing'
    BY <2>1 DEF Writing, Written
  <2>3. /\ Stored = Contents(data_flash) /\ Stored' = Stored
        /\ Stored # NoData
    BY <1>d, <2>1, ContentsIsData DEF Stored, MagicAt
  <2>4. Contents(Merged)' =
          [i \in DOMAIN Stored |-> IF i \in DOMAIN r THEN r[i] ELSE Stored[i]]
    BY <2>1, <2>3 DEF Contents, Merged, Payload
  <2> QED BY <1>4, <1>n, <2>2, <2>3, <2>4 DEF Store!Write
<1>5. ASSUME write_erase \/ write_program PROVE UNCHANGED Store!vars
  <2>1. /\ call = "write" /\ MagicAt(data_flash)
        /\ UNCHANGED <<call, req, data_flash>>
        /\ pc \in {"write_erase", "write_program"}
        /\ pc' \in {"write_program", "restore_erase"}
    BY <1>5 DEF write_erase, write_program, step, WriteInv
  <2>2. Writing /\ Writing'
    BY <2>1 DEF Writing
  <2>3. UNCHANGED <<Stored, Contents(Merged)>>
    BY <2>1 DEF Stored, MagicAt, Contents, Merged
  <2> QED BY <1>5, <1>n, <2>2, <2>3 DEF Store!vars
<1>6. CASE restore_erase
  <2>1. /\ pc = "restore_erase" /\ pc' = "restore_program"
        /\ data_flash' = [i \in Addr |-> Erased]
        /\ UNCHANGED <<call, req, code_flash>>
    BY <1>6, <1>0 DEF restore_erase, erase, step
  <2>2. MagicAt(code_flash) /\ call \in {"init", "write"}
    BY <1>6, <1>n, <2>1 DEF RestoreInv
  <2>3. ~MagicAt(data_flash') /\ MagicAt(code_flash')
    BY <2>1, <2>2, MagicFacts DEF MagicAt
  <2>4. Stored' = Contents(code_flash)
    BY <2>1, <2>3 DEF Stored, Contents
  <2>5. CASE call = "write"
    <3>1. \A i \in Addr : code_flash[i] = Merged[i]
      BY <2>1, <2>5 DEF RestoreInv
    <3>2. Stored' = Contents(Merged)
      BY <2>4, <3>1 DEF Contents, Payload
    <3>3. Writing /\ Written' /\ ~Writing'
      BY <2>1, <2>5 DEF Writing, Written
    <3> QED BY <1>6, <1>n, <3>2, <3>3 DEF Store!Next, Store!Commit
  <2>6. CASE call = "init"
    <3>1. Stored = Contents(code_flash)
      BY <2>1, <2>2, <2>6 DEF RestoreInv, Stored
    <3> QED BY <1>6, <1>n, <2>1, <2>4, <2>6, <3>1
            DEF Writing, Written, Store!vars
  <2> QED BY <2>2, <2>5, <2>6
<1>7. CASE restore_program
  <2>1. PICK junk \in Byte :
          /\ data_flash' = program(data_flash, w, code_flash, TRUE, junk)
          /\ IF w > 0 THEN step("restore_program", w - 1) ELSE restored(TRUE)
    BY <1>7, <1>0 DEF restore_program
  <2>2. /\ pc = "restore_program" /\ Copied(data_flash, code_flash)
        /\ MagicAt(code_flash) /\ w \in 0..(WORDS - 1)
        /\ UNCHANGED <<call, req, code_flash>>
    BY <1>7 DEF restore_program, RestoreInv, TypeOK
  <2>3. Stored = Contents(code_flash)
    BY <2>2, MagicIsLast DEF Stored
  <2>4. \A i \in Addr :
          data_flash'[i] = IF i < 2 * w THEN Erased ELSE code_flash[i]
    <3>1. ASSUME NEW j \in Byte
          PROVE  \A i \in Addr : program(data_flash, w, code_flash, TRUE, j)[i] =
                                   IF i < 2 * w THEN Erased ELSE code_flash[i]
      BY <1>d, <2>2, CopyStep
    <3> QED BY <2>1, <3>1
  <2>5. MagicAt(data_flash') => Contents(data_flash') = Contents(code_flash)
    <3>1. SUFFICES ASSUME MagicAt(data_flash')
                   PROVE  Contents(data_flash') = Contents(code_flash)
      OBVIOUS
    <3>2. PICK i \in 0..3 : MAGIC[i] # Erased
      BY ByteAssumption
    <3>3. i \in Addr /\ data_flash'[i] = MAGIC[i]
      BY <3>1, MagicFacts DEF MagicAt
    <3>4. \A j \in Payload : j \in Addr /\ ~(j < 2 * w)
      BY <2>2, <2>4, <3>2, <3>3 DEF Payload, Addr
    <3> QED BY <2>4, <3>4 DEF Contents
  <2>6. UNCHANGED Stored
    BY <2>2, <2>3, <2>5 DEF Stored, MagicAt, Contents
  <2>7. CASE w > 0
    <3>1. pc' = "restore_program"
      BY <2>1, <2>7 DEF step
    <3> QED BY <1>7, <1>n, <2>2, <2>6, <3>1 DEF Writing, Written, Store!vars
  <2>8. CASE w = 0
    <3>1. pc' = "idle"
      BY <2>1, <2>8 DEF restored, return
    <3>2. ~Writing /\ ~Writing' /\ ~Written'
      BY <2>2, <3>1 DEF Writing, Written
    <3> QED BY <1>7, <1>n, <2>6, <3>2 DEF Store!vars, Store!Next, Store!Return
  <2> QED BY <2>2, <2>7, <2>8
<1>8. CASE Shutdown
  <2>1. UNCHANGED Stored
    BY <1>8 DEF Shutdown, Stored, MagicAt, Contents
  <2>2. ~Writing' /\ ~Written'
    BY <1>8 DEF Shutdown, Writing, Written
  <2> QED BY <2>1, <2>2 DEF Store!Next, Store!Shutdown
<1>9. CASE UNCHANGED vars
  BY <1>9 DEF vars, control, Stored, MagicAt, Contents, Writing, Written,
     Merged, Store!vars
<1> QED BY <1>1, <1>2, <1>3, <1>4, <1>5, <1>6, <1>7, <1>8, <1>9
        DEF Next, Store!Next

\* When a command fails, and ever after, the store is broken, and so it is
\* from a write without a block to the next power-up.
LEMMA BrokenStepRefines ==
  ASSUME TypeOK', failed' # {} \/ misused'
  PROVE  Store!Break
<1>1. Stored' \in [Payload -> Byte] \cup {NoData}
  BY ContentsIsData DEF Stored, TypeOK
<1> QED BY <1>1 DEF Store!Break

\* and so it is afterwards.
LEMMA StepRefines ==
  ASSUME Inv, Inv', [Next]_vars
  PROVE  [Store!Next]_(Store!vars)
<1>1. CASE failed' = {} /\ ~misused'
  BY <1>1, GoodStepRefines, FailedGrows DEF Inv, Types
<1>2. CASE ~(failed' = {} /\ ~misused')
  BY <1>2, BrokenStepRefines DEF Inv, Types, Store!Next
<1> QED BY <1>1, <1>2

(* flash.c implements FlashStore: a block that changes at once, whatever the *)
(* moment of a shutdown, until a command of the ROM controller fails or a    *)
(* write is asked for while there is no block.                               *)
THEOREM Refinement == Spec => Refines
<1>1. Init => Store!Init
  BY InitRefines
<1>2. Inv /\ Inv' /\ [Next]_vars => [Store!Next]_(Store!vars)
  BY StepRefines
<1> QED BY <1>1, <1>2, Invariance, PTL DEF Spec, Refines, Store!Spec


-----------------------------------------------------------------------------
(* What is left when program commands fail                                   *)

\* Some byte of the magic is not erased.
Begun(f) == \E i \in 0..3 : f[i] # Erased

\* Then a loop may have stopped at any word, with the magic, or the request,
\* not there; a write without a block copies another magic.  Where a word of
\* the magic is, the payload is.
MixInv ==
  /\ pc \in {"format_erase", "format"} => call = "init" /\ ~MagicAt(code_flash)
  /\ pc = "format" => \A i \in Addr : i >= 2 * w => data_flash[i] = Erased
  /\ pc \in {"write_erase", "write_program"} => call = "write"
  /\ pc = "write_program" => Copied(code_flash, Merged)
  /\ pc \in {"restore_erase", "restore_program"} => call \in {"init", "write"}
  /\ pc = "restore_erase" =>
       IF call = "init" THEN ~MagicAt(data_flash) /\ MagicAt(code_flash)
       ELSE Begun(code_flash) => Contents(code_flash) = Contents(Merged)
  /\ pc = "restore_program" =>
       /\ Copied(data_flash, code_flash)
       /\ IF call = "init" THEN MagicAt(code_flash)
          ELSE Begun(code_flash) =>
                 \A i \in DOMAIN req \cap Payload : code_flash[i] = req[i]

\* The next word of a copy, programmed or not.
LEMMA CopyOrNot ==
  ASSUME NEW f \in Image, NEW v \in Image, NEW junk \in Byte,
         NEW ok \in BOOLEAN, w \in 0..(WORDS - 1), Copied(f, v)
  PROVE  IF ok
         THEN \A i \in Addr : program(f, w, v, ok, junk)[i] =
                                IF i < 2 * w THEN Erased ELSE v[i]
         ELSE program(f, w, v, ok, junk) = f
<1>1. CASE ok = TRUE
  BY <1>1, CopyStep
<1>2. CASE ok = FALSE
  BY <1>2 DEF program
<1> QED BY <1>1, <1>2

\* A magic is not erased.
LEMMA MagicBegun == ASSUME NEW f, MagicAt(f) PROVE Begun(f)
BY ByteAssumption DEF MagicAt, Begun

\* Where the first words are missing but some of the magic is there, the
\* payload is.
LEMMA MagicBelow ==
  ASSUME NEW f, NEW v, NEW n \in Nat, Begun(f),
         \A i \in Addr : f[i] = IF i < n THEN Erased ELSE v[i]
  PROVE  Contents(f) = Contents(v) /\ Begun(v)
<1>1. PICK i \in 0..3 : f[i] # Erased
  BY DEF Begun
<1>2. i \in Addr
  BY MagicFacts
<1>3. ~(i < n) /\ f[i] = v[i]
  BY <1>1, <1>2
<1>4. \A j \in Payload : j \in Addr /\ ~(j < n)
  BY <1>3 DEF Payload, Addr
<1>5. \A j \in Payload : f[j] = v[j]
  BY <1>4
<1>6. Begun(v)
  BY <1>1, <1>3 DEF Begun
<1> QED BY <1>5, <1>6 DEF Contents

\* The blocks a step may leave.
Blocks == {Stored, NoData, Contents(Merged), [i \in Payload |-> Erased]}

\* No step but a failed erase leaves a mixture.
LEMMA NextMix ==
  ASSUME Types, Types', MixInv, "erase" \notin failed', [Next]_vars
  PROVE  MixInv' /\ Stored' \in Blocks
<1> USE MagicFacts DEF Types
<1>0. \A ok \in BOOLEAN : ROM_STATUS("erase", ok) => ok = TRUE
  BY DEF ROM_STATUS
<1>d. /\ data_flash \in Image /\ code_flash \in Image /\ w \in 0..(WORDS - 1)
      /\ Merged \in Image /\ (w > 0 \/ w = 0)
  BY RequestFacts DEF TypeOK
<1>1. ASSUME NEW force \in BOOLEAN, flash_init(force)
      PROVE  MixInv' /\ Stored' \in Blocks
  <2>1. Stored' \in Blocks
    BY <1>1 DEF flash_init, Stored, MagicAt, Contents, Blocks
  <2> QED BY <1>1, <2>1 DEF flash_init, step, MixInv, MagicAt
<1>2. CASE format_erase
  <2>1. /\ data_flash' = [i \in Addr |-> Erased] /\ UNCHANGED code_flash
        /\ pc' = "format" /\ w' = 0 /\ call' = "init" /\ ~MagicAt(code_flash)
    BY <1>2, <1>0 DEF format_erase, erase, step, MixInv
  <2>2. ~MagicAt(data_flash)' /\ ~MagicAt(code_flash)'
        /\ \A i \in Addr : data_flash'[i] = Erased
    BY <2>1 DEF MagicAt
  <2> QED BY <2>1, <2>2 DEF MixInv, Stored, Blocks
<1>3. CASE format
  <2>1. PICK ok \in BOOLEAN, junk \in Byte :
          data_flash' = program(data_flash, w, MAGIC, ok, junk)
    BY <1>3 DEF format
  <2>2. /\ (pc' = "format" /\ w' = 1 /\ w = 0) \/ pc' = "idle"
        /\ call' = "init" /\ ~MagicAt(code_flash)' /\ w \in {0, 1}
        /\ \A i \in Addr : i >= 2 * w => data_flash[i] = Erased
    BY <1>3 DEF format, step, return, MixInv, MagicAt
  <2>3. \A i \in Addr : data_flash'[i] \in
          IF i \in Word(w) THEN {Erased, MAGIC[i]} ELSE {data_flash[i]}
    <3>1. \A i \in Addr : i \in Word(w) => data_flash[i] = Erased
      BY <2>2 DEF Word
    <3> QED BY <2>1, <3>1 DEF program
  <2>5. \A i \in Addr : i >= 2 * w + 2 => data_flash'[i] = Erased
    <3>1. \A i \in Addr : i >= 2 * w + 2 => i \notin Word(w) /\ i >= 2 * w
      BY <2>2 DEF Word, Addr
    <3> QED BY <2>2, <2>3, <3>1
  <2>6. Contents(data_flash)' = [i \in Payload |-> Erased]
    BY <2>2, <2>5 DEF Contents, Payload, Addr
  <2> QED BY <2>2, <2>5, <2>6 DEF MixInv, Stored, Blocks
<1>4. ASSUME NEW r \in Requests, flash_write(r)
      PROVE  MixInv' /\ Stored' \in Blocks
  <2>1. Stored' \in Blocks
    BY <1>4 DEF flash_write, Stored, MagicAt, Contents, Blocks
  <2> QED BY <1>4, <2>1 DEF flash_write, step, MixInv
<1>5. CASE write_erase
  <2>1. /\ call = "write"
        /\ code_flash' = [i \in Addr |-> Erased]
        /\ pc' = "write_program" /\ w' = WORDS - 1
        /\ UNCHANGED <<call, req, data_flash>>
    BY <1>5, <1>0 DEF write_erase, erase, step, MixInv
  <2>2. Copied(code_flash, Merged)'
    BY <2>1, SizeAssumption DEF Copied, Addr
  <2>3. ~MagicAt(code_flash)'
    BY <2>1 DEF MagicAt
  <2>4. Stored' \in Blocks
    BY <2>1, <2>3 DEF Stored, Blocks, MagicAt, Contents
  <2> QED BY <2>1, <2>2, <2>3, <2>4 DEF MixInv
<1>6. CASE write_program
  <2>1. PICK ok \in BOOLEAN, junk \in Byte :
          /\ code_flash' = program(code_flash, w, Merged, ok, junk)
          /\ IF w > 0 /\ ok THEN step("write_program", w - 1)
             ELSE step("restore_erase", 0)
    BY <1>6 DEF write_program
  <2>2. /\ call = "write" /\ Copied(code_flash, Merged)
        /\ UNCHANGED <<call, req, data_flash>>
    BY <1>6 DEF write_program, MixInv
  <2>3. Merged' = Merged
    BY <2>2 DEF Merged
  <2>4. IF ok THEN \A i \in Addr :
                     code_flash'[i] = IF i < 2 * w THEN Erased ELSE Merged[i]
        ELSE code_flash' = code_flash
    BY <1>d, <2>1, <2>2, CopyOrNot
  <2>8. Begun(code_flash') => Contents(code_flash') = Contents(Merged)
    <3>1. CASE ok = TRUE
      BY <1>d, <2>4, <3>1, MagicBelow, SizeAssumption
    <3>2. CASE ok = FALSE
      BY <1>d, <2>2, <2>4, <3>2, MagicBelow, SizeAssumption DEF Copied
    <3> QED BY <3>1, <3>2
  <2>7. MagicAt(code_flash') => Begun(code_flash')
    BY MagicBegun
  <2>9. MixInv'
    <3>1. CASE w > 0 /\ ok
      <4>1. pc' = "write_program" /\ w' = w - 1
        BY <2>1, <3>1 DEF step
      <4>2. Copied(code_flash, Merged)'
        BY <1>d, <2>3, <2>4, <3>1, <4>1 DEF Copied, Addr
      <4> QED BY <2>2, <2>3, <4>1, <4>2 DEF MixInv
    <3>2. CASE ~(w > 0 /\ ok)
      <4>1. pc' = "restore_erase"
        BY <2>1, <3>2 DEF step
      <4>2. Contents(Merged)' = Contents(Merged)
        BY <2>3 DEF Contents
      <4>3. Contents(code_flash)' = Contents(code_flash')
        BY DEF Contents
      <4>4. Begun(code_flash)' = Begun(code_flash')
        BY DEF Begun
      <4> QED BY <2>2, <2>8, <4>1, <4>2, <4>3, <4>4 DEF MixInv
    <3> QED BY <3>1, <3>2
  <2>10. Stored' \in Blocks
    BY <2>2, <2>7, <2>8 DEF Stored, Blocks, MagicAt, Contents
  <2> QED BY <2>9, <2>10
<1>7. CASE restore_erase
  <2>1. /\ pc = "restore_erase" /\ call \in {"init", "write"}
        /\ data_flash' = [i \in Addr |-> Erased]
        /\ pc' = "restore_program" /\ w' = WORDS - 1
        /\ UNCHANGED <<call, req, code_flash>>
    BY <1>7, <1>0 DEF restore_erase, erase, step, MixInv
  <2>2. Copied(data_flash, code_flash)'
    BY <2>1, SizeAssumption DEF Copied, Addr
  <2>4. ~MagicAt(data_flash)' /\ MagicAt(code_flash)' = MagicAt(code_flash)
    BY <2>1 DEF MagicAt
  <2>7. call = "write" /\ Begun(code_flash) =>
          \A i \in DOMAIN req \cap Payload : code_flash[i] = req[i]
    BY <2>1 DEF MixInv, Contents, Merged, Payload
  <2>8. Begun(code_flash)' = Begun(code_flash)
    BY <2>1 DEF Begun
  <2>9. call = "init" => MagicAt(code_flash)
    BY <2>1 DEF MixInv
  <2>3. MixInv'
    BY <2>1, <2>2, <2>4, <2>7, <2>8, <2>9 DEF MixInv
  <2>5. Contents(code_flash)' = Contents(code_flash)
    BY <2>1 DEF Contents
  <2>6. Stored' \in Blocks
    BY <2>1, <2>4, <2>5, MagicBegun DEF MixInv, Stored, Blocks
  <2> QED BY <2>3, <2>6
<1>8. CASE restore_program
  <2>1. PICK ok \in BOOLEAN, junk \in Byte :
          /\ data_flash' = program(data_flash, w, code_flash, ok, junk)
          /\ IF w > 0 /\ ok THEN step("restore_program", w - 1)
             ELSE restored(ok)
    BY <1>8 DEF restore_program
  <2>2. /\ Copied(data_flash, code_flash)
        /\ call \in {"init", "write"} /\ UNCHANGED <<call, req, code_flash>>
        /\ IF call = "init" THEN MagicAt(code_flash)
           ELSE Begun(code_flash) =>
                  \A i \in DOMAIN req \cap Payload : code_flash[i] = req[i]
    BY <1>8 DEF restore_program, MixInv
  <2>3. IF ok THEN \A i \in Addr :
                     data_flash'[i] = IF i < 2 * w THEN Erased ELSE code_flash[i]
        ELSE data_flash' = data_flash
    BY <1>d, <2>1, <2>2, CopyOrNot
  <2>4. /\ MagicAt(data_flash) =>
             Contents(data_flash) = Contents(code_flash) /\ Begun(code_flash)
        /\ 2 * w + 2 \in Nat /\ 2 * w \in Nat
    BY <1>d, <2>2, MagicBegun, MagicBelow, SizeAssumption DEF Copied
  <2>5. MagicAt(data_flash') =>
          Contents(data_flash') = Contents(code_flash) /\ Begun(code_flash)
    <3>1. CASE ok = TRUE
      BY <1>d, <2>3, <2>4, <3>1, MagicBegun, MagicBelow
    <3>2. CASE ok = FALSE
      BY <2>3, <2>4, <3>2
    <3> QED BY <3>1, <3>2
  <2>7. /\ Contents(code_flash)' = Contents(code_flash)
        /\ Contents(data_flash)' = Contents(data_flash')
        /\ Begun(code_flash)' = Begun(code_flash)
        /\ MagicAt(code_flash)' = MagicAt(code_flash)
        /\ MagicAt(data_flash)' = MagicAt(data_flash')
    BY <2>2 DEF Contents, Begun, MagicAt
  <2>6. ASSUME MagicAt(data_flash'), ~MagicAt(data_flash), ~MagicAt(code_flash)
        PROVE  Contents(code_flash) = Contents(Merged)
    <3>1. PICK i \in 0..3 : data_flash'[i] # data_flash[i]
      BY <2>6 DEF MagicAt
    <3>2. i \in Word(w)
      BY <2>1, <3>1 DEF program
    <3>3. w \in {0, 1}
      BY <1>d, <3>2 DEF Word
    <3>4. \A j \in Payload : j \in Addr /\ ~(j < 2 * w + 2)
      BY <3>3 DEF Payload, Addr
    <3>5. \A j \in Payload : data_flash[j] = code_flash[j]
      BY <2>2, <3>4 DEF Copied
    <3>6. \A j \in DOMAIN req \cap Payload : code_flash[j] = req[j]
      BY <2>2, <2>5, <2>6
    <3>7. \A j \in Payload : code_flash[j] = Merged[j]
      BY <3>4, <3>5, <3>6 DEF Merged
    <3> QED BY <3>7 DEF Contents
  <2>8. Stored' \in Blocks
    <3>1. CASE MagicAt(code_flash)
      <4>1. Stored = Contents(code_flash) /\ Stored' = Contents(code_flash)
        BY <2>4, <2>5, <2>7, <3>1 DEF Stored
      <4> QED BY <4>1 DEF Blocks
    <3>2. CASE ~MagicAt(code_flash) /\ MagicAt(data_flash')
      <4>1. Stored' = Contents(code_flash)
        BY <2>5, <2>7, <3>2 DEF Stored
      <4>2. MagicAt(data_flash) => Stored = Contents(code_flash)
        BY <2>4 DEF Stored
      <4> QED BY <2>6, <3>2, <4>1, <4>2 DEF Blocks
    <3>3. CASE ~MagicAt(code_flash) /\ ~MagicAt(data_flash')
      <4>1. Stored' = NoData
        BY <2>7, <3>3 DEF Stored, NoData
      <4> QED BY <4>1 DEF Blocks
    <3> QED BY <3>1, <3>2, <3>3
  <2>9. MixInv'
    <3>1. CASE w > 0 /\ ok
      <4>1. pc' = "restore_program" /\ w' = w - 1
        BY <2>1, <3>1 DEF step
      <4>2. Copied(data_flash, code_flash)'
        BY <1>d, <2>2, <2>3, <3>1, <4>1 DEF Copied, Addr
      <4> QED BY <2>2, <2>7, <4>1, <4>2 DEF MixInv
    <3>2. CASE ~(w > 0 /\ ok)
      <4>1. pc' = "idle"
        BY <2>1, <3>2 DEF restored, return
      <4> QED BY <4>1 DEF MixInv
    <3> QED BY <3>1, <3>2
  <2> QED BY <2>8, <2>9
<1>9. CASE Shutdown \/ UNCHANGED vars
  <2>1. Stored' \in Blocks
    BY <1>9 DEF Shutdown, vars, Stored, MagicAt, Contents, Blocks
  <2>2. MixInv'
    <3>1. CASE Shutdown
      BY <3>1 DEF Shutdown, MixInv
    <3>2. CASE UNCHANGED vars
      BY <3>2 DEF vars, control, MixInv, Begun, MagicAt, Contents, Copied,
         Merged
    <3> QED BY <1>9, <3>1, <3>2
  <2> QED BY <2>1, <2>2
<1> QED BY <1>1, <1>2, <1>3, <1>4, <1>5, <1>6, <1>7, <1>8, <1>9 DEF Next

(* Program commands may fail wherever they do: until an erase fails, the     *)
(* block flash_init finds after a step is the one it would have found before *)
(* it, none, the whole one that is being written, or a fresh one.            *)
THEOREM NoMixture == Spec => NeverMixed
<1> DEFINE M == "erase" \notin failed => MixInv
<1>1. Init => M
  BY DEF Init, MixInv
<1>2. [Next]_vars /\ "erase" \notin failed' => "erase" \notin failed
  BY DEF Next, vars, flash_init, format_erase, format, flash_write,
     write_erase, write_program, restore_erase, restore_program, Shutdown,
     ROM_STATUS
<1>3. Inv /\ Inv' /\ M /\ [Next]_vars => M'
  BY <1>2, NextMix DEF Inv
<1>4. Inv /\ Inv' /\ M /\ [Next]_vars =>
        [\/ "erase" \in failed'
         \/ Stored' \in {Stored, NoData, Contents(Merged),
                         [i \in Payload |-> Erased]}]_vars
  BY <1>2, NextMix DEF Inv, Blocks
<1> QED BY <1>1, <1>3, <1>4, Invariance, PTL DEF Spec, NeverMixed

=============================================================================
