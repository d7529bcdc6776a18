-------------------------------- MODULE Smp --------------------------------
(***************************************************************************)
(* The Security Manager, src/ble/smp.c: legacy pairing on the peripheral's *)
(* side.  Its functions map a session (struct smp_session and the cached   *)
(* round keys of the TK) to a session and a response.  Of a confirm value  *)
(* and of the round keys only the TK they were made with is kept, of a key *)
(* the number of the bond it belongs to: what random_fill fills in is      *)
(* taken to differ from what it filled in before.  The central sends PDUs  *)
(* of the right length.                                                    *)
(***************************************************************************)
EXTENDS Naturals

CONSTANT Passkey  \* whether the application set a passkey

ASSUME PasskeyAssumption == Passkey \in BOOLEAN

NoKey == 0        \* bonds are numbered in the order of their generation
Keys == Nat \ {NoKey}

TKs == {"just_works", "passkey", "wrong"}

\* A PDU: its opcode, the TK its value was made with, the bond it is about.
Pdu(op, tk, bond) == [op |-> op, tk |-> tk, bond |-> bond]
Plain(op) == Pdu(op, "none", NoKey)
NoPdu == Plain("none")

States ==
  {"IDLE", "AWAITING_CONFIRM", "AWAITING_RANDOM", "STK_READY", "FAILED"}

smp_session ==
  [state: States, jw_mode: BOOLEAN, phase3_index: 0..2, bond: Nat,
   tk: {"none", "just_works", "passkey"}, mconfirm: {"none"} \union TKs]

\* A session of static storage, before smp_init.
Blank == [state |-> "IDLE", jw_mode |-> FALSE, phase3_index |-> 0,
          bond |-> NoKey, tk |-> "none", mconfirm |-> "none"]

\* Mutant: the cached round keys outlive the connection.
init_keeps_tk(s) ==
  [s EXCEPT !.state = "IDLE", !.jw_mode = TRUE, !.phase3_index = 0]

\* Mutant: the key distribution is not started over.
init_keeps_index(s) ==
  [s EXCEPT !.state = "IDLE", !.jw_mode = TRUE, !.tk = "none"]

\* Neither the bond nor mconfirm is touched.
smp_init(s) ==
  [s EXCEPT !.state = "IDLE", !.jw_mode = TRUE, !.phase3_index = 0,
            !.tk = "none"]

smp_set_bond(s, bond) == [s EXCEPT !.bond = bond]

smp_get_bond(s) == s.bond

Answer(s, pdu) == [session |-> s, pdu |-> pdu]

fail(s) == Answer(s, Plain("pairing_failed"))

\* The central asks for protection, and has a keyboard, if it means to use the
\* passkey.
on_pairing_request(s, pdu) ==
  Answer([s EXCEPT !.bond = NoKey,
                   !.jw_mode = ~(pdu.tk # "just_works" /\ Passkey),
                   !.state = "AWAITING_CONFIRM"],
         Plain("pairing_response"))

ensure_tk_keys(s) ==
  IF s.tk # "none" THEN s
  ELSE [s EXCEPT !.tk = IF s.jw_mode THEN "just_works" ELSE "passkey"]

on_pairing_confirm(s, pdu) ==
  IF s.state # "AWAITING_CONFIRM" THEN fail(s)
  ELSE Answer([ensure_tk_keys(s) EXCEPT !.mconfirm = pdu.tk,
                                        !.state = "AWAITING_RANDOM"],
              Plain("pairing_confirm"))

on_pairing_random(s, pdu) ==
  IF s.state # "AWAITING_RANDOM" THEN fail(s)
  ELSE IF s.mconfirm # s.tk THEN fail([s EXCEPT !.state = "FAILED"])
  ELSE Answer([s EXCEPT !.state = "STK_READY"], Plain("pairing_random"))

\* The keys of a central, which smp.c accepts silently, are not modelled: ours
\* distributes none.
smp_handle_pdu(s, pdu) ==
  CASE pdu.op = "pairing_request" -> on_pairing_request(s, pdu)
    [] pdu.op = "pairing_confirm" -> on_pairing_confirm(s, pdu)
    [] pdu.op = "pairing_random" -> on_pairing_random(s, pdu)
    [] pdu.op = "pairing_failed" ->
         Answer([s EXCEPT !.state = "FAILED"], NoPdu)
    [] OTHER -> fail(s)

\* The session of the next PDU of the key distribution, and the PDU; fresh is
\* the bond that is generated if there is none.
smp_next_phase3_pdu(s, fresh) ==
  LET t == IF s.bond = NoKey THEN [s EXCEPT !.bond = fresh] ELSE s
  IN  CASE t.phase3_index = 0 ->
             Answer([t EXCEPT !.phase3_index = 1],
                    Pdu("encryption_info", "none", t.bond))
        [] t.phase3_index = 1 ->
             Answer([t EXCEPT !.phase3_index = 2],
                    Pdu("master_identification", "none", t.bond))
        [] OTHER -> Answer(t, NoPdu)

\* EDIV and RAND name a bond.
smp_lookup_ltk(s, bond) == s.bond # NoKey /\ s.bond = bond

=============================================================================
