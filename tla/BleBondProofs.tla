--------------------------- MODULE BleBondProofs ---------------------------
(***************************************************************************)
(* Proofs about BlePeripheral for centrals that pair once per connection   *)
(* (or again with the same method after a failure), and an application that*)
(* sends reports from on_sent or with no transfer under way: the bond the  *)
(* central holds is the one the peripheral knows and the application saved.*)
(* Then, from the same effects of the actions: a pairing of such a central *)
(* fails only if the user typed the wrong passkey.                         *)
(***************************************************************************)
EXTENDS BleProofs

\* What the central sends of a pairing, and what it waits for.
SmpRequests == {"pairing_request", "pairing_confirm", "pairing_random"}
SmpResponses ==
  {"pairing_response", "pairing_confirm", "pairing_random", "pairing_failed"}
Pairing == {"request", "confirm", "random"}

(* The pipe of events.                                                       *)
NoConnection(events) ==
  \A i \in 1..Len(events) : events[i].op # "connection"
ConnectionBefore(events, i) ==
  \E k \in 1..Len(events) : k < i /\ events[k].op = "connection"
ConnectionBehind(events, i) ==
  \E k \in 1..Len(events) : i < k /\ events[k].op = "connection"

\* The connections whose events wait come after the h-th, up to the n-th.
Numbered(events, h, n) ==
  /\ \A i \in 1..Len(events) : events[i].op = "connection" =>
       h < events[i].value /\ events[i].value <= n
  /\ \A i, j \in 1..Len(events) :
       i < j /\ events[i].op = "connection" /\ events[j].op = "connection" =>
         events[i].value < events[j].value

\* Of the present link there is no end, and no encryption unless it has one.
Current(events, encrypted) ==
  \A i \in 1..Len(events) :
    /\ events[i].op = "encryption_change" =>
         encrypted \/ ConnectionBehind(events, i)
    /\ events[i].op = "disconnection" => ConnectionBehind(events, i)

\* Every encryption that waits is one of a connection that waits.
Later(events) ==
  \A i \in 1..Len(events) :
    events[i].op = "encryption_change" => ConnectionBefore(events, i)

\* Behind an end the next encryption is one of a later connection.
Between(events) ==
  \A i, j \in 1..Len(events) :
    /\ events[i].op = "disconnection" /\ events[j].op = "encryption_change"
    /\ i < j
    => \E k \in 1..Len(events) : i < k /\ k < j /\ events[k].op = "connection"

NoEncryption(events) ==
  \A i \in 1..Len(events) : events[i].op # "encryption_change"

(* The pipe of packets.                                                      *)
HasSmp(acl) == \E i \in 1..Len(acl) : acl[i].op \in SmpRequests
HasRequest(acl) == \E i \in 1..Len(acl) : acl[i].op = "pairing_request"
OneSmp(acl) ==
  \A i, j \in 1..Len(acl) :
    acl[i].op \in SmpRequests /\ acl[j].op \in SmpRequests => i = j
KnownOps(acl) == \A i \in 1..Len(acl) : acl[i].op \in SmpRequests \union AttOps

(* Connections are numbered: what the peripheral knows of, or sends to, is   *)
(* older than those whose events are still to come.                          *)
HandleInv ==
  /\ acl_tx_buf.handle <= conn_handle /\ usb.packet.handle <= conn_handle
  /\ conn_handle <= count.connections
  /\ Numbered(dongle.events, conn_handle, count.connections)

\* A connection has packets in the dongle only after its event was polled.
PacketsInv ==
  /\ ~NoConnection(dongle.events) => dongle.acl = <<>>
  /\ KnownOps(dongle.acl)

(* An answer of the security manager that the central of this connection     *)
(* will take, staged or under way.                                           *)
Answers(packet) ==
  packet.handle = count.connections /\ packet.pdu.op \in SmpResponses
AnswerStaged == state = "SEND_ACL" /\ Answers(acl_tx_buf)
AnswerSent == usb.pipe = "out" /\ Answers(usb.packet)

(* One side at a time: either a PDU of the central waits in the dongle or    *)
(* its answer is on the way.                                                 *)
TurnInv ==
  dongle.link =>
    /\ HasSmp(dongle.acl) =>
         central.pairing \in Pairing /\ ~AnswerStaged /\ ~AnswerSent
    /\ OneSmp(dongle.acl)
    /\ AnswerStaged \/ AnswerSent => central.pairing \in Pairing
    /\ ~(AnswerStaged /\ AnswerSent)

(* The central encrypts its link once.                                       *)
CentralInv ==
  /\ central.pairing # "idle" \/ central.ltk # "none" => dongle.link
  /\ central.ltk = "ltk" => central.pairing = "idle"
  /\ central.ltk = "stk" => central.pairing = "stk"
  /\ central.pairing \in Pairing \union {"stk", "failed"} => ~dongle.encrypted

\* The distribution of the keys was cut off by the end of the connection.
CutOff ==
  smp.phase3_index # 0 /\ ~smp_phase3_pending /\ smp.state = "STK_READY"

(* Events come in the order of what happened: the encryption of a link       *)
(* between its connection and its end.                                       *)
OrderInv ==
  /\ dongle.link => Current(dongle.events, dongle.encrypted)
  /\ dongle.link /\ NoConnection(dongle.events) =>
       ~CutOff /\ (smp.phase3_index # 0 => dongle.encrypted)
  /\ CutOff => Later(dongle.events)
  /\ Between(dongle.events)

(* While a PDU of a pairing waits in the dongle, no keys are distributed.    *)
RequestInv ==
  HasSmp(dongle.acl) =>
    /\ smp.phase3_index = 0 /\ ~smp_phase3_pending
    /\ NoEncryption(dongle.events)
    /\ HasRequest(dongle.acl) => central.bond = NoKey

EncInfo(bond) == Pdu("encryption_info", "none", bond)
MasterId(bond) == Pdu("master_identification", "none", bond)

\* What was handed to usb_host_out, and what will be next.
Handed == sent \union (IF state = "SEND_ACL" THEN {acl_tx_buf.pdu} ELSE {})

(* While the keys are distributed those of the bond have been sent, one      *)
(* after the other, and with the second the bond is saved.                   *)
KeysInv ==
  /\ smp_phase3_pending =>
       /\ smp.bond # NoKey /\ smp.phase3_index \in {1, 2}
       /\ EncInfo(smp.bond) \in Handed
       /\ smp.phase3_index = 2 => MasterId(smp.bond) \in Handed
  /\ state = "SEND_ACL" /\ acl_tx_buf.pdu.op = "master_identification" =>
       /\ smp_phase3_pending /\ encrypted_state /\ smp.phase3_index = 2
       /\ acl_tx_buf.pdu.bond = smp.bond
  /\ usb.pipe = "out" /\ usb.packet.pdu.op = "master_identification" =>
       /\ smp.phase3_index = 2
       /\ usb.packet.pdu.bond = smp.bond /\ usb.packet.pdu.bond = saved

BondInv ==
  /\ HandleInv /\ PacketsInv /\ TurnInv /\ CentralInv /\ OrderInv /\ RequestInv
  /\ KeysInv /\ BondAgreement

-----------------------------------------------------------------------------
(* The two pipes move on, or take one more *)

\* Where the elements of a sequence are when its first one is taken,
LEMMA TailIndex ==
  ASSUME NEW S, NEW s \in Seq(S), s # <<>>
  PROVE  /\ Tail(s) \in Seq(S) /\ 1 \in 1..Len(s) /\ Head(s) = s[1]
         /\ \A i \in 1..Len(Tail(s)) :
              i \in Nat /\ i + 1 \in 2..Len(s) /\ Tail(s)[i] = s[i + 1]
         /\ \A i \in 2..Len(s) :
              i - 1 \in 1..Len(Tail(s)) /\ Tail(s)[i - 1] = s[i]
         /\ \A i \in 1..Len(s) : i = 1 \/ i \in 2..Len(s)
<1>1. /\ Tail(s) \in Seq(S) /\ Len(Tail(s)) = Len(s) - 1
      /\ Head(s) = s[1] /\ Len(s) \in Nat /\ Len(s) # 0
      /\ \A i \in 1..Len(s) - 1 : Tail(s)[i] = s[i + 1]
  BY HeadTailProperties, LenProperties, EmptySeq
<1>2. ASSUME NEW i \in 2..Len(s)
      PROVE  i - 1 \in 1..Len(Tail(s)) /\ Tail(s)[i - 1] = s[i]
  <2>1. i - 1 \in 1..Len(s) - 1 /\ (i - 1) + 1 = i
    BY <1>1
  <2> QED BY <1>1, <2>1
<1> QED BY <1>1, <1>2

\* and when one more is put behind it.
LEMMA AppendIndex ==
  ASSUME NEW S, NEW s \in Seq(S), NEW e \in S
  PROVE  /\ Append(s, e) \in Seq(S) /\ Len(s) \in Nat
         /\ Len(Append(s, e)) = Len(s) + 1
         /\ \A i \in 1..Len(s) :
              i \in 1..Len(Append(s, e)) /\ Append(s, e)[i] = s[i]
         /\ Len(s) + 1 \in 1..Len(Append(s, e))
         /\ Append(s, e)[Len(s) + 1] = e
         /\ \A i \in 1..Len(Append(s, e)) : i \in 1..Len(s) \/ i = Len(s) + 1
<1>1. /\ Append(s, e) \in Seq(S) /\ Len(s) \in Nat
      /\ Len(Append(s, e)) = Len(s) + 1
      /\ \A i \in 1..Len(s) : Append(s, e)[i] = s[i]
      /\ Append(s, e)[Len(s) + 1] = e
  BY AppendProperties, LenProperties
<1> QED BY <1>1

\* What remains of the events when the first was polled.
LEMMA EventsTail ==
  ASSUME NEW events \in Seq(EventSet), events # <<>>
  PROVE  /\ \A h, n \in Nat : Numbered(events, h, n) =>
              Numbered(Tail(events), h, n)
         /\ \A encrypted : Current(events, encrypted) =>
              Current(Tail(events), encrypted)
         /\ Between(events) => Between(Tail(events))
         /\ NoEncryption(events) => NoEncryption(Tail(events))
         /\ NoConnection(events) => NoConnection(Tail(events))
<1>1. ASSUME NEW h \in Nat, NEW n \in Nat, Numbered(events, h, n)
      PROVE  Numbered(Tail(events), h, n)
  BY <1>1, TailIndex DEF Numbered
<1>2. ASSUME NEW i \in 1..Len(Tail(events)), ConnectionBehind(events, i + 1)
      PROVE  ConnectionBehind(Tail(events), i)
  <2>1. PICK k \in 1..Len(events) : i + 1 < k /\ events[k].op = "connection"
    BY <1>2 DEF ConnectionBehind
  <2>2. k \in 2..Len(events) /\ i \in Nat /\ i < k - 1
    BY <2>1, TailIndex
  <2> QED BY <2>1, <2>2, TailIndex DEF ConnectionBehind
<1>3. ASSUME NEW encrypted, Current(events, encrypted)
      PROVE  Current(Tail(events), encrypted)
  <2>1. ASSUME NEW i \in 1..Len(Tail(events))
        PROVE  i + 1 \in 1..Len(events) /\ Tail(events)[i] = events[i + 1]
    BY TailIndex
  <2> QED BY <1>2, <1>3, <2>1 DEF Current
<1>4. ASSUME Between(events) PROVE Between(Tail(events))
  <2>1. SUFFICES ASSUME NEW i \in 1..Len(Tail(events)),
                        NEW j \in 1..Len(Tail(events)), i < j,
                        Tail(events)[i].op = "disconnection",
                        Tail(events)[j].op = "encryption_change"
                 PROVE  \E k \in 1..Len(Tail(events)) :
                          /\ i < k /\ k < j
                          /\ Tail(events)[k].op = "connection"
    BY DEF Between
  <2>2. /\ i + 1 \in 1..Len(events) /\ Tail(events)[i] = events[i + 1]
        /\ j + 1 \in 1..Len(events) /\ Tail(events)[j] = events[j + 1]
        /\ i + 1 < j + 1 /\ i \in Nat /\ j \in Nat
    BY <2>1, TailIndex
  <2>3. PICK k \in 1..Len(events) :
          i + 1 < k /\ k < j + 1 /\ events[k].op = "connection"
    BY <1>4, <2>1, <2>2 DEF Between
  <2>4. k \in 2..Len(events) /\ i < k - 1 /\ k - 1 < j
    BY <2>2, <2>3
  <2>5. k - 1 \in 1..Len(Tail(events)) /\ Tail(events)[k - 1] = events[k]
    BY <2>4, TailIndex
  <2> QED BY <2>3, <2>4, <2>5
<1>5. NoEncryption(events) => NoEncryption(Tail(events))
  BY TailIndex DEF NoEncryption
<1>6. NoConnection(events) => NoConnection(Tail(events))
  BY TailIndex DEF NoConnection
<1> QED BY <1>1, <1>3, <1>4, <1>5, <1>6

\* What the first event says of those that remain.
LEMMA EventsHead ==
  ASSUME NEW events \in Seq(EventSet), events # <<>>
  PROVE  /\ Head(events).op # "connection" =>
              /\ NoConnection(Tail(events)) => NoConnection(events)
              /\ Later(events) => Later(Tail(events))
         /\ Head(events).op = "disconnection" =>
              /\ Between(events) => Later(Tail(events))
              /\ \A encrypted : Current(events, encrypted) =>
                   ~NoConnection(Tail(events))
         /\ Head(events).op = "encryption_change" =>
              /\ ~Later(events) /\ ~NoEncryption(events)
              /\ \A encrypted : Current(events, encrypted) =>
                   encrypted \/ ~NoConnection(Tail(events))
         /\ Head(events).op = "connection" =>
              \A h, n \in Nat : Numbered(events, h, n) =>
                /\ h < Head(events).value /\ Head(events).value <= n
                /\ Numbered(Tail(events), Head(events).value, n)
<1>1. ASSUME Head(events).op # "connection", NoConnection(Tail(events))
      PROVE  NoConnection(events)
  <2>1. ASSUME NEW i \in 2..Len(events) PROVE events[i].op # "connection"
    <3>1. i - 1 \in 1..Len(Tail(events)) /\ Tail(events)[i - 1] = events[i]
      BY TailIndex
    <3> QED BY <1>1, <3>1 DEF NoConnection
  <2> QED BY <1>1, <2>1, TailIndex DEF NoConnection
<1>2. ASSUME Head(events).op # "connection", Later(events)
      PROVE  Later(Tail(events))
  <2>1. SUFFICES ASSUME NEW i \in 1..Len(Tail(events)),
                        Tail(events)[i].op = "encryption_change"
                 PROVE  ConnectionBefore(Tail(events), i)
    BY DEF Later
  <2>2. i + 1 \in 1..Len(events) /\ Tail(events)[i] = events[i + 1] /\ i \in Nat
    BY TailIndex
  <2>3. PICK k \in 1..Len(events) : k < i + 1 /\ events[k].op = "connection"
    BY <1>2, <2>1, <2>2 DEF Later, ConnectionBefore
  <2>4. k \in 2..Len(events) /\ k - 1 < i
    BY <1>2, <2>2, <2>3, TailIndex
  <2> QED BY <2>3, <2>4, TailIndex DEF ConnectionBefore
<1>3. ASSUME Head(events).op = "disconnection", Between(events)
      PROVE  Later(Tail(events))
  <2>1. SUFFICES ASSUME NEW i \in 1..Len(Tail(events)),
                        Tail(events)[i].op = "encryption_change"
                 PROVE  ConnectionBefore(Tail(events), i)
    BY DEF Later
  <2>2. /\ i + 1 \in 1..Len(events) /\ Tail(events)[i] = events[i + 1]
        /\ i \in Nat /\ 1 < i + 1 /\ 1 \in 1..Len(events)
    BY TailIndex
  <2>3. PICK k \in 1..Len(events) :
          1 < k /\ k < i + 1 /\ events[k].op = "connection"
    BY <1>3, <2>1, <2>2, TailIndex DEF Between
  <2>4. k \in 2..Len(events) /\ k - 1 < i
    BY <2>2, <2>3
  <2>5. k - 1 \in 1..Len(Tail(events)) /\ Tail(events)[k - 1] = events[k]
    BY <2>4, TailIndex
  <2> QED BY <2>3, <2>4, <2>5 DEF ConnectionBefore
<1>4. ASSUME ConnectionBehind(events, 1) PROVE ~NoConnection(Tail(events))
  <2>1. PICK k \in 1..Len(events) : 1 < k /\ events[k].op = "connection"
    BY <1>4 DEF ConnectionBehind
  <2>2. k \in 2..Len(events)
    BY <2>1
  <2>3. k - 1 \in 1..Len(Tail(events)) /\ Tail(events)[k - 1] = events[k]
    BY <2>2, TailIndex
  <2> QED BY <2>1, <2>3 DEF NoConnection
<1>5. ASSUME Head(events).op = "disconnection", NEW encrypted,
             Current(events, encrypted)
      PROVE  ~NoConnection(Tail(events))
  BY <1>4, <1>5, TailIndex DEF Current
<1>6. ASSUME Head(events).op = "encryption_change"
      PROVE  /\ ~Later(events) /\ ~NoEncryption(events)
             /\ \A encrypted : Current(events, encrypted) =>
                  encrypted \/ ~NoConnection(Tail(events))
  <2>1. ~ConnectionBefore(events, 1)
    BY DEF ConnectionBefore
  <2> QED BY <1>4, <1>6, <2>1, TailIndex DEF Current, Later, NoEncryption
<1>7. ASSUME Head(events).op = "connection", NEW h \in Nat, NEW n \in Nat,
             Numbered(events, h, n)
      PROVE  /\ h < Head(events).value /\ Head(events).value <= n
             /\ Numbered(Tail(events), Head(events).value, n)
  <2>1. /\ 1 \in 1..Len(events) /\ events[1] = Head(events)
        /\ h < events[1].value /\ events[1].value <= n
    BY <1>7, TailIndex DEF Numbered
  <2>2. Numbered(Tail(events), h, n)
    BY <1>7, EventsTail
  <2>3. ASSUME NEW i \in 1..Len(Tail(events)),
               Tail(events)[i].op = "connection"
        PROVE  Head(events).value < Tail(events)[i].value
    <3>1. i + 1 \in 1..Len(events) /\ Tail(events)[i] = events[i + 1]
          /\ 1 < i + 1
      BY TailIndex
    <3> QED BY <1>7, <2>1, <2>3, <3>1 DEF Numbered
  <2> QED BY <2>1, <2>2, <2>3 DEF Numbered
<1> QED BY <1>1, <1>2, <1>3, <1>5, <1>6, <1>7


\* What one more event leaves as it was.
LEMMA EventsAppend ==
  ASSUME NEW events \in Seq(EventSet), NEW e \in EventSet
  PROVE  /\ Append(events, e) \in Seq(EventSet)
         /\ ~NoConnection(events) => ~NoConnection(Append(events, e))
         /\ Later(events) /\ e.op # "encryption_change" =>
              Later(Append(events, e))
         /\ Between(events) /\ e.op # "encryption_change" =>
              Between(Append(events, e))
         /\ NoEncryption(events) /\ e.op # "encryption_change" =>
              NoEncryption(Append(events, e))
         /\ \A h, n \in Nat :
              Numbered(events, h, n) /\ e.op # "connection" =>
                Numbered(Append(events, e), h, n)
         /\ \A encrypted :
              /\ Current(events, encrypted)
              /\ e.op \notin {"encryption_change", "disconnection"}
              => Current(Append(events, e), encrypted)
<1> DEFINE more == Append(events, e)
<1>1. /\ more \in Seq(EventSet) /\ Len(events) \in Nat
      /\ \A i \in 1..Len(events) : i \in 1..Len(more) /\ more[i] = events[i]
      /\ \A i \in 1..Len(more) :
           \/ i \in 1..Len(events) /\ more[i] = events[i]
           \/ i = Len(events) + 1 /\ more[i] = e
  BY AppendIndex
<1> HIDE DEF more
<1>2. ~NoConnection(events) => ~NoConnection(more)
  BY <1>1 DEF NoConnection
<1>3. ASSUME Later(events), e.op # "encryption_change" PROVE Later(more)
  BY <1>1, <1>3 DEF Later, ConnectionBefore
<1>4. ASSUME Between(events), e.op # "encryption_change" PROVE Between(more)
  <2>1. SUFFICES ASSUME NEW i \in 1..Len(more), NEW j \in 1..Len(more), i < j,
                        more[i].op = "disconnection",
                        more[j].op = "encryption_change"
                 PROVE  \E k \in 1..Len(more) :
                          i < k /\ k < j /\ more[k].op = "connection"
    BY DEF Between
  <2>2. j \in 1..Len(events) /\ i \in 1..Len(events)
    BY <1>1, <1>4, <2>1
  <2>3. events[i].op = "disconnection" /\ events[j].op = "encryption_change"
    BY <1>1, <2>1, <2>2
  <2>4. PICK k \in 1..Len(events) :
          i < k /\ k < j /\ events[k].op = "connection"
    BY <1>4, <2>1, <2>2, <2>3 DEF Between
  <2> QED BY <1>1, <2>4
<1>5. ASSUME NoEncryption(events), e.op # "encryption_change"
      PROVE  NoEncryption(more)
  BY <1>1, <1>5 DEF NoEncryption
<1>6. ASSUME NEW h \in Nat, NEW n \in Nat, Numbered(events, h, n),
             e.op # "connection"
      PROVE  Numbered(more, h, n)
  <2>1. ASSUME NEW i \in 1..Len(more), more[i].op = "connection"
        PROVE  i \in 1..Len(events) /\ more[i] = events[i]
    BY <1>1, <1>6, <2>1
  <2> QED BY <1>6, <2>1 DEF Numbered
<1>7. ASSUME NEW encrypted, Current(events, encrypted),
             e.op \notin {"encryption_change", "disconnection"}
      PROVE  Current(more, encrypted)
  <2>1. ASSUME NEW i \in 1..Len(more),
               more[i].op \in {"encryption_change", "disconnection"}
        PROVE  i \in 1..Len(events) /\ more[i] = events[i]
    BY <1>1, <1>7, <2>1
  <2>2. ASSUME NEW i \in 1..Len(events), ConnectionBehind(events, i)
        PROVE  ConnectionBehind(more, i)
    BY <1>1, <2>2 DEF ConnectionBehind
  <2> QED BY <1>7, <2>1, <2>2 DEF Current
<1> QED BY <1>1, <1>2, <1>3, <1>4, <1>5, <1>6, <1>7 DEF more

\* A connection is announced, or an encryption.
LEMMA EventsGrow ==
  ASSUME NEW events \in Seq(EventSet), NEW e \in EventSet
  PROVE  /\ e.op # "connection" /\ NoConnection(Append(events, e)) =>
              NoConnection(events)
         /\ e.op = "connection" =>
              /\ ~NoConnection(Append(events, e))
              /\ \A encrypted : Current(Append(events, e), encrypted)
              /\ \A h, n \in Nat :
                   /\ Numbered(events, h, n) /\ h <= n /\ e.value = n + 1
                   => Numbered(Append(events, e), h, n + 1)
         /\ e.op = "encryption_change" =>
              /\ ~NoConnection(events) /\ Later(events) =>
                   Later(Append(events, e))
              /\ \A encrypted : Current(events, encrypted) =>
                   /\ Current(Append(events, e), TRUE)
                   /\ Between(events) => Between(Append(events, e))
<1> DEFINE more == Append(events, e)
<1>1. /\ more \in Seq(EventSet) /\ Len(events) \in Nat
      /\ \A i \in 1..Len(events) : i \in 1..Len(more) /\ more[i] = events[i]
      /\ \A i \in 1..Len(more) :
           \/ i \in 1..Len(events) /\ more[i] = events[i]
           \/ i = Len(events) + 1 /\ more[i] = e
      /\ Len(events) + 1 \in 1..Len(more) /\ more[Len(events) + 1] = e
  BY AppendIndex
<1> HIDE DEF more
<1>2. NoConnection(more) => NoConnection(events)
  BY <1>1 DEF NoConnection
<1>3. ASSUME e.op = "connection"
      PROVE  ~NoConnection(more) /\ \A encrypted : Current(more, encrypted)
  <2>1. ASSUME NEW i \in 1..Len(events) PROVE ConnectionBehind(more, i)
    BY <1>1, <1>3 DEF ConnectionBehind
  <2> QED BY <1>1, <1>3, <2>1 DEF NoConnection, Current
<1>4. ASSUME e.op = "connection", NEW h \in Nat, NEW n \in Nat,
             Numbered(events, h, n), h <= n, e.value = n + 1
      PROVE  Numbered(more, h, n + 1)
  <2>1. ASSUME NEW i \in 1..Len(more), more[i].op = "connection"
        PROVE  /\ h < more[i].value /\ more[i].value <= n + 1
               /\ i \in 1..Len(events) => more[i].value <= n
    <3>1. CASE i \in 1..Len(events) /\ more[i] = events[i]
      <4>1. h < events[i].value /\ events[i].value <= n
        BY <1>4, <2>1, <3>1 DEF Numbered
      <4>2. events[i].value \in Nat
        BY <3>1 DEF EventSet
      <4> QED BY <3>1, <4>1, <4>2
    <3>2. CASE i = Len(events) + 1 /\ more[i] = e
      BY <1>1, <1>4, <3>2
    <3> QED BY <1>1, <3>1, <3>2
  <2>2. ASSUME NEW i \in 1..Len(more), NEW j \in 1..Len(more), i < j,
               more[i].op = "connection", more[j].op = "connection"
        PROVE  more[i].value < more[j].value
    <3>1. i \in 1..Len(events) /\ more[i] = events[i]
      BY <1>1, <2>2
    <3>2. CASE j \in 1..Len(events) /\ more[j] = events[j]
      BY <1>4, <2>2, <3>1, <3>2 DEF Numbered
    <3>3. CASE more[j] = e
      <4>1. more[i].value <= n /\ more[i].value \in Nat
        BY <2>1, <2>2, <3>1 DEF EventSet
      <4> QED BY <1>4, <3>3, <4>1
    <3> QED BY <1>1, <3>2, <3>3
  <2> QED BY <2>1, <2>2 DEF Numbered
<1>5. ASSUME e.op = "encryption_change", ~NoConnection(events), Later(events)
      PROVE  Later(more)
  <2>1. ASSUME NEW i \in 1..Len(more), more[i].op = "encryption_change"
        PROVE  ConnectionBefore(more, i)
    <3>1. CASE i \in 1..Len(events) /\ more[i] = events[i]
      BY <1>1, <1>5, <2>1, <3>1 DEF Later, ConnectionBefore
    <3>2. CASE i = Len(events) + 1
      <4>1. PICK k \in 1..Len(events) : events[k].op = "connection"
        BY <1>5 DEF NoConnection
      <4>2. k \in 1..Len(more) /\ more[k] = events[k] /\ k < i
        BY <1>1, <3>2, <4>1
      <4> QED BY <4>1, <4>2 DEF ConnectionBefore
    <3> QED BY <1>1, <3>1, <3>2
  <2> QED BY <2>1 DEF Later
<1>6. ASSUME e.op = "encryption_change", NEW encrypted,
             Current(events, encrypted)
      PROVE  Current(more, TRUE) /\ (Between(events) => Between(more))
  <2>1. ASSUME NEW i \in 1..Len(more), more[i].op = "disconnection"
        PROVE  i \in 1..Len(events) /\ ConnectionBehind(events, i)
    <3>1. i \in 1..Len(events) /\ more[i] = events[i]
      BY <1>1, <1>6, <2>1
    <3> QED BY <1>6, <2>1, <3>1 DEF Current
  <2>2. Current(more, TRUE)
    BY <1>1, <2>1 DEF Current, ConnectionBehind
  <2>3. ASSUME Between(events), NEW i \in 1..Len(more), NEW j \in 1..Len(more),
               i < j, more[i].op = "disconnection",
               more[j].op = "encryption_change"
        PROVE  \E k \in 1..Len(more) :
                 i < k /\ k < j /\ more[k].op = "connection"
    <3>1. i \in 1..Len(events) /\ more[i] = events[i]
      BY <1>1, <2>1, <2>3
    <3>2. CASE j \in 1..Len(events) /\ more[j] = events[j]
      <4>1. PICK k \in 1..Len(events) :
              i < k /\ k < j /\ events[k].op = "connection"
        BY <2>3, <3>1, <3>2 DEF Between
      <4> QED BY <1>1, <4>1
    <3>3. CASE j = Len(events) + 1
      <4>1. PICK k \in 1..Len(events) : i < k /\ events[k].op = "connection"
        BY <2>1, <2>3 DEF ConnectionBehind
      <4>2. k < j /\ k \in 1..Len(more) /\ more[k] = events[k]
        BY <1>1, <3>3, <4>1
      <4> QED BY <4>1, <4>2
    <3> QED BY <1>1, <3>2, <3>3
  <2>4. Between(events) => Between(more)
    BY <2>3 DEF Between
  <2> QED BY <2>2, <2>4
<1> QED BY <1>2, <1>3, <1>4, <1>5, <1>6 DEF more

\* The pipe of packets.
LEMMA AclTail ==
  ASSUME NEW acl \in Seq(PduSet), acl # <<>>
  PROVE  /\ KnownOps(acl) =>
              KnownOps(Tail(acl)) /\ Head(acl).op \in SmpRequests \union AttOps
         /\ OneSmp(acl) => OneSmp(Tail(acl))
         /\ OneSmp(acl) /\ Head(acl).op \in SmpRequests => ~HasSmp(Tail(acl))
         /\ HasSmp(Tail(acl)) => HasSmp(acl)
         /\ Head(acl).op \in SmpRequests => HasSmp(acl)
         /\ HasRequest(Tail(acl)) => HasRequest(acl)
         /\ Head(acl).op = "pairing_request" => HasRequest(acl)
<1>1. ASSUME NEW i \in 1..Len(Tail(acl))
      PROVE  /\ i + 1 \in 1..Len(acl) /\ Tail(acl)[i] = acl[i + 1]
             /\ i \in Nat /\ i + 1 # 1
  BY TailIndex
<1>2. 1 \in 1..Len(acl) /\ Head(acl) = acl[1]
  BY TailIndex
<1>3. KnownOps(acl) =>
        KnownOps(Tail(acl)) /\ Head(acl).op \in SmpRequests \union AttOps
  BY <1>1, <1>2 DEF KnownOps
<1>4. ASSUME OneSmp(acl) PROVE OneSmp(Tail(acl))
  <2>1. SUFFICES ASSUME NEW i \in 1..Len(Tail(acl)), NEW j \in 1..Len(Tail(acl)),
                        Tail(acl)[i].op \in SmpRequests,
                        Tail(acl)[j].op \in SmpRequests
                 PROVE  i = j
    BY DEF OneSmp
  <2>2. i + 1 = j + 1 /\ i \in Nat /\ j \in Nat
    BY <1>1, <1>4, <2>1 DEF OneSmp
  <2> QED BY <2>2
<1>5. ASSUME OneSmp(acl), Head(acl).op \in SmpRequests
      PROVE  ~HasSmp(Tail(acl))
  BY <1>1, <1>2, <1>5 DEF OneSmp, HasSmp
<1>6. /\ HasSmp(Tail(acl)) => HasSmp(acl)
      /\ HasRequest(Tail(acl)) => HasRequest(acl)
  BY <1>1 DEF HasSmp, HasRequest
<1>7. /\ Head(acl).op \in SmpRequests => HasSmp(acl)
      /\ Head(acl).op = "pairing_request" => HasRequest(acl)
  BY <1>2 DEF HasSmp, HasRequest
<1> QED BY <1>3, <1>4, <1>5, <1>6, <1>7

\* What one more packet in the pipe of the dongle changes,
LEMMA AclAppend ==
  ASSUME NEW acl \in Seq(PduSet), NEW pdu \in PduSet
  PROVE  /\ KnownOps(acl) /\ pdu.op \in SmpRequests =>
              KnownOps(Append(acl, pdu))
         /\ ~HasSmp(acl) => OneSmp(Append(acl, pdu))
         /\ pdu.op # "pairing_request" /\ HasRequest(Append(acl, pdu)) =>
              HasRequest(acl)
<1> DEFINE more == Append(acl, pdu)
<1>1. \A i \in 1..Len(more) :
        \/ i \in 1..Len(acl) /\ more[i] = acl[i]
        \/ i = Len(acl) + 1 /\ more[i] = pdu
  BY AppendIndex
<1> HIDE DEF more
<1>2. KnownOps(acl) /\ pdu.op \in SmpRequests => KnownOps(more)
  BY <1>1 DEF KnownOps
<1>3. ASSUME ~HasSmp(acl) PROVE OneSmp(more)
  <2>1. ASSUME NEW i \in 1..Len(more), more[i].op \in SmpRequests
        PROVE  i = Len(acl) + 1
    BY <1>1, <1>3, <2>1 DEF HasSmp
  <2> QED BY <2>1 DEF OneSmp
<1>4. pdu.op # "pairing_request" /\ HasRequest(more) => HasRequest(acl)
  BY <1>1 DEF HasRequest
<1> QED BY <1>2, <1>3, <1>4 DEF more

\* what an empty pipe and one with a single packet hold,
LEMMA AclNew ==
  /\ KnownOps(<<>>) /\ OneSmp(<<>>) /\ ~HasSmp(<<>>) /\ ~HasRequest(<<>>)
  /\ \A pdu : /\ OneSmp(<<pdu>>)
              /\ HasSmp(<<pdu>>) => pdu.op \in SmpRequests
              /\ pdu.op \in SmpRequests \union AttOps => KnownOps(<<pdu>>)
BY DEF KnownOps, OneSmp, HasSmp, HasRequest

\* and that without events every condition on their order holds.
LEMMA EventsNone ==
  /\ NoConnection(<<>>) /\ Later(<<>>) /\ Between(<<>>) /\ NoEncryption(<<>>)
  /\ \A h, n : Numbered(<<>>, h, n)
  /\ \A encrypted : Current(<<>>, encrypted)
BY DEF NoConnection, Later, Between, NoEncryption, Numbered, Current

-----------------------------------------------------------------------------
(* What the peripheral's steps do to the session, the bond and the buffer *)

\* A PDU is staged, or the buffer stays as it was.
Stages(pdu) ==
  state' = "SEND_ACL" /\ acl_tx_buf' = Packet(conn_handle, pdu)
StagesNothing == state' # "SEND_ACL" /\ UNCHANGED acl_tx_buf

\* The distribution goes on by one PDU, or it is over.
PumpEffect ==
  /\ smp'.bond # NoKey /\ (smp.bond # NoKey => smp'.bond = smp.bond)
  /\ smp'.tk = smp.tk
  /\ count'.connections = count.connections
  /\ \/ /\ smp.phase3_index = 0 /\ smp'.phase3_index = 1 /\ smp_phase3_pending'
        /\ Stages(EncInfo(smp'.bond)) /\ UNCHANGED saved
     \/ /\ smp.phase3_index = 1 /\ smp'.phase3_index = 2 /\ smp_phase3_pending'
        /\ Stages(MasterId(smp'.bond)) /\ UNCHANGED saved
     \/ /\ smp.phase3_index = 2 /\ smp'.phase3_index = 2 /\ ~smp_phase3_pending'
        /\ smp'.state = "IDLE" /\ StagesNothing /\ saved' = smp'.bond

\* smp_next_phase3_pdu gives the two keys in order, both of the one bond of
\* the session, then nothing.
LEMMA Phase3Pdu ==
  ASSUME NEW s \in smp_session, NEW fresh \in Nat \ {0}
  PROVE  LET r == smp_next_phase3_pdu(s, fresh)
         IN  /\ r.session \in smp_session
             /\ r.session.bond # NoKey
             /\ s.bond # NoKey => r.session.bond = s.bond
             /\ r.session.tk = s.tk
             /\ \/ /\ s.phase3_index = 0 /\ r.session.phase3_index = 1
                   /\ r.pdu = EncInfo(r.session.bond)
                \/ /\ s.phase3_index = 1 /\ r.session.phase3_index = 2
                   /\ r.pdu = MasterId(r.session.bond)
                \/ /\ s.phase3_index = 2 /\ r.session.phase3_index = 2
                   /\ r.pdu = NoPdu
<1> DEFINE t == IF s.bond = NoKey THEN [s EXCEPT !.bond = fresh] ELSE s
           r == smp_next_phase3_pdu(s, fresh)
<1>1. /\ t \in smp_session /\ t.bond # NoKey /\ (s.bond # NoKey => t.bond = s.bond)
      /\ t.phase3_index = s.phase3_index /\ t.tk = s.tk
  BY DEF smp_session, NoKey
<1>2. s.phase3_index \in {0, 1, 2}
  BY DEF smp_session
<1> HIDE DEF t
<1>3. CASE s.phase3_index = 0
  <2>1. r = Answer([t EXCEPT !.phase3_index = 1],
                   Pdu("encryption_info", "none", t.bond))
    BY <1>1, <1>3 DEF smp_next_phase3_pdu, t
  <2> HIDE DEF r
  <2>2. r.session \in smp_session /\ r.session.phase3_index = 1
        /\ r.session.bond = t.bond /\ r.session.tk = t.tk
    BY <1>1, <2>1 DEF Answer, smp_session
  <2>3. r.pdu = EncInfo(t.bond)
    BY <2>1 DEF Answer, EncInfo
  <2> QED BY <1>1, <1>3, <2>2, <2>3 DEF r
<1>4. CASE s.phase3_index = 1
  <2>1. r = Answer([t EXCEPT !.phase3_index = 2],
                   Pdu("master_identification", "none", t.bond))
    BY <1>1, <1>4 DEF smp_next_phase3_pdu, t
  <2> HIDE DEF r
  <2>2. r.session \in smp_session /\ r.session.phase3_index = 2
        /\ r.session.bond = t.bond /\ r.session.tk = t.tk
    BY <1>1, <2>1 DEF Answer, smp_session
  <2>3. r.pdu = MasterId(t.bond)
    BY <2>1 DEF Answer, MasterId
  <2> QED BY <1>1, <1>4, <2>2, <2>3 DEF r
<1>5. CASE s.phase3_index = 2
  <2>1. r = Answer(t, NoPdu)
    BY <1>1, <1>5 DEF smp_next_phase3_pdu, t
  <2> QED BY <1>1, <1>5, <2>1 DEF Answer, r
<1> QED BY <1>2, <1>3, <1>4, <1>5 DEF r

\* What pump_phase3 does.
LEMMA Pump ==
  ASSUME TypeInv, NEW s \in Polling, pump_phase3(s)
  PROVE  PumpEffect
<1> DEFINE r == smp_next_phase3_pdu(smp, count.keys + 1)
<1>1. smp \in smp_session /\ count.keys + 1 \in Nat \ {0} /\ count \in CountSet
  BY DEF TypeInv, SessionTypes, LinkTypes, CountSet
<1>2. /\ r.session \in smp_session /\ r.session.bond # NoKey
      /\ smp.bond # NoKey => r.session.bond = smp.bond
      /\ r.session.tk = smp.tk
      /\ \/ /\ smp.phase3_index = 0 /\ r.session.phase3_index = 1
            /\ r.pdu = EncInfo(r.session.bond)
         \/ /\ smp.phase3_index = 1 /\ r.session.phase3_index = 2
            /\ r.pdu = MasterId(r.session.bond)
         \/ /\ smp.phase3_index = 2 /\ r.session.phase3_index = 2
            /\ r.pdu = NoPdu
  BY <1>1, Phase3Pdu
<1>3. /\ smp' = IF r.pdu = NoPdu THEN [r.session EXCEPT !.state = "IDLE"]
                ELSE r.session
      /\ smp_phase3_pending' = ~(r.pdu = NoPdu)
      /\ \/ /\ r.pdu = NoPdu /\ no_send(s)
            /\ saved' = smp_get_bond(r.session)
         \/ /\ ~(r.pdu = NoPdu) /\ ble_send_acl(s, conn_handle, r.pdu)
            /\ UNCHANGED saved
  BY DEF pump_phase3, r
<1>4. count'.connections = count.connections
  BY <1>1 DEF pump_phase3, CountSet
<1> HIDE DEF r
<1>5. \A bond : EncInfo(bond) # NoPdu /\ MasterId(bond) # NoPdu
  BY DEF EncInfo, MasterId, NoPdu, Plain, Pdu
<1>6. CASE r.pdu = NoPdu
  <2>1. smp.phase3_index = 2 /\ r.session.phase3_index = 2
    BY <1>2, <1>5, <1>6
  <2>2. /\ smp'.phase3_index = 2 /\ smp'.bond = r.session.bond
        /\ smp'.state = "IDLE" /\ smp'.tk = smp.tk
    BY <1>2, <1>3, <1>6, <2>1 DEF smp_session
  <2>3. StagesNothing /\ saved' = r.session.bond /\ ~smp_phase3_pending'
    BY <1>3, <1>6 DEF no_send, StagesNothing, smp_get_bond, Polling
  <2> QED BY <1>2, <1>4, <2>1, <2>2, <2>3 DEF PumpEffect
<1>7. CASE r.pdu # NoPdu
  <2>1. /\ smp' = r.session /\ smp_phase3_pending' /\ UNCHANGED saved
        /\ Stages(r.pdu)
    BY <1>3, <1>7 DEF ble_send_acl, stage_tx, Stages
  <2> QED BY <1>2, <1>4, <1>7, <2>1 DEF PumpEffect
<1> QED BY <1>6, <1>7

\* on_internal_sent: the distribution goes on if the link is encrypted.
InternalEffect ==
  \/ smp_phase3_pending /\ encrypted_state /\ PumpEffect
  \/ /\ ~(smp_phase3_pending /\ encrypted_state)
     /\ UNCHANGED <<smp, smp_phase3_pending, saved>>
     /\ count'.connections = count.connections
     /\ Stages(Plain("notification")) \/ StagesNothing

\* What the application does when it sends.
LEMMA Report ==
  ASSUME TypeInv, NEW s \in Polling, send_report(s)
  PROVE  /\ ~smp_phase3_pending /\ Stages(Plain("notification"))
         /\ UNCHANGED <<smp, smp_phase3_pending, saved>>
         /\ count'.connections = count.connections
<1>1. count'.connections = count.connections
  BY DEF send_report, TypeInv, LinkTypes, CountSet
<1> QED BY <1>1 DEF send_report, ble_send_acl, stage_tx, Stages

\* What on_internal_sent does.
LEMMA Internal ==
  ASSUME TypeInv, on_internal_sent("POLL_EVENT")
  PROVE  InternalEffect
<1>1. PICK s \in Polling : s = "POLL_EVENT"
  BY DEF Polling
<1>2. on_internal_sent(s)
  BY <1>1
<1>3. CASE smp_phase3_pending /\ encrypted_state
  BY <1>2, <1>3, Pump DEF on_internal_sent, InternalEffect
<1>4. CASE ~(smp_phase3_pending /\ encrypted_state)
  <2>1. CASE send_report(s)
    BY <1>4, <2>1, Report DEF InternalEffect
  <2>2. CASE no_send(s)
             /\ UNCHANGED <<smp_phase3_pending, smp, hid, saved, count>>
    BY <1>4, <2>2 DEF no_send, StagesNothing, InternalEffect, Polling
  <2> QED BY <1>2, <1>4, <2>1, <2>2 DEF on_internal_sent
<1> QED BY <1>3, <1>4


\* What is built in one of the polling states is staged.
LEMMA PollingStages ==
  ASSUME state \in Polling
  PROVE  /\ \A cmd : ble_send_hci_cmd(state, cmd) => StagesNothing
         /\ \A pdu : ble_send_acl(state, conn_handle, pdu) => Stages(pdu)
         /\ no_send(state) => StagesNothing
BY DEF ble_send_hci_cmd, ble_send_acl, no_send, stage_tx, Stages, StagesNothing,
       Polling

\* in_cb with an event.
EventKept ==
  /\ UNCHANGED <<smp, smp_phase3_pending, saved, conn_handle, count>>
  /\ StagesNothing
EventConnection(handle) ==
  /\ conn_handle' = handle /\ ~smp_phase3_pending'
  /\ smp'.bond = smp.bond /\ smp'.phase3_index = 0 /\ smp'.state = "IDLE"
  /\ smp'.tk = "none"
  /\ UNCHANGED <<saved, count>>
  /\ state' = "SEND_ACL"
  /\ acl_tx_buf' = Packet(handle, Plain("security_request"))
EventEncryption ==
  /\ encrypted_state' /\ UNCHANGED conn_handle
  /\ \/ smp.state = "STK_READY" /\ PumpEffect
     \/ /\ smp.state # "STK_READY" /\ StagesNothing
        /\ UNCHANGED <<smp, smp_phase3_pending, saved, count>>
EventDisconnection ==
  /\ ~smp_phase3_pending' /\ UNCHANGED <<smp, saved, conn_handle, count>>
  /\ StagesNothing

\* What the handler of each event does.
LEMMA EventSteps ==
  ASSUME TypeInv, state \in Polling, NEW e \in EventSet, handle_event(e)
  PROVE  \/ e.op \in {"command_complete", "ltk_request"} /\ EventKept
         \/ e.op = "connection" /\ EventConnection(e.value)
         \/ e.op = "encryption_change" /\ EventEncryption
         \/ e.op = "disconnection" /\ EventDisconnection
<1>1. CASE e.op = "command_complete" /\ command_complete(e.value)
  <2>1. StagesNothing
    BY <1>1, PollingStages DEF command_complete, send_bringup_step
  <2> QED BY <1>1, <2>1 DEF command_complete, EventKept
<1>2. CASE e.op = "connection" /\ on_le_connection_complete(e.value)
  <2>1. /\ smp' = smp_init(smp) /\ conn_handle' = e.value /\ ~smp_phase3_pending'
        /\ UNCHANGED <<saved, count>>
        /\ ble_send_acl(state, e.value, Plain("security_request"))
    BY <1>2 DEF on_le_connection_complete, send_security_request
  <2>2. /\ smp'.bond = smp.bond /\ smp'.phase3_index = 0 /\ smp'.state = "IDLE"
        /\ smp'.tk = "none"
    BY <2>1 DEF smp_init, TypeInv, SessionTypes, smp_session
  <2>3. /\ state' = "SEND_ACL"
        /\ acl_tx_buf' = Packet(e.value, Plain("security_request"))
    BY <2>1 DEF ble_send_acl, stage_tx
  <2> QED BY <1>2, <2>1, <2>2, <2>3 DEF EventConnection
<1>3. CASE e.op = "ltk_request" /\ handle_le_ltk_request(e.value)
  <2>1. StagesNothing
    BY <1>3, PollingStages DEF handle_le_ltk_request
  <2> QED BY <1>3, <2>1 DEF handle_le_ltk_request, EventKept
<1>4. CASE e.op = "encryption_change" /\ handle_encryption_change(e.value = 1)
  <2>1. encrypted_state' /\ UNCHANGED conn_handle /\ e.value = 1
    BY <1>4 DEF handle_encryption_change, EventSet
  <2>2. \/ smp.state = "STK_READY" /\ pump_phase3(state)
        \/ /\ smp.state # "STK_READY" /\ no_send(state)
           /\ UNCHANGED <<smp, smp_phase3_pending, saved, count>>
    BY <1>4, <2>1 DEF handle_encryption_change
  <2> QED BY <1>4, <2>1, <2>2, Pump, PollingStages DEF EventEncryption
<1>5. CASE e.op = "disconnection" /\ handle_disconnection_complete
  <2>1. StagesNothing
    BY <1>5, PollingStages DEF handle_disconnection_complete, send_bringup_step
  <2> QED BY <1>5, <2>1 DEF handle_disconnection_complete, EventDisconnection
<1> QED BY <1>1, <1>2, <1>3, <1>4, <1>5 DEF handle_event

\* in_cb with a packet.
PacketEffect(op) ==
  /\ UNCHANGED <<smp_phase3_pending, saved, conn_handle, count>>
  /\ smp'.phase3_index = smp.phase3_index
  /\ smp'.bond = smp.bond \/ op = "pairing_request"
  /\ smp'.state = "STK_READY" => smp.state = "STK_READY" \/ op = "pairing_random"
  /\ \/ StagesNothing
     \/ \E answer : /\ Stages(answer)
                    /\ \/ answer.op = "att_response"
                       \/ answer.op \in SmpResponses /\ op \notin AttOps

\* smp_handle_pdu leaves phase 3 and, but for a new pairing, the bond alone,
\* and the STK is ready only after pairing_random.
LEMMA SmpAnswers ==
  ASSUME NEW s \in smp_session, NEW pdu \in PduSet
  PROVE  LET r == smp_handle_pdu(s, pdu)
         IN  /\ r.session.phase3_index = s.phase3_index
             /\ r.session.bond = s.bond \/ pdu.op = "pairing_request"
             /\ r.session.state = "STK_READY" =>
                  s.state = "STK_READY" \/ pdu.op = "pairing_random"
             /\ r.pdu = NoPdu \/ r.pdu.op \in SmpResponses
<1> DEFINE Good(r) ==
             /\ r.session.phase3_index = s.phase3_index
             /\ r.session.bond = s.bond \/ pdu.op = "pairing_request"
             /\ r.session.state = "STK_READY" =>
                  s.state = "STK_READY" \/ pdu.op = "pairing_random"
             /\ r.pdu = NoPdu \/ r.pdu.op \in SmpResponses
<1>1. /\ Plain("pairing_failed").op \in SmpResponses
      /\ Plain("pairing_response").op \in SmpResponses
      /\ Plain("pairing_confirm").op \in SmpResponses
      /\ Plain("pairing_random").op \in SmpResponses
  BY DEF Plain, Pdu, SmpResponses
<1>2. ASSUME NEW t \in smp_session, t.phase3_index = s.phase3_index,
             t.bond = s.bond,
             t.state = "STK_READY" =>
               s.state = "STK_READY" \/ pdu.op = "pairing_random",
             NEW p, p = NoPdu \/ p.op \in SmpResponses
      PROVE  Good(Answer(t, p))
  BY <1>2 DEF Answer
<1> HIDE DEF Good
<1>3. ASSUME NEW x \in States
      PROVE  LET t == [s EXCEPT !.state = x]
             IN  /\ t \in smp_session /\ t.phase3_index = s.phase3_index
                 /\ t.bond = s.bond /\ t.state = x
  BY DEF smp_session
<1>4. Good(fail(s)) /\ Good(fail([s EXCEPT !.state = "FAILED"]))
      /\ Good(Answer([s EXCEPT !.state = "FAILED"], NoPdu))
  <2>1. "FAILED" \in States
    BY DEF States
  <2> QED BY <1>1, <1>2, <1>3, <2>1 DEF fail
<1>5. ASSUME pdu.op = "pairing_request" PROVE Good(on_pairing_request(s, pdu))
  BY <1>1, <1>5 DEF on_pairing_request, Answer, smp_session, Good
<1>6. Good(on_pairing_confirm(s, pdu))
  <2> DEFINE t == [ensure_tk_keys(s) EXCEPT !.mconfirm = pdu.tk,
                                            !.state = "AWAITING_RANDOM"]
  <2>1. /\ ensure_tk_keys(s) \in smp_session
        /\ ensure_tk_keys(s).phase3_index = s.phase3_index
        /\ ensure_tk_keys(s).bond = s.bond
    BY DEF ensure_tk_keys, smp_session
  <2>2. /\ t \in smp_session /\ t.phase3_index = s.phase3_index
        /\ t.bond = s.bond /\ t.state = "AWAITING_RANDOM"
    BY <2>1 DEF smp_session, States, PduSet
  <2> HIDE DEF t
  <2>3. Good(Answer(t, Plain("pairing_confirm")))
    BY <1>1, <1>2, <2>2
  <2> QED BY <1>4, <2>3 DEF on_pairing_confirm, t
<1>7. ASSUME pdu.op = "pairing_random" PROVE Good(on_pairing_random(s, pdu))
  <2>1. "STK_READY" \in States
    BY DEF States
  <2>2. Good(Answer([s EXCEPT !.state = "STK_READY"], Plain("pairing_random")))
    BY <1>1, <1>2, <1>3, <1>7, <2>1
  <2> QED BY <1>4, <2>2 DEF on_pairing_random
<1>8. Good(smp_handle_pdu(s, pdu))
  BY <1>4, <1>5, <1>6, <1>7 DEF smp_handle_pdu
<1> QED BY <1>8 DEF Good

\* What the handler of an ACL packet does.
LEMMA PacketSteps ==
  ASSUME TypeInv, state \in Polling, NEW pdu \in PduSet, handle_acl(pdu)
  PROVE  PacketEffect(pdu.op)
<1>1. UNCHANGED <<smp_phase3_pending, saved, conn_handle, count>>
  BY DEF handle_acl
<1>2. CASE pdu.op \in AttOps /\ dispatch_att(pdu)
  <2>1. UNCHANGED smp
    BY <1>2 DEF dispatch_att
  <2>2. StagesNothing \/ Stages(Plain("att_response"))
    BY <1>2, PollingStages DEF dispatch_att, respond
  <2>3. Plain("att_response").op = "att_response"
    BY DEF Plain, Pdu
  <2> QED BY <1>1, <2>1, <2>2, <2>3 DEF PacketEffect
<1>3. CASE pdu.op \notin AttOps /\ dispatch_smp(pdu)
  <2> DEFINE r == smp_handle_pdu(smp, pdu)
  <2>1. smp' = r.session /\ respond(r.pdu)
    BY <1>3 DEF dispatch_smp
  <2>2. /\ r.session.phase3_index = smp.phase3_index
        /\ r.session.bond = smp.bond \/ pdu.op = "pairing_request"
        /\ r.session.state = "STK_READY" =>
             smp.state = "STK_READY" \/ pdu.op = "pairing_random"
        /\ r.pdu = NoPdu \/ r.pdu.op \in SmpResponses
    BY SmpAnswers DEF TypeInv, SessionTypes
  <2> HIDE DEF r
  <2>3. \/ StagesNothing
        \/ Stages(r.pdu) /\ r.pdu.op \in SmpResponses
    BY <2>1, <2>2, PollingStages DEF respond
  <2> QED BY <1>1, <1>3, <2>1, <2>2, <2>3 DEF PacketEffect
<1> QED BY <1>2, <1>3 DEF handle_acl


-----------------------------------------------------------------------------
(* What a step does to the state that the invariants read *)

SameSession ==
  UNCHANGED <<conn_handle, encrypted_state, smp_phase3_pending, smp, saved>>
SamePeripheral == UNCHANGED <<state, acl_tx_buf>> /\ SameSession
SameLink ==
  dongle'.link = dongle.link /\ dongle'.encrypted = dongle.encrypted
SameDongle ==
  dongle'.events = dongle.events /\ dongle'.acl = dongle.acl /\ SameLink
SameCentral ==
  /\ central'.pairing = central.pairing /\ central'.ltk = central.ltk
  /\ central'.bond = central.bond /\ central'.tk = central.tk
SameCount == count'.connections = count.connections
IsUnpaired ==
  /\ central'.pairing = "idle" /\ central'.ltk = "none"
  /\ central'.bond = central.bond
\* A dongle without a link, and with no packets.
IsNew == ~dongle'.link /\ ~dongle'.encrypted /\ dongle'.acl = <<>>

NothingStep ==
  /\ SamePeripheral /\ SameDongle /\ SameCentral /\ SameCount /\ UNCHANGED sent
  /\ usb' = Idle \/ UNCHANGED usb

PollStep ==
  /\ state # "SEND_ACL" /\ StagesNothing
  /\ usb'.packet = usb.packet /\ (usb'.pipe = "out" => usb.pipe = "out")
  /\ SameSession /\ SameDongle /\ SameCentral /\ SameCount /\ UNCHANGED sent

SendHciStep ==
  /\ state # "SEND_ACL" /\ InternalEffect
  /\ usb'.packet = usb.packet /\ usb'.pipe = "setup"
  /\ UNCHANGED <<conn_handle, encrypted_state, sent>>
  /\ SameDongle /\ SameCentral

SendAclStep ==
  /\ state = "SEND_ACL" /\ InternalEffect
  /\ usb'.packet = acl_tx_buf /\ usb'.pipe = "out"
  /\ sent' = sent \union {acl_tx_buf.pdu}
  /\ UNCHANGED <<conn_handle, encrypted_state>>
  /\ SameDongle /\ SameCentral

EventStep ==
  /\ state # "SEND_ACL" /\ usb.pipe = "event" /\ usb' = Idle
  /\ dongle.events # <<>> /\ dongle'.events = Tail(dongle.events)
  /\ LET e == Head(dongle.events)
     IN  \/ e.op \in {"command_complete", "ltk_request"} /\ EventKept
         \/ e.op = "connection" /\ EventConnection(e.value)
         \/ e.op = "encryption_change" /\ EventEncryption
         \/ e.op = "disconnection" /\ EventDisconnection
  /\ dongle'.acl = dongle.acl /\ SameLink /\ SameCentral /\ UNCHANGED sent

PacketStep ==
  /\ state # "SEND_ACL" /\ usb.pipe = "acl" /\ usb' = Idle
  /\ dongle.acl # <<>> /\ dongle'.acl = Tail(dongle.acl)
  /\ PacketEffect(Head(dongle.acl).op) /\ handle_acl(Head(dongle.acl))
  /\ dongle'.events = dongle.events /\ SameLink /\ SameCentral /\ UNCHANGED sent

\* The end of a SETUP: a bring-up command, the start of an encryption, and the
\* refusal of one.
CommandStep ==
  /\ SamePeripheral /\ SameCount /\ UNCHANGED sent
  /\ usb.pipe = "setup" /\ usb' = Idle
  /\ \/ \E e \in EventSet :
          /\ e.op = "command_complete" /\ dongle'.events = Append(<<>>, e)
          /\ IsNew /\ IsUnpaired
     \/ \E e \in EventSet :
          /\ e.op = "command_complete"
          /\ dongle'.events = Append(dongle.events, e)
          /\ dongle'.acl = dongle.acl /\ SameLink
          /\ SameCentral \/ (~dongle.link /\ IsUnpaired)
     \/ \E e \in EventSet :
          /\ dongle.link /\ central.ltk \in {"stk", "ltk"}
          /\ e.op = "encryption_change"
          /\ dongle'.events = Append(dongle.events, e)
          /\ dongle'.acl = dongle.acl /\ dongle'.link /\ dongle'.encrypted
          /\ central'.ltk = "none" /\ central'.bond = central.bond
          /\ central'.tk = central.tk
          /\ central'.pairing =
               IF central.ltk = "stk" THEN "keys" ELSE central.pairing
     \/ /\ dongle.link /\ central.ltk # "none" /\ SameDongle
        /\ usb.command.op = "negative"
        /\ central'.ltk = "none" /\ central'.bond = NoKey
        /\ central'.tk = central.tk
        /\ central'.pairing =
             IF central.ltk = "stk" THEN "failed" ELSE central.pairing

\* The central takes a PDU.
TakenStep ==
  /\ SamePeripheral /\ SameCount /\ UNCHANGED sent
  /\ usb.pipe = "out" /\ usb' = Idle
  /\ dongle.link /\ usb.packet.handle = count.connections
  /\ Expected(usb.packet.pdu) /\ central' = CentralAfter(usb.packet.pdu)
  /\ dongle' = DongleAfter(usb.packet.pdu)
  /\ LET op == usb.packet.pdu.op
     IN  \/ /\ op \in {"att_response", "encryption_info"}
            /\ SameDongle /\ SameCentral
         \/ /\ op = "pairing_failed" /\ central.pairing \in Pairing
            /\ central'.pairing = "failed" /\ central'.ltk = central.ltk
            /\ central'.bond = central.bond /\ SameDongle
         \/ /\ op \in {"pairing_response", "pairing_confirm"}
            /\ central.pairing \in Pairing /\ central'.pairing \in Pairing
            /\ central'.ltk = central.ltk /\ central'.bond = central.bond
            /\ dongle'.events = dongle.events /\ SameLink
            /\ \E p \in PduSet :
                 /\ dongle'.acl = Append(dongle.acl, p)
                 /\ p.op \in SmpRequests /\ p.op # "pairing_request"
         \/ /\ op = "pairing_random" /\ central.pairing \in Pairing
            /\ central'.pairing = "stk" /\ central'.ltk = "stk"
            /\ central'.bond = central.bond
            /\ dongle'.acl = dongle.acl /\ SameLink
            /\ \E e \in EventSet : /\ e.op = "ltk_request"
                                   /\ dongle'.events = Append(dongle.events, e)
         \/ /\ op = "master_identification" /\ central.pairing = "keys"
            /\ central'.pairing = "bonded" /\ central'.ltk = central.ltk
            /\ central'.bond = usb.packet.pdu.bond /\ SameDongle

ConnectStep ==
  /\ SamePeripheral /\ SameCentral /\ UNCHANGED <<usb, sent>>
  /\ ~dongle.link /\ dongle'.link /\ dongle'.encrypted = dongle.encrypted
  /\ dongle'.acl = <<>> /\ count'.connections = count.connections + 1
  /\ \E e \in EventSet :
       /\ e.op = "connection" /\ e.value = count.connections + 1
       /\ dongle'.events = Append(dongle.events, e)

DisconnectStep ==
  /\ SamePeripheral /\ SameCount /\ IsUnpaired /\ UNCHANGED <<usb, sent>>
  /\ ~dongle'.link /\ ~dongle'.encrypted /\ dongle'.acl = dongle.acl
  /\ \E e \in EventSet :
       e.op = "disconnection" /\ dongle'.events = Append(dongle.events, e)

PairsStep ==
  /\ SamePeripheral /\ SameCount /\ UNCHANGED <<usb, sent>>
  /\ dongle.link /\ NoConnection(dongle.events) /\ central.ltk = "none"
  /\ \/ central.pairing = "idle" /\ ~dongle.encrypted
     \/ central.pairing = "failed"
  /\ dongle'.events = dongle.events /\ SameLink
  /\ \E p : p.op = "pairing_request" /\ dongle'.acl = <<p>>
  /\ central'.pairing = "request" /\ central'.ltk = "none"
  /\ central'.bond = NoKey
  /\ \E tk \in TKs : CentralPairs(tk)

EncryptsStep ==
  /\ SamePeripheral /\ SameCount /\ UNCHANGED <<usb, sent>>
  /\ dongle.link /\ central.pairing = "idle"
  /\ \E e \in EventSet :
       e.op = "ltk_request" /\ dongle'.events = Append(dongle.events, e)
  /\ dongle'.acl = dongle.acl /\ SameLink
  /\ central'.pairing = "idle" /\ central'.ltk = "ltk"
  /\ central'.bond = central.bond /\ central'.tk = central.tk

RequestsStep ==
  /\ SamePeripheral /\ SameCentral /\ SameCount /\ UNCHANGED <<usb, sent>>
  /\ NoConnection(dongle.events)
  /\ dongle'.events = dongle.events /\ SameLink
  /\ \E p : p.op \in AttOps /\ dongle'.acl = <<p>>

ReportStep ==
  /\ state # "SEND_ACL" /\ Stages(Plain("notification"))
  /\ SameSession /\ SameDongle /\ SameCentral /\ SameCount
  /\ UNCHANGED <<usb, sent>>

FaultStep ==
  /\ state' = "DISCONNECTED" /\ usb' = Idle /\ ~smp_phase3_pending'
  /\ dongle'.events = <<>> /\ IsNew /\ IsUnpaired /\ SameCount
  /\ UNCHANGED <<saved, sent>>
  /\ \/ UNCHANGED <<acl_tx_buf, conn_handle, smp>>
     \/ /\ acl_tx_buf'.handle = 0 /\ conn_handle' = 0
        /\ smp'.bond = saved /\ smp'.phase3_index = 0

BondStep ==
  \/ NothingStep \/ PollStep \/ SendHciStep \/ SendAclStep \/ EventStep
  \/ PacketStep \/ CommandStep \/ TakenStep \/ ConnectStep \/ DisconnectStep
  \/ PairsStep \/ EncryptsStep \/ RequestsStep \/ ReportStep \/ FaultStep

\* UNCHANGED in the words of the effects.
LEMMA PeripheralSame ==
  ASSUME UNCHANGED peripheralVars
  PROVE  SamePeripheral
BY DEF peripheralVars, SamePeripheral, SameSession

\* The actions that start a transfer have one of these effects,
LEMMA PollSteps ==
  ASSUME TypeInv, StagedInv,
         \/ Detect \/ poll_detected \/ poll_event \/ poll_acl
         \/ poll_send_hci \/ poll_send_acl
  PROVE  PollStep \/ SendHciStep \/ SendAclStep
<1> USE DEF SameDongle, SameLink, SameCentral, SameCount, SameSession
<1>1. CASE Detect
  BY <1>1 DEF Detect, PollStep, StagesNothing
<1>2. CASE poll_detected
  BY <1>2 DEF poll_detected, send_bringup_step, ble_send_hci_cmd, stage_tx,
     Polling, PollStep, StagesNothing
<1>3. CASE poll_event \/ poll_acl
  <2>1. /\ state \in Polling /\ state' \in Polling
        /\ usb'.packet = usb.packet /\ usb'.pipe # "out"
        /\ UNCHANGED <<acl_tx_buf, conn_handle, encrypted_state,
                       smp_phase3_pending, smp, saved, dongle, central, count,
                       sent>>
    BY <1>3 DEF poll_event, poll_acl, poll_in, Polling, TypeInv, LinkTypes, UsbSet
  <2> QED BY <2>1 DEF PollStep, StagesNothing, Polling
<1>4. CASE poll_send_hci
  <2>1. /\ usb'.packet = usb.packet /\ usb'.pipe = "setup" /\ state = "SEND_HCI"
    BY <1>4 DEF poll_send_hci, TypeInv, LinkTypes, UsbSet
  <2>2. InternalEffect
    BY <1>4, Internal DEF poll_send_hci
  <2> QED BY <1>4, <2>1, <2>2 DEF poll_send_hci, SendHciStep
<1>5. CASE poll_send_acl
  <2>1. usb'.packet = acl_tx_buf /\ usb'.pipe = "out"
    BY <1>5 DEF poll_send_acl, TypeInv, LinkTypes, UsbSet
  <2>2. InternalEffect
    BY <1>5, Internal DEF poll_send_acl
  <2> QED BY <1>5, <2>1, <2>2 DEF poll_send_acl, SendAclStep
<1> QED BY <1>1, <1>2, <1>3, <1>4, <1>5

\* those that end an IN have,
LEMMA InSteps ==
  ASSUME TypeInv, StagedInv, in_event \/ in_acl
  PROVE  NothingStep \/ EventStep \/ PacketStep
<1> USE DEF SameDongle, SameLink, SameCentral, SameCount
<1>1. state \in Polling /\ state # "SEND_ACL" /\ usb' = Idle
      /\ UNCHANGED <<central, sent>> /\ dongle \in DongleSet
  BY DEF in_event, in_acl, StagedInv, InPending, Polling, TypeInv, LinkTypes
<1>2. CASE UNCHANGED <<peripheralVars, dongle, count>>
  BY <1>1, <1>2, PeripheralSame DEF NothingStep
<1>3. CASE /\ usb.pipe = "event"
           /\ dongle.events # <<>> /\ handle_event(Head(dongle.events))
           /\ dongle' = [dongle EXCEPT !.events = Tail(@)]
  <2>1. /\ dongle'.events = Tail(dongle.events)
        /\ dongle'.acl = dongle.acl /\ SameLink
    BY <1>1, <1>3 DEF DongleSet
  <2>2. Head(dongle.events) \in EventSet
    BY <1>1, <1>3, HeadTypes
  <2> QED BY <1>1, <1>3, <2>1, <2>2, EventSteps DEF EventStep
<1>4. CASE /\ usb.pipe = "acl"
           /\ dongle.acl # <<>> /\ handle_acl(Head(dongle.acl))
           /\ dongle' = [dongle EXCEPT !.acl = Tail(@)]
  <2>1. /\ dongle'.acl = Tail(dongle.acl)
        /\ dongle'.events = dongle.events /\ SameLink
    BY <1>1, <1>4 DEF DongleSet
  <2>2. Head(dongle.acl) \in PduSet
    BY <1>1, <1>4, HeadTypes
  <2> QED BY <1>1, <1>4, <2>1, <2>2, PacketSteps DEF PacketStep
<1> QED BY <1>2, <1>3, <1>4 DEF in_event, in_acl


\* those that end a command,
LEMMA CommandSteps ==
  ASSUME TypeInv, setup_done
  PROVE  NothingStep \/ CommandStep
<1> DEFINE cmd == usb.command
           d == IF cmd.step = BRINGUP_RESET THEN NewDongle(TRUE)
                ELSE IF cmd.step = BRINGUP_ADV_ENABLE
                THEN [dongle EXCEPT !.adv = TRUE]
                ELSE dongle
           complete == Event("command_complete", cmd.step)
           changed == Event("encryption_change", 1)
<1>1. /\ SamePeripheral /\ SameCount /\ UNCHANGED sent
      /\ usb.pipe = "setup" /\ usb' = Idle /\ cmd \in CommandSet
      /\ dongle \in DongleSet /\ central \in CentralSet
  BY PeripheralSame DEF setup_done, SameCount, TypeInv, LinkTypes, UsbSet
<1>2. CASE /\ cmd.op = "bringup" /\ dongle' = With(d, complete)
           /\ central' = IF d.link THEN central ELSE Unpaired(central.bond)
  <2>1. complete \in EventSet /\ complete.op = "command_complete"
    <3>1. cmd.step \in 1..8
      BY <1>1, <1>2 DEF CommandSet, BRINGUP_IDLE
    <3> QED BY <3>1, EventFacts DEF Event
  <2>2. CASE cmd.step = BRINGUP_RESET
    <3>1. /\ dongle'.events = Append(<<>>, complete) /\ dongle'.acl = <<>>
          /\ ~dongle'.link /\ ~dongle'.encrypted
          /\ central' = Unpaired(central.bond)
      BY <1>2, <2>2 DEF With, NewDongle
    <3>2. IsNew /\ IsUnpaired
      BY <3>1 DEF IsNew, IsUnpaired, Unpaired
    <3> QED BY <1>1, <2>1, <3>1, <3>2 DEF CommandStep
  <2>3. CASE cmd.step # BRINGUP_RESET
    <3>1. d \in {dongle, [dongle EXCEPT !.adv = TRUE]}
      BY <2>3
    <3>2. /\ d.events = dongle.events /\ d.acl = dongle.acl
          /\ d.link = dongle.link /\ d.encrypted = dongle.encrypted
          /\ d \in DongleSet
      BY <1>1, <3>1 DEF DongleSet
    <3> HIDE DEF d
    <3>3. /\ dongle'.events = Append(dongle.events, complete)
          /\ dongle'.acl = dongle.acl /\ SameLink
      BY <1>2, <3>2 DEF With, DongleSet, SameLink
    <3>4. SameCentral \/ (~dongle.link /\ IsUnpaired)
      BY <1>2, <3>2 DEF SameCentral, IsUnpaired, Unpaired
    <3> QED BY <1>1, <2>1, <3>3, <3>4 DEF CommandStep
  <2> QED BY <2>2, <2>3
<1>3. CASE /\ cmd.op \in {"stk", "ltk"} /\ dongle.link /\ central.ltk = cmd.op
           /\ dongle' = With([dongle EXCEPT !.encrypted = TRUE], changed)
           /\ central' = [central EXCEPT !.ltk = "none",
                            !.pairing = IF cmd.op = "stk" THEN "keys" ELSE @]
  <2>1. changed \in EventSet /\ changed.op = "encryption_change"
    BY EventFacts DEF Event
  <2>2. /\ dongle'.events = Append(dongle.events, changed)
        /\ dongle'.acl = dongle.acl /\ dongle'.link /\ dongle'.encrypted
    BY <1>1, <1>3 DEF With, DongleSet
  <2>3. /\ central'.ltk = "none" /\ central'.bond = central.bond
        /\ central'.tk = central.tk
        /\ central'.pairing =
             IF central.ltk = "stk" THEN "keys" ELSE central.pairing
    BY <1>1, <1>3 DEF CentralSet
  <2> QED BY <1>1, <1>3, <2>1, <2>2, <2>3 DEF CommandStep
<1>4. CASE /\ cmd.op = "negative" /\ dongle.link /\ central.ltk # "none"
           /\ central' = [central EXCEPT !.ltk = "none", !.bond = NoKey,
                            !.pairing = IF central.ltk = "stk" THEN "failed"
                                        ELSE @]
           /\ UNCHANGED dongle
  <2>1. /\ central'.ltk = "none" /\ central'.bond = NoKey
        /\ central'.tk = central.tk
        /\ central'.pairing =
             IF central.ltk = "stk" THEN "failed" ELSE central.pairing
    BY <1>1, <1>4 DEF CentralSet
  <2> QED BY <1>1, <1>4, <2>1 DEF CommandStep, SameDongle, SameLink
<1>5. CASE UNCHANGED <<dongle, central>>
  BY <1>1, <1>5 DEF NothingStep, SameDongle, SameLink, SameCentral
<1> QED BY <1>2, <1>3, <1>4, <1>5 DEF setup_done

\* those that end an OUT,
LEMMA TakenSteps ==
  ASSUME TypeInv, out_done
  PROVE  NothingStep \/ TakenStep
<1> DEFINE pdu == usb.packet.pdu
<1>1. /\ SamePeripheral /\ SameCount /\ UNCHANGED sent
      /\ usb.pipe = "out" /\ usb' = Idle
      /\ dongle \in DongleSet /\ central \in CentralSet
  BY PeripheralSame DEF out_done, SameCount, TypeInv, LinkTypes
<1>2. CASE UNCHANGED <<dongle, central>>
  BY <1>1, <1>2 DEF NothingStep, SameDongle, SameLink, SameCentral
<1>3. CASE /\ dongle.link /\ usb.packet.handle = count.connections
           /\ Expected(pdu)
           /\ central' = CentralAfter(pdu) /\ dongle' = DongleAfter(pdu)
  <2> USE DEF SameDongle, SameLink, SameCentral
  <2>1. CASE pdu.op \in {"att_response", "encryption_info"}
    <3>1. /\ central'.pairing = central.pairing /\ central'.ltk = central.ltk
          /\ central'.bond = central.bond /\ central'.tk = central.tk
      BY <1>1, <1>3, <2>1 DEF CentralAfter, CentralSet
    <3>2. UNCHANGED dongle
      BY <1>3, <2>1 DEF DongleAfter
    <3> QED BY <1>1, <1>3, <2>1, <3>1, <3>2 DEF TakenStep
  <2>2. CASE pdu.op = "pairing_failed"
    <3>1. /\ central'.pairing = "failed" /\ central'.ltk = central.ltk
          /\ central'.bond = central.bond
      BY <1>1, <1>3, <2>2 DEF CentralAfter, CentralSet
    <3>2. UNCHANGED dongle
      BY <1>3, <2>2 DEF DongleAfter
    <3>3. central.pairing \in Pairing
      BY <1>3, <2>2 DEF Expected, Pairing
    <3> QED BY <1>1, <1>3, <2>2, <3>1, <3>2, <3>3 DEF TakenStep
  <2>3. CASE pdu.op \in {"pairing_response", "pairing_confirm"}
    <3>1. /\ central'.pairing \in Pairing /\ central'.ltk = central.ltk
          /\ central'.bond = central.bond
      BY <1>1, <1>3, <2>3 DEF CentralAfter, CentralSet, Pairing
    <3>2. PICK p : /\ dongle' = [dongle EXCEPT !.acl = Append(@, p)]
                   /\ \/ p = Pdu("pairing_confirm", central.tk, NoKey)
                      \/ p = Plain("pairing_random")
      BY <1>3, <2>3 DEF DongleAfter
    <3>3. /\ p \in PduSet /\ p.op \in SmpRequests /\ p.op # "pairing_request"
      <4>1. central.tk \in {"none"} \union TKs
        BY <1>1 DEF CentralSet
      <4>2. CASE p = Pdu("pairing_confirm", central.tk, NoKey)
        BY <4>1, <4>2 DEF Pdu, PduSet, SmpRequests, Operations, NoKey
      <4>3. CASE p = Plain("pairing_random")
        BY <4>3 DEF Pdu, Plain, PduSet, SmpRequests, Operations, NoKey
      <4> QED BY <3>2, <4>2, <4>3
    <3>4. /\ dongle'.acl = Append(dongle.acl, p) /\ dongle'.events = dongle.events
          /\ SameLink
      BY <1>1, <3>2 DEF DongleSet
    <3>5. central.pairing \in Pairing
      BY <1>3, <2>3 DEF Expected, Pairing
    <3> QED BY <1>1, <1>3, <2>3, <3>1, <3>3, <3>4, <3>5 DEF TakenStep
  <2>4. CASE pdu.op = "pairing_random"
    <3>1. /\ central'.pairing = "stk" /\ central'.ltk = "stk"
          /\ central'.bond = central.bond
      BY <1>1, <1>3, <2>4 DEF CentralAfter, CentralSet
    <3>2. Event("ltk_request", NoKey) \in EventSet
          /\ Event("ltk_request", NoKey).op = "ltk_request"
      BY EventFacts DEF NoKey, Event
    <3>3. /\ dongle'.events = Append(dongle.events, Event("ltk_request", NoKey))
          /\ dongle'.acl = dongle.acl /\ SameLink
      BY <1>1, <1>3, <2>4 DEF DongleAfter, With, DongleSet
    <3>4. central.pairing \in Pairing
      BY <1>3, <2>4 DEF Expected, Pairing
    <3> QED BY <1>1, <1>3, <2>4, <3>1, <3>2, <3>3, <3>4 DEF TakenStep
  <2>5. CASE pdu.op = "master_identification"
    <3>1. /\ central'.pairing = "bonded" /\ central'.ltk = central.ltk
          /\ central'.bond = pdu.bond
      BY <1>1, <1>3, <2>5 DEF CentralAfter, CentralSet
    <3>2. UNCHANGED dongle
      BY <1>3, <2>5 DEF DongleAfter
    <3>3. central.pairing = "keys"
      BY <1>3, <2>5 DEF Expected
    <3> QED BY <1>1, <1>3, <2>5, <3>1, <3>2, <3>3 DEF TakenStep
  <2> QED BY <1>3, <2>1, <2>2, <2>3, <2>4, <2>5 DEF Expected
<1> QED BY <1>2, <1>3 DEF out_done

\* those of the central,
LEMMA CentralSteps ==
  ASSUME TypeInv, PairsAgain = FALSE,
         \/ CentralConnects \/ CentralDisconnects \/ CentralEncrypts
         \/ \E tk \in TKs : CentralPairs(tk)
         \/ \E op \in AttOps : CentralRequests(op)
  PROVE  \/ ConnectStep \/ DisconnectStep \/ EncryptsStep
         \/ PairsStep \/ RequestsStep
<1> USE DEF SameLink, SameCentral, SameCount
<1>1. /\ SamePeripheral /\ UNCHANGED <<usb, sent>>
      /\ dongle \in DongleSet /\ central \in CentralSet /\ count \in CountSet
  BY PeripheralSame DEF CentralConnects, CentralDisconnects, CentralEncrypts,
     CentralPairs, CentralRequests, TypeInv, LinkTypes
<1>2. CASE CentralConnects
  <2> DEFINE e == Event("connection", count'.connections)
  <2>1. count'.connections = count.connections + 1 /\ e \in EventSet
    <3>1. count'.connections = count.connections + 1
          /\ count.connections + 1 \in Nat
      BY <1>1, <1>2 DEF CentralConnects, CountSet
    <3> QED BY <3>1, EventFacts
  <2>2. /\ dongle'.events = Append(dongle.events, e) /\ dongle'.acl = <<>>
        /\ dongle'.link /\ dongle'.encrypted = dongle.encrypted
    BY <1>1, <1>2 DEF CentralConnects, With, DongleSet
  <2>3. e.op = "connection" /\ e.value = count'.connections
    BY DEF Event
  <2> QED BY <1>1, <1>2, <2>1, <2>2, <2>3 DEF CentralConnects, ConnectStep
<1>3. CASE CentralDisconnects
  <2>1. Event("disconnection", 0) \in EventSet
        /\ Event("disconnection", 0).op = "disconnection"
    BY EventFacts DEF Event
  <2>2. /\ dongle'.events = Append(dongle.events, Event("disconnection", 0))
        /\ dongle'.acl = dongle.acl /\ ~dongle'.link /\ ~dongle'.encrypted
    BY <1>1, <1>3 DEF CentralDisconnects, With, DongleSet
  <2>3. IsUnpaired
    BY <1>3 DEF CentralDisconnects, IsUnpaired, Unpaired
  <2> QED BY <1>1, <1>3, <2>1, <2>2, <2>3 DEF CentralDisconnects, DisconnectStep
<1>4. CASE CentralEncrypts
  <2> DEFINE e == Event("ltk_request", central.bond)
  <2>1. e \in EventSet /\ e.op = "ltk_request"
    BY <1>1, EventFacts DEF Event, CentralSet
  <2>2. /\ dongle'.events = Append(dongle.events, e)
        /\ dongle'.acl = dongle.acl /\ SameLink
    BY <1>1, <1>4 DEF CentralEncrypts, With, DongleSet
  <2>3. /\ central'.pairing = "idle" /\ central'.ltk = "ltk"
        /\ central'.bond = central.bond /\ central'.tk = central.tk
    BY <1>1, <1>4 DEF CentralEncrypts, CentralSet
  <2> QED BY <1>1, <1>4, <2>1, <2>2, <2>3 DEF CentralEncrypts, EncryptsStep
<1>5. ASSUME NEW tk \in TKs, CentralPairs(tk) PROVE PairsStep
  <2> DEFINE p == Pdu("pairing_request", tk, NoKey)
  <2>1. p.op = "pairing_request" /\ dongle'.acl = <<p>>
        /\ dongle'.events = dongle.events /\ SameLink
    BY <1>1, <1>5 DEF CentralPairs, Pdu, DongleSet
  <2>2. /\ central'.pairing = "request" /\ central'.ltk = "none"
        /\ central'.bond = NoKey
    BY <1>1, <1>5 DEF CentralPairs, CentralSet
  <2>3. /\ dongle.link /\ NoConnection(dongle.events) /\ central.ltk = "none"
        /\ \/ central.pairing = "idle" /\ ~dongle.encrypted
           \/ central.pairing = "failed"
    BY <1>5 DEF CentralPairs, Settled, NoConnection
  <2>4. SameCount
    BY <1>1, <1>5 DEF CentralPairs, CountSet
  <2> QED BY <1>1, <1>5, <2>1, <2>2, <2>3, <2>4 DEF PairsStep
<1>6. ASSUME NEW op \in AttOps, CentralRequests(op) PROVE RequestsStep
  <2>1. /\ dongle'.acl = <<Plain(op)>> /\ Plain(op).op \in AttOps
        /\ dongle'.events = dongle.events /\ SameLink
    BY <1>1, <1>6 DEF CentralRequests, Plain, Pdu, DongleSet
  <2>2. SameCentral /\ SameCount
    BY <1>1, <1>6 DEF CentralRequests, CentralSet, CountSet
  <2>3. NoConnection(dongle.events)
    BY <1>6 DEF CentralRequests, Settled, NoConnection
  <2> QED BY <1>1, <2>1, <2>2, <2>3 DEF RequestsStep
<1> QED BY <1>2, <1>3, <1>4, <1>5, <1>6

\* and the application, the faults and stuttering.
LEMMA OtherSteps ==
  ASSUME TypeInv, StagedInv, ResetInv,
         \/ Application \/ on_usb_disconnected \/ Plug \/ ble_peripheral_init
         \/ UNCHANGED vars
  PROVE  ReportStep \/ FaultStep \/ NothingStep
<1> USE DEF SameDongle, SameLink, SameCentral, SameCount
<1>1. CASE Application
  <2>1. state \in Polling /\ send_report(state)
    BY <1>1 DEF Application, send_report
  <2>2. /\ Stages(Plain("notification"))
        /\ UNCHANGED <<smp, smp_phase3_pending, saved>>
        /\ count'.connections = count.connections
    BY <2>1, Report
  <2>3. state # "SEND_ACL"
    BY <2>1 DEF Polling
  <2> QED BY <1>1, <2>2, <2>3 DEF Application, ReportStep, SameSession
<1>2. CASE on_usb_disconnected \/ ble_peripheral_init
  <2>1. /\ state' = "DISCONNECTED" /\ usb' = Idle /\ ~smp_phase3_pending'
        /\ central' = Unpaired(central.bond) /\ UNCHANGED <<saved, sent>>
        /\ \E present : dongle' = NewDongle(present)
    BY <1>2 DEF on_usb_disconnected, ble_peripheral_init
  <2>2. /\ dongle'.events = <<>> /\ IsNew /\ IsUnpaired
    BY <2>1 DEF NewDongle, IsNew, IsUnpaired, Unpaired
  <2>3. SameCount
    BY <1>2 DEF on_usb_disconnected, ble_peripheral_init, TypeInv, LinkTypes,
       CountSet
  <2>4. \/ UNCHANGED <<acl_tx_buf, conn_handle, smp>>
        \/ /\ acl_tx_buf'.handle = 0 /\ conn_handle' = 0
           /\ smp'.bond = saved /\ smp'.phase3_index = 0
    <3>1. CASE on_usb_disconnected
      BY <3>1 DEF on_usb_disconnected
    <3>2. CASE ble_peripheral_init
      <4>1. acl_tx_buf'.handle = 0 /\ conn_handle' = 0
        BY <3>2 DEF ble_peripheral_init, Packet
      <4>2. smp'.bond = saved /\ smp'.phase3_index = 0
        BY <3>2 DEF ble_peripheral_init, smp_set_bond, Blank
      <4> QED BY <4>1, <4>2
    <3> QED BY <1>2, <3>1, <3>2
  <2> QED BY <2>1, <2>2, <2>3, <2>4 DEF FaultStep
<1>3. CASE Plug
  <2>1. Quiet /\ dongle' = NewDongle(TRUE)
    BY <1>3 DEF Plug, ResetInv, ResetPending, Starting
  <2>2. SameDongle
    BY <2>1 DEF Quiet, NewDongle, TypeInv, LinkTypes, DongleSet
  <2> QED BY <1>3, <2>2, PeripheralSame DEF Plug, NothingStep
<1>4. CASE UNCHANGED vars
  BY <1>4, PeripheralSame DEF vars, NothingStep
<1> QED BY <1>1, <1>2, <1>3, <1>4

\* Together: every step has one of the effects.
LEMMA BondSteps ==
  ASSUME PairsAgain = FALSE, TypeInv, StagedInv, ResetInv, [Next]_vars
  PROVE  BondStep
BY PollSteps, InSteps, CommandSteps, TakenSteps, CentralSteps, OtherSteps,
   StepCases DEF BondStep


-----------------------------------------------------------------------------
(* Every step keeps the invariant, one part after the other *)

\* No transfer carries no packet.
LEMMA IdleFacts ==
  Idle.pipe = "none" /\ Idle.packet.handle = 0
BY DEF Idle, Packet

\* The types the proofs below need.
LEMMA Types ==
  ASSUME TypeInv
  PROVE  /\ dongle.events \in Seq(EventSet) /\ dongle.acl \in Seq(PduSet)
         /\ conn_handle \in Nat /\ count.connections \in Nat
         /\ acl_tx_buf.handle \in Nat /\ usb.packet.handle \in Nat
         /\ smp.phase3_index \in {0, 1, 2} /\ smp.bond \in Nat
BY DEF TypeInv, SendTypes, SessionTypes, LinkTypes, DongleSet, CountSet, UsbSet,
       PacketSet, smp_session

\* The handle of what was staged.
LEMMA StagedHandle ==
  ASSUME TypeInv, HandleInv, UNCHANGED conn_handle,
         StagesNothing \/ \E pdu : Stages(pdu)
  PROVE  acl_tx_buf'.handle <= conn_handle'
BY Types DEF HandleInv, StagesNothing, Stages, Packet

\* Every step keeps HandleInv: connections are numbered, and announced in order.
LEMMA HandleStep ==
  ASSUME TypeInv, HandleInv, BondStep
  PROVE  HandleInv'
<1> USE DEF HandleInv, SameCount
<1>1. CASE NothingStep \/ PollStep \/ ReportStep
  <2>1. /\ UNCHANGED conn_handle /\ SameCount /\ dongle'.events = dongle.events
        /\ usb' = Idle \/ usb'.packet = usb.packet
    BY <1>1 DEF NothingStep, PollStep, ReportStep, SamePeripheral, SameSession,
       SameDongle
  <2>2. acl_tx_buf'.handle <= conn_handle'
    BY <1>1, <2>1, StagedHandle
       DEF NothingStep, PollStep, ReportStep, SamePeripheral
  <2> QED BY <2>1, <2>2, IdleFacts, Types
<1>2. CASE SendHciStep \/ SendAclStep
  <2>1. /\ UNCHANGED conn_handle /\ dongle'.events = dongle.events
        /\ usb'.packet \in {usb.packet, acl_tx_buf} /\ InternalEffect
    BY <1>2 DEF SendHciStep, SendAclStep, SameDongle
  <2>2. SameCount /\ (StagesNothing \/ \E pdu : Stages(pdu))
    BY <2>1 DEF InternalEffect, PumpEffect
  <2>3. acl_tx_buf'.handle <= conn_handle'
    BY <2>1, <2>2, StagedHandle
  <2> QED BY <2>1, <2>2, <2>3
<1>3. CASE EventStep
  <2> DEFINE e == Head(dongle.events)
  <2>1. /\ usb' = Idle /\ dongle.events # <<>>
        /\ dongle'.events = Tail(dongle.events)
    BY <1>3 DEF EventStep
  <2>2. CASE EventKept \/ EventEncryption \/ EventDisconnection
    <3>1. /\ UNCHANGED conn_handle /\ SameCount
          /\ StagesNothing \/ \E pdu : Stages(pdu)
      BY <2>2 DEF EventKept, EventEncryption, EventDisconnection, PumpEffect
    <3>2. acl_tx_buf'.handle <= conn_handle'
      BY <3>1, StagedHandle
    <3>3. Numbered(dongle'.events, conn_handle', count'.connections)
      BY <2>1, <3>1, Types, EventsTail
    <3> QED BY <2>1, <3>1, <3>2, <3>3, IdleFacts, Types
  <2>3. CASE e.op = "connection" /\ EventConnection(e.value)
    <3>1. /\ conn_handle < e.value /\ e.value <= count.connections
          /\ Numbered(Tail(dongle.events), e.value, count.connections)
      BY <2>1, <2>3, Types, EventsHead
    <3>2. /\ conn_handle' = e.value /\ SameCount
          /\ acl_tx_buf'.handle = e.value
      BY <2>3 DEF EventConnection, Packet
    <3>3. e.value \in Nat
      BY <2>1, Types, HeadTailProperties DEF EventSet
    <3> QED BY <2>1, <3>1, <3>2, <3>3, IdleFacts
  <2> QED BY <1>3, <2>2, <2>3 DEF EventStep
<1>4. CASE PacketStep
  <2>1. /\ UNCHANGED conn_handle /\ SameCount /\ usb' = Idle
        /\ dongle'.events = dongle.events
        /\ StagesNothing \/ \E pdu : Stages(pdu)
    BY <1>4 DEF PacketStep, PacketEffect
  <2>2. acl_tx_buf'.handle <= conn_handle'
    BY <2>1, StagedHandle
  <2> QED BY <2>1, <2>2, IdleFacts, Types
<1>5. CASE CommandStep \/ TakenStep
  <2>1. /\ UNCHANGED <<acl_tx_buf, conn_handle>> /\ SameCount /\ usb' = Idle
    BY <1>5 DEF CommandStep, TakenStep, SamePeripheral, SameSession
  <2>2. \/ dongle'.events = dongle.events
        \/ \E e \in EventSet :
             /\ e.op # "connection"
             /\ \/ dongle'.events = Append(dongle.events, e)
                \/ dongle'.events = Append(<<>>, e)
    BY <1>5 DEF CommandStep, TakenStep, SameDongle
  <2>3. Numbered(dongle'.events, conn_handle, count.connections)
    <3>1. <<>> \in Seq(EventSet)
      BY EmptySeq
    <3> QED BY <2>2, <3>1, Types, EventsAppend, EventsNone
  <2> QED BY <2>1, <2>3, IdleFacts, Types
<1>6. CASE ConnectStep
  <2>1. /\ UNCHANGED <<acl_tx_buf, conn_handle, usb>>
        /\ count'.connections = count.connections + 1
    BY <1>6 DEF ConnectStep, SamePeripheral, SameSession
  <2>2. PICK e \in EventSet :
          /\ e.op = "connection" /\ e.value = count.connections + 1
          /\ dongle'.events = Append(dongle.events, e)
    BY <1>6 DEF ConnectStep
  <2>3. Numbered(dongle'.events, conn_handle, count.connections + 1)
    <3> DEFINE more == Append(dongle.events, e)
    <3>1. \A h, n \in Nat :
            /\ Numbered(dongle.events, h, n) /\ h <= n /\ e.value = n + 1
            => Numbered(more, h, n + 1)
      BY <2>2, Types, EventsGrow
    <3> HIDE DEF more
    <3>2. Numbered(more, conn_handle, count.connections + 1)
      BY <2>2, <3>1, Types
    <3> QED BY <2>2, <3>2 DEF more
  <2> QED BY <2>1, <2>3, Types
<1>7. CASE DisconnectStep \/ PairsStep \/ EncryptsStep \/ RequestsStep
  <2>1. /\ UNCHANGED <<acl_tx_buf, conn_handle, usb>> /\ SameCount
    BY <1>7 DEF DisconnectStep, PairsStep, EncryptsStep, RequestsStep,
       SamePeripheral, SameSession
  <2>2. \/ dongle'.events = dongle.events
        \/ \E e \in EventSet : /\ e.op # "connection"
                               /\ dongle'.events = Append(dongle.events, e)
    BY <1>7 DEF DisconnectStep, PairsStep, EncryptsStep, RequestsStep
  <2>3. Numbered(dongle'.events, conn_handle, count.connections)
    BY <2>2, Types, EventsAppend
  <2> QED BY <2>1, <2>3
<1>8. CASE FaultStep
  <2>1. /\ acl_tx_buf'.handle <= conn_handle' /\ conn_handle' <= count.connections
        /\ conn_handle' \in Nat
    BY <1>8, Types DEF FaultStep
  <2> QED BY <1>8, <2>1, IdleFacts, EventsNone DEF FaultStep
<1> QED BY <1>1, <1>2, <1>3, <1>4, <1>5, <1>6, <1>7, <1>8 DEF BondStep

\* Events that wait announce connections the peripheral does not know of yet.
LEMMA OldHandle ==
  ASSUME TypeInv, HandleInv, ~NoConnection(dongle.events)
  PROVE  conn_handle < count.connections
<1>1. PICK i \in 1..Len(dongle.events) : dongle.events[i].op = "connection"
  BY DEF NoConnection
<1>2. /\ conn_handle < dongle.events[i].value
      /\ dongle.events[i].value <= count.connections
      /\ dongle.events[i].value \in Nat
  BY <1>1, Types DEF HandleInv, Numbered, EventSet
<1> QED BY <1>2, Types

\* No connection is announced.
EventsMore ==
  \/ dongle'.events = dongle.events
  \/ \E e \in EventSet : /\ e.op # "connection"
                         /\ dongle'.events = Append(dongle.events, e)

\* A handler's event is not a connection.
LEMMA NoneAnnounced ==
  ASSUME TypeInv, EventsMore
  PROVE  NoConnection(dongle.events) <=> NoConnection(dongle'.events)
<1>1. CASE dongle'.events = dongle.events
  BY <1>1
<1>2. ASSUME NEW e \in EventSet, e.op # "connection",
             dongle'.events = Append(dongle.events, e)
      PROVE  NoConnection(dongle.events) <=> NoConnection(dongle'.events)
  <2>1. NoConnection(Append(dongle.events, e)) => NoConnection(dongle.events)
    BY <1>2, Types, EventsGrow
  <2>2. ASSUME NoConnection(dongle.events)
        PROVE  NoConnection(Append(dongle.events, e))
    <3>1. ASSUME NEW i \in 1..Len(Append(dongle.events, e))
          PROVE  \/ i \in 1..Len(dongle.events)
                    /\ Append(dongle.events, e)[i] = dongle.events[i]
                 \/ Append(dongle.events, e)[i] = e
      BY Types, AppendIndex
    <3> QED BY <1>2, <2>2, <3>1 DEF NoConnection
  <2> QED BY <1>2, <2>1, <2>2
<1> QED BY <1>1, <1>2 DEF EventsMore

\* Every step keeps PacketsInv.
LEMMA PacketsStep ==
  ASSUME TypeInv, HandleInv, PacketsInv, BondStep
  PROVE  PacketsInv'
<1> USE DEF PacketsInv
<1>1. CASE \/ NothingStep \/ PollStep \/ SendHciStep \/ SendAclStep \/ ReportStep
  <2>1. dongle'.acl = dongle.acl /\ dongle'.events = dongle.events
    BY <1>1 DEF NothingStep, PollStep, SendHciStep, SendAclStep, ReportStep,
       SameDongle
  <2> QED BY <2>1
<1>2. CASE EventStep
  <2>1. /\ dongle.events # <<>> /\ dongle'.events = Tail(dongle.events)
        /\ dongle'.acl = dongle.acl
    BY <1>2 DEF EventStep
  <2> QED BY <2>1, Types, EventsTail
<1>3. CASE PacketStep
  <2>1. /\ dongle.acl # <<>> /\ dongle'.acl = Tail(dongle.acl)
        /\ dongle'.events = dongle.events
    BY <1>3 DEF PacketStep
  <2> QED BY <2>1, Types, AclTail
<1>4. CASE CommandStep
  <2>1. CASE IsNew
    BY <2>1, AclNew DEF IsNew
  <2>2. CASE dongle'.acl = dongle.acl /\ EventsMore
    BY <2>2, NoneAnnounced
  <2> QED BY <1>4, <2>1, <2>2 DEF CommandStep, SameDongle, EventsMore
<1>5. CASE TakenStep
  <2>1. NoConnection(dongle.events)
    BY <1>5, Types, OldHandle DEF TakenStep, HandleInv
  <2>2. CASE dongle'.acl = dongle.acl /\ EventsMore
    BY <2>2, NoneAnnounced
  <2>3. CASE /\ dongle'.events = dongle.events
             /\ \E p \in PduSet :
                  dongle'.acl = Append(dongle.acl, p) /\ p.op \in SmpRequests
    BY <2>1, <2>3, Types, AclAppend
  <2> QED BY <1>5, <2>2, <2>3 DEF TakenStep, SameDongle, EventsMore
<1>6. CASE ConnectStep
  BY <1>6, AclNew DEF ConnectStep
<1>7. CASE DisconnectStep \/ EncryptsStep
  <2>1. dongle'.acl = dongle.acl /\ EventsMore
    BY <1>7 DEF DisconnectStep, EncryptsStep, EventsMore
  <2> QED BY <2>1, NoneAnnounced
<1>8. CASE PairsStep \/ RequestsStep
  <2>1. NoConnection(dongle'.events)
    BY <1>8 DEF PairsStep, RequestsStep
  <2>2. \E p : dongle'.acl = <<p>> /\ p.op \in SmpRequests \union AttOps
    BY <1>8 DEF PairsStep, RequestsStep, SmpRequests
  <2> QED BY <2>1, <2>2, AclNew
<1>9. CASE FaultStep
  BY <1>9, AclNew DEF FaultStep, IsNew
<1> QED BY <1>1, <1>2, <1>3, <1>4, <1>5, <1>6, <1>7, <1>8, <1>9 DEF BondStep

\* Every step keeps CentralInv.
LEMMA CentralStep ==
  ASSUME CentralInv, BondStep
  PROVE  CentralInv'
<1> USE DEF CentralInv, SameCentral, SameLink
<1>1. CASE \/ NothingStep \/ PollStep \/ SendHciStep \/ SendAclStep \/ ReportStep
           \/ EventStep \/ PacketStep \/ RequestsStep
  BY <1>1 DEF NothingStep, PollStep, SendHciStep, SendAclStep, ReportStep,
     SameDongle, EventStep, PacketStep, RequestsStep
<1>2. CASE CommandStep
  <2>1. CASE SameLink /\ SameCentral
    BY <2>1
  <2>2. CASE IsUnpaired
    BY <2>2 DEF IsUnpaired, Pairing
  <2>3. CASE /\ dongle.link /\ central.ltk \in {"stk", "ltk"}
             /\ dongle'.link /\ dongle'.encrypted
             /\ central'.ltk = "none"
             /\ central'.pairing =
                  IF central.ltk = "stk" THEN "keys" ELSE central.pairing
    BY <2>3 DEF Pairing
  <2>4. CASE /\ dongle.link /\ central.ltk # "none" /\ SameDongle
             /\ central'.ltk = "none"
             /\ central'.pairing =
                  IF central.ltk = "stk" THEN "failed" ELSE central.pairing
    BY <2>4 DEF SameDongle, Pairing
  <2> QED BY <1>2, <2>1, <2>2, <2>3, <2>4 DEF CommandStep
<1>3. CASE TakenStep
  BY <1>3 DEF TakenStep, SameDongle, Pairing
<1>4. CASE ConnectStep
  <2>1. central.pairing = "idle" /\ central.ltk = "none"
    BY <1>4 DEF ConnectStep
  <2> QED BY <1>4, <2>1 DEF ConnectStep, Pairing
<1>5. CASE DisconnectStep \/ FaultStep
  BY <1>5 DEF DisconnectStep, FaultStep, IsUnpaired, Pairing
<1>6. CASE PairsStep
  BY <1>6 DEF PairsStep, Pairing
<1>7. CASE EncryptsStep
  BY <1>7 DEF EncryptsStep, Pairing
<1> QED BY <1>1, <1>2, <1>3, <1>4, <1>5, <1>6, <1>7 DEF BondStep


\* What the peripheral stages of its own is no answer of the pairing.
LEMMA NoResponse ==
  /\ Plain("notification").op \notin SmpResponses
  /\ Plain("security_request").op \notin SmpResponses
  /\ \A bond : /\ EncInfo(bond).op \notin SmpResponses
               /\ MasterId(bond).op \notin SmpResponses
BY DEF Plain, Pdu, EncInfo, MasterId, SmpResponses

\* What stages something else leaves no answer waiting,
LEMMA NoAnswerStaged ==
  ASSUME StagesNothing \/ \E pdu : Stages(pdu) /\ pdu.op \notin SmpResponses
  PROVE  ~AnswerStaged'
BY DEF StagesNothing, Stages, AnswerStaged, Answers, Packet

\* on_internal_sent and pump_phase3 among them,
LEMMA InternalNoAnswer ==
  ASSUME InternalEffect \/ PumpEffect
  PROVE  ~AnswerStaged' /\ SameCount
<1>1. \/ StagesNothing
      \/ \E pdu : Stages(pdu) /\ pdu.op \notin SmpResponses
  BY NoResponse DEF InternalEffect, PumpEffect
<1> QED BY <1>1, NoAnswerStaged DEF InternalEffect, PumpEffect, SameCount

\* and where nothing is under way no answer is.
LEMMA IdleNoAnswer ==
  ASSUME usb' = Idle
  PROVE  ~AnswerSent'
BY IdleFacts DEF AnswerSent

\* A step that changes nothing of the packets and the pairing.
LEMMA TurnKept ==
  ASSUME TurnInv, dongle'.link => dongle.link, dongle'.acl = dongle.acl,
         central'.pairing = central.pairing,
         AnswerStaged' \/ AnswerSent' => AnswerStaged \/ AnswerSent,
         ~(AnswerStaged' /\ AnswerSent')
  PROVE  TurnInv'
BY DEF TurnInv

\* A connection is new to the peripheral: nothing it sends is for it.
LEMMA NewConnection ==
  ASSUME TypeInv, HandleInv, UNCHANGED <<state, acl_tx_buf, usb>>,
         count'.connections = count.connections + 1
  PROVE  ~AnswerStaged' /\ ~AnswerSent'
<1>1. /\ acl_tx_buf.handle # count.connections + 1
      /\ usb.packet.handle # count.connections + 1
  BY Types DEF HandleInv
<1> QED BY <1>1 DEF AnswerStaged, AnswerSent, Answers

\* Nor does an answer come or go without a step of the peripheral.
LEMMA SameAnswers ==
  ASSUME SamePeripheral, SameCount
  PROVE  /\ AnswerStaged' <=> AnswerStaged
         /\ UNCHANGED usb => (AnswerSent' <=> AnswerSent)
BY DEF SamePeripheral, SameCount, AnswerStaged, AnswerSent, Answers

\* Every step keeps TurnInv: one side of a dialogue at a time.
LEMMA TurnStep ==
  ASSUME TypeInv, HandleInv, PacketsInv, TurnInv, CentralInv, BondStep
  PROVE  TurnInv'
<1> USE DEF SameCentral, SameLink, SameDongle
<1>1. CASE NothingStep
  <2>1. /\ AnswerStaged' <=> AnswerStaged
        /\ AnswerSent' => AnswerSent
    BY <1>1, SameAnswers, IdleNoAnswer DEF NothingStep
  <2>2. TurnInv /\ dongle.link => ~(AnswerStaged /\ AnswerSent)
    BY DEF TurnInv
  <2>3. CASE dongle.link
    BY <1>1, <2>1, <2>2, <2>3, TurnKept DEF NothingStep
  <2>4. CASE ~dongle.link
    BY <1>1, <2>4 DEF NothingStep, TurnInv
  <2> QED BY <2>3, <2>4
<1>2. CASE PollStep
  <2>1. ~AnswerStaged'
    BY <1>2, NoAnswerStaged DEF PollStep
  <2>2. AnswerSent' => AnswerSent
    BY <1>2 DEF PollStep, AnswerSent, Answers, SameCount
  <2> QED BY <1>2, <2>1, <2>2, TurnKept DEF PollStep
<1>3. CASE SendHciStep
  <2>1. ~AnswerStaged' /\ ~AnswerSent'
    BY <1>3, InternalNoAnswer DEF SendHciStep, AnswerSent
  <2> QED BY <1>3, <2>1, TurnKept DEF SendHciStep
<1>4. CASE SendAclStep
  <2>1. ~AnswerStaged' /\ SameCount
    BY <1>4, InternalNoAnswer DEF SendAclStep
  <2>2. AnswerSent' => AnswerStaged
    BY <1>4, <2>1 DEF SendAclStep, AnswerSent, AnswerStaged, Answers, SameCount
  <2> QED BY <1>4, <2>1, <2>2, TurnKept DEF SendAclStep
<1>5. CASE EventStep
  <2>1. ~AnswerSent'
    BY <1>5, IdleNoAnswer DEF EventStep
  <2>2. ~AnswerStaged'
    <3>1. CASE EventKept \/ EventDisconnection
      BY <3>1, NoAnswerStaged DEF EventKept, EventDisconnection
    <3>2. CASE EventEncryption
      BY <3>2, NoAnswerStaged, InternalNoAnswer DEF EventEncryption
    <3>3. ASSUME NEW handle, EventConnection(handle) PROVE ~AnswerStaged'
      BY <3>3, NoResponse DEF EventConnection, AnswerStaged, Answers, Packet
    <3> QED BY <1>5, <3>1, <3>2, <3>3 DEF EventStep
  <2> QED BY <1>5, <2>1, <2>2, TurnKept DEF EventStep
<1>6. CASE PacketStep
  <2> DEFINE op == Head(dongle.acl).op
  <2>1. ~AnswerSent'
    BY <1>6, IdleNoAnswer DEF PacketStep
  <2>2. /\ dongle.acl # <<>> /\ dongle'.acl = Tail(dongle.acl)
        /\ SameLink /\ SameCentral /\ PacketEffect(op)
    BY <1>6 DEF PacketStep
  <2>3. /\ op \in SmpRequests \union AttOps
        /\ OneSmp(dongle.acl) => OneSmp(dongle'.acl)
        /\ OneSmp(dongle.acl) /\ op \in SmpRequests => ~HasSmp(dongle'.acl)
        /\ HasSmp(dongle'.acl) => HasSmp(dongle.acl)
        /\ op \in SmpRequests => HasSmp(dongle.acl)
    BY <2>2, Types, AclTail DEF PacketsInv
  <2>4. AnswerStaged' => op \in SmpRequests
    <3>1. SUFFICES ASSUME op \in AttOps PROVE ~AnswerStaged'
      BY <2>3
    <3>2. \/ StagesNothing
          \/ \E answer : Stages(answer) /\ answer.op = "att_response"
      BY <2>2, <3>1 DEF PacketEffect
    <3>3. "att_response" \notin SmpResponses
      BY DEF SmpResponses
    <3> QED BY <3>2, <3>3, NoAnswerStaged
  <2> HIDE DEF op
  <2> QED BY <2>1, <2>2, <2>3, <2>4 DEF TurnInv
<1>7. CASE CommandStep
  <2>1. /\ ~AnswerSent' /\ (AnswerStaged' <=> AnswerStaged)
    BY <1>7, IdleNoAnswer, SameAnswers DEF CommandStep
  <2>2. CASE ~dongle'.link
    BY <2>2 DEF TurnInv
  <2>3. CASE dongle'.acl = dongle.acl /\ SameLink /\ SameCentral
    BY <2>1, <2>3, TurnKept
  <2>4. CASE /\ dongle.link /\ dongle'.acl = dongle.acl
             /\ IF central.ltk = "stk" THEN central'.pairing \notin Pairing
                ELSE central'.pairing = central.pairing
    <3>1. CASE central.ltk = "stk"
      <4>1. central.pairing \notin Pairing
        BY <3>1 DEF CentralInv, Pairing
      <4> QED BY <2>1, <2>4, <3>1, <4>1 DEF TurnInv
    <3>2. CASE central.ltk # "stk"
      BY <2>1, <2>4, <3>2, TurnKept
    <3> QED BY <3>1, <3>2
  <2>5. \/ ~dongle'.link
        \/ dongle'.acl = dongle.acl /\ SameLink /\ SameCentral
        \/ /\ dongle.link /\ dongle'.acl = dongle.acl
           /\ IF central.ltk = "stk" THEN central'.pairing \notin Pairing
              ELSE central'.pairing = central.pairing
    BY <1>7 DEF CommandStep, IsNew, Pairing
  <2> QED BY <2>2, <2>3, <2>4, <2>5
<1>8. CASE TakenStep
  <2> DEFINE op == usb.packet.pdu.op
  <2>1. /\ ~AnswerSent' /\ (AnswerStaged' <=> AnswerStaged) /\ dongle.link
        /\ usb.pipe = "out" /\ usb.packet.handle = count.connections
    BY <1>8, IdleNoAnswer, SameAnswers DEF TakenStep
  <2>2. CASE SameDongle /\ SameCentral
    BY <2>1, <2>2, TurnKept
  <2>3. CASE op \in SmpResponses
    <3>1. AnswerSent
      BY <2>1, <2>3 DEF AnswerSent, Answers
    <3>2. ~HasSmp(dongle.acl) /\ ~AnswerStaged /\ OneSmp(dongle.acl)
      BY <2>1, <3>1 DEF TurnInv
    <3>3. CASE dongle'.acl = dongle.acl
      BY <2>1, <3>2, <3>3 DEF TurnInv
    <3>4. CASE /\ central'.pairing \in Pairing
               /\ \E p \in PduSet : dongle'.acl = Append(dongle.acl, p)
      <4>1. OneSmp(dongle'.acl)
        BY <3>2, <3>4, Types, AclAppend
      <4> QED BY <2>1, <3>2, <3>4, <4>1 DEF TurnInv
    <3> QED BY <1>8, <2>3, <3>3, <3>4 DEF TakenStep, SmpResponses
  <2>4. CASE central.pairing = "keys" /\ SameDongle
    <3>1. central.pairing \notin Pairing
      BY <2>4 DEF Pairing
    <3> QED BY <2>1, <2>4, <3>1 DEF TurnInv
  <2> QED BY <1>8, <2>2, <2>3, <2>4 DEF TakenStep, SmpResponses
<1>9. CASE ConnectStep
  <2>1. ~AnswerStaged' /\ ~AnswerSent'
    BY <1>9, NewConnection DEF ConnectStep, SamePeripheral
  <2> QED BY <1>9, <2>1, AclNew DEF ConnectStep, TurnInv
<1>10. CASE DisconnectStep \/ FaultStep
  BY <1>10 DEF DisconnectStep, FaultStep, IsNew, TurnInv
<1>11. CASE PairsStep
  <2>1. /\ AnswerStaged' <=> AnswerStaged
        /\ AnswerSent' <=> AnswerSent
    BY <1>11, SameAnswers DEF PairsStep
  <2>2. central.pairing \notin Pairing /\ central'.pairing \in Pairing
    BY <1>11 DEF PairsStep, Pairing
  <2>3. ~AnswerStaged /\ ~AnswerSent
    BY <1>11, <2>2 DEF PairsStep, TurnInv
  <2>4. OneSmp(dongle'.acl)
    BY <1>11, AclNew DEF PairsStep
  <2> QED BY <2>1, <2>2, <2>3, <2>4 DEF TurnInv
<1>12. CASE EncryptsStep
  <2>1. /\ AnswerStaged' <=> AnswerStaged
        /\ AnswerSent' <=> AnswerSent
    BY <1>12, SameAnswers DEF EncryptsStep
  <2>2. dongle.link /\ dongle'.acl = dongle.acl
        /\ central'.pairing = central.pairing
    BY <1>12 DEF EncryptsStep
  <2> QED BY <2>1, <2>2 DEF TurnInv
<1>13. CASE RequestsStep
  <2>1. /\ AnswerStaged' <=> AnswerStaged
        /\ AnswerSent' <=> AnswerSent
    BY <1>13, SameAnswers DEF RequestsStep
  <2>2. OneSmp(dongle'.acl) /\ ~HasSmp(dongle'.acl)
    <3>1. AttOps \intersect SmpRequests = {}
      BY DEF AttOps, SmpRequests
    <3> QED BY <1>13, <3>1, AclNew DEF RequestsStep
  <2> QED BY <1>13, <2>1, <2>2 DEF RequestsStep, TurnInv
<1>14. CASE ReportStep
  <2>1. ~AnswerStaged'
    BY <1>14, NoAnswerStaged, NoResponse DEF ReportStep
  <2>2. AnswerSent' <=> AnswerSent
    BY <1>14 DEF ReportStep, AnswerSent, Answers, SameCount
  <2> QED BY <1>14, <2>1, <2>2, TurnKept DEF ReportStep
<1> QED BY <1>1, <1>2, <1>3, <1>4, <1>5, <1>6, <1>7, <1>8, <1>9, <1>10, <1>11,
           <1>12, <1>13, <1>14 DEF BondStep


\* A session that stays as it is stays cut off or not.
LEMMA SameCutOff ==
  ASSUME SameSession
  PROVE  (CutOff' <=> CutOff) /\ smp'.phase3_index = smp.phase3_index
BY DEF SameSession, CutOff

\* The distribution is never cut off by what the peripheral sends.
LEMMA PumpNoCutOff ==
  ASSUME PumpEffect
  PROVE  ~CutOff'
BY DEF PumpEffect, CutOff

\* A step that leaves the events alone.
LEMMA OrderKept ==
  ASSUME OrderInv, dongle'.events = dongle.events, SameLink,
         CutOff' => CutOff, smp'.phase3_index # 0 => smp.phase3_index # 0
  PROVE  OrderInv'
BY DEF OrderInv, SameLink

\* A step that adds an event of no importance.
LEMMA OrderAppend ==
  ASSUME TypeInv, OrderInv, SameSession, SameLink, NEW e \in EventSet,
         e.op \notin {"connection", "encryption_change", "disconnection"},
         dongle'.events = Append(dongle.events, e)
  PROVE  OrderInv'
<1>1. /\ NoConnection(dongle'.events) => NoConnection(dongle.events)
      /\ Later(dongle.events) => Later(dongle'.events)
      /\ Between(dongle.events) => Between(dongle'.events)
      /\ Current(dongle.events, dongle.encrypted) =>
           Current(dongle'.events, dongle'.encrypted)
  BY Types, EventsAppend, EventsGrow DEF SameLink
<1> QED BY <1>1, SameCutOff DEF OrderInv, SameLink

\* Every step keeps OrderInv.
LEMMA OrderStep ==
  ASSUME TypeInv, PacketsInv, TurnInv, CentralInv, OrderInv, RequestInv, KeysInv,
         BondStep
  PROVE  OrderInv'
<1> USE DEF SameLink, SameDongle
<1>1. CASE NothingStep \/ PollStep \/ PairsStep \/ RequestsStep \/ ReportStep
  <2>1. SameSession /\ dongle'.events = dongle.events /\ SameLink
    BY <1>1 DEF NothingStep, PollStep, PairsStep, RequestsStep, ReportStep,
       SamePeripheral
  <2> QED BY <2>1, SameCutOff, OrderKept
<1>2. CASE SendHciStep \/ SendAclStep
  <2>1. dongle'.events = dongle.events /\ SameLink /\ InternalEffect
    BY <1>2 DEF SendHciStep, SendAclStep
  <2>2. CASE smp_phase3_pending /\ PumpEffect
    <3>1. smp.phase3_index # 0
      BY <2>2 DEF KeysInv
    <3> QED BY <2>1, <2>2, <3>1, PumpNoCutOff, OrderKept
  <2>3. CASE UNCHANGED <<smp, smp_phase3_pending>>
    BY <2>1, <2>3, OrderKept DEF CutOff
  <2> QED BY <2>1, <2>2, <2>3 DEF InternalEffect
<1>3. CASE EventStep
  <2> DEFINE events == dongle.events
             e == Head(events)
  <2>1. /\ dongle'.events = Tail(events) /\ events # <<>> /\ SameLink
    BY <1>3 DEF EventStep
  <2>2. /\ Between(Tail(events))
        /\ dongle'.link => Current(Tail(events), dongle'.encrypted)
    BY <2>1, Types, EventsTail DEF OrderInv
  <2>3. CASE e.op \in {"command_complete", "ltk_request"} /\ EventKept
    <3>1. /\ NoConnection(Tail(events)) => NoConnection(events)
          /\ Later(events) => Later(Tail(events))
      BY <2>1, <2>3, Types, EventsHead
    <3>2. (CutOff' <=> CutOff) /\ smp'.phase3_index = smp.phase3_index
      BY <2>3 DEF EventKept, CutOff
    <3> QED BY <2>1, <2>2, <3>1, <3>2 DEF OrderInv
  <2>4. CASE e.op = "connection" /\ EventConnection(e.value)
    BY <2>1, <2>2, <2>4 DEF EventConnection, CutOff, OrderInv
  <2>5. CASE e.op = "encryption_change" /\ EventEncryption
    <3>1. /\ ~Later(events)
          /\ dongle.link => dongle.encrypted \/ ~NoConnection(Tail(events))
      BY <2>1, <2>5, Types, EventsHead DEF OrderInv
    <3>2. ~CutOff
      BY <3>1 DEF OrderInv
    <3>3. ~CutOff'
      BY <2>5, <3>2, PumpNoCutOff DEF EventEncryption, CutOff
    <3> QED BY <2>1, <2>2, <3>1, <3>3 DEF OrderInv
  <2>6. CASE e.op = "disconnection" /\ EventDisconnection
    <3>1. /\ Later(Tail(events))
          /\ dongle.link => ~NoConnection(Tail(events))
      BY <2>1, <2>6, Types, EventsHead DEF OrderInv
    <3> QED BY <2>1, <2>2, <3>1 DEF OrderInv
  <2> QED BY <1>3, <2>3, <2>4, <2>5, <2>6 DEF EventStep
<1>4. CASE PacketStep
  <2> DEFINE op == Head(dongle.acl).op
  <2>1. /\ dongle.acl # <<>> /\ PacketEffect(op)
        /\ dongle'.events = dongle.events /\ SameLink
    BY <1>4 DEF PacketStep
  <2>2. CutOff' => CutOff
    <3>1. SUFFICES ASSUME CutOff', smp.state # "STK_READY" PROVE FALSE
      BY <2>1 DEF PacketEffect, CutOff
    <3>2. op = "pairing_random" /\ smp.phase3_index # 0
      BY <2>1, <3>1 DEF PacketEffect, CutOff
    <3>3. HasSmp(dongle.acl)
      BY <2>1, <3>2, Types, AclTail DEF SmpRequests
    <3> QED BY <3>2, <3>3 DEF RequestInv
  <2>3. smp'.phase3_index = smp.phase3_index
    BY <2>1 DEF PacketEffect
  <2> QED BY <2>1, <2>2, <2>3, OrderKept
<1>5. CASE CommandStep
  <2>1. SameSession
    BY <1>5 DEF CommandStep, SamePeripheral
  <2>2. CASE \E e \in EventSet :
               /\ e.op = "command_complete" /\ dongle'.events = Append(<<>>, e)
               /\ IsNew
    <3>1. <<>> \in Seq(EventSet)
      BY EmptySeq
    <3>2. Later(dongle'.events) /\ Between(dongle'.events)
      BY <2>2, <3>1, EventsNone, EventsAppend
    <3> QED BY <2>2, <3>2 DEF IsNew, OrderInv
  <2>3. CASE \E e \in EventSet :
               /\ e.op = "command_complete" /\ SameLink
               /\ dongle'.events = Append(dongle.events, e)
    BY <2>1, <2>3, OrderAppend
  <2>4. ASSUME NEW e \in EventSet, dongle.link, e.op = "encryption_change",
               dongle'.events = Append(dongle.events, e),
               dongle'.link, dongle'.encrypted
        PROVE  OrderInv'
    <3>1. Current(dongle.events, dongle.encrypted) /\ Between(dongle.events)
      BY <2>4 DEF OrderInv
    <3>2. /\ Current(dongle'.events, TRUE) /\ Between(dongle'.events)
          /\ ~NoConnection(dongle.events) /\ Later(dongle.events) =>
               Later(dongle'.events)
      BY <2>4, <3>1, Types, EventsGrow
    <3>3. NoConnection(dongle'.events) => NoConnection(dongle.events)
      BY <2>4, Types, EventsAppend
    <3>4. Current(dongle'.events, dongle'.encrypted)
      BY <2>4, <3>2 DEF Current
    <3> QED BY <2>1, <2>4, <3>2, <3>3, <3>4, SameCutOff DEF OrderInv
  <2>5. CASE SameDongle
    BY <2>1, <2>5, SameCutOff, OrderKept
  <2> QED BY <1>5, <2>2, <2>3, <2>4, <2>5 DEF CommandStep
<1>6. CASE TakenStep
  <2>1. SameSession
    BY <1>6 DEF TakenStep, SamePeripheral
  <2>2. CASE dongle'.events = dongle.events /\ SameLink
    BY <2>1, <2>2, SameCutOff, OrderKept
  <2>3. CASE SameLink /\ \E e \in EventSet :
               e.op = "ltk_request" /\ dongle'.events = Append(dongle.events, e)
    BY <2>1, <2>3, OrderAppend
  <2> QED BY <1>6, <2>2, <2>3 DEF TakenStep
<1>7. CASE ConnectStep
  <2>1. PICK e \in EventSet :
          e.op = "connection" /\ dongle'.events = Append(dongle.events, e)
    BY <1>7 DEF ConnectStep
  <2>2. /\ ~NoConnection(dongle'.events)
        /\ Current(dongle'.events, dongle'.encrypted)
    <3>1. /\ ~NoConnection(Append(dongle.events, e))
          /\ \A encrypted : Current(Append(dongle.events, e), encrypted)
      BY <2>1, Types, EventsGrow
    <3> QED BY <2>1, <3>1
  <2>3. /\ Later(dongle.events) => Later(dongle'.events)
        /\ Between(dongle.events) => Between(dongle'.events)
    BY <2>1, Types, EventsAppend
  <2>4. SameSession
    BY <1>7 DEF ConnectStep, SamePeripheral
  <2> QED BY <2>2, <2>3, <2>4, SameCutOff DEF OrderInv
<1>8. CASE DisconnectStep
  <2>1. PICK e \in EventSet :
          e.op = "disconnection" /\ dongle'.events = Append(dongle.events, e)
    BY <1>8 DEF DisconnectStep
  <2>2. /\ Later(dongle.events) => Later(dongle'.events)
        /\ Between(dongle.events) => Between(dongle'.events)
    BY <2>1, Types, EventsAppend
  <2>3. SameSession /\ ~dongle'.link
    BY <1>8 DEF DisconnectStep, SamePeripheral
  <2> QED BY <2>2, <2>3, SameCutOff DEF OrderInv
<1>9. CASE EncryptsStep
  <2>1. /\ SameSession /\ SameLink
        /\ \E e \in EventSet : /\ e.op = "ltk_request"
                               /\ dongle'.events = Append(dongle.events, e)
    BY <1>9 DEF EncryptsStep, SamePeripheral
  <2> QED BY <2>1, OrderAppend
<1>10. CASE FaultStep
  BY <1>10, EventsNone DEF FaultStep, IsNew, OrderInv
<1> QED BY <1>1, <1>2, <1>3, <1>4, <1>5, <1>6, <1>7, <1>8, <1>9, <1>10
        DEF BondStep


\* A link that is not encrypted, and known to the peripheral, has no keys.
LEMMA PlainLink ==
  ASSUME OrderInv, KeysInv, dongle.link, NoConnection(dongle.events),
         ~dongle.encrypted
  PROVE  /\ smp.phase3_index = 0 /\ ~smp_phase3_pending
         /\ NoEncryption(dongle.events)
<1>1. smp.phase3_index = 0
  BY DEF OrderInv
<1>2. ~smp_phase3_pending
  BY <1>1 DEF KeysInv
<1>3. NoEncryption(dongle.events)
  BY DEF OrderInv, Current, NoConnection, NoEncryption, ConnectionBehind
<1> QED BY <1>1, <1>2, <1>3

\* A step that leaves the packets and the session alone.
LEMMA RequestKept ==
  ASSUME RequestInv, dongle'.acl = dongle.acl,
         smp'.phase3_index \in {0, smp.phase3_index},
         smp_phase3_pending' => smp_phase3_pending,
         NoEncryption(dongle.events) => NoEncryption(dongle'.events),
         central'.bond \in {central.bond, NoKey}
  PROVE  RequestInv'
BY DEF RequestInv

\* Every step keeps RequestInv.
LEMMA RequestStep ==
  ASSUME TypeInv, HandleInv, PacketsInv, TurnInv, CentralInv, OrderInv,
         RequestInv, KeysInv, BondStep
  PROVE  RequestInv'
<1> USE DEF SameDongle
<1>1. CASE NothingStep \/ PollStep \/ ReportStep
  <2>1. SameSession /\ SameDongle /\ SameCentral
    BY <1>1 DEF NothingStep, PollStep, ReportStep, SamePeripheral
  <2> QED BY <2>1, RequestKept DEF SameSession, SameCentral
<1>2. CASE SendHciStep \/ SendAclStep
  <2>1. SameDongle /\ SameCentral /\ InternalEffect
    BY <1>2 DEF SendHciStep, SendAclStep
  <2>2. CASE smp_phase3_pending
    BY <2>1, <2>2 DEF RequestInv
  <2>3. CASE ~smp_phase3_pending
    <3>1. UNCHANGED <<smp, smp_phase3_pending>>
      BY <2>1, <2>3 DEF InternalEffect
    <3> QED BY <2>1, <3>1, RequestKept DEF SameCentral
  <2> QED BY <2>2, <2>3
<1>3. CASE EventStep
  <2> DEFINE e == Head(dongle.events)
  <2>1. /\ dongle.events # <<>> /\ dongle'.events = Tail(dongle.events)
        /\ dongle'.acl = dongle.acl /\ central'.bond = central.bond
    BY <1>3 DEF EventStep, SameCentral
  <2>2. NoEncryption(dongle.events) => NoEncryption(dongle'.events)
    BY <2>1, Types, EventsTail
  <2>3. CASE EventKept \/ EventDisconnection \/ EventConnection(e.value)
    <3>1. /\ smp'.phase3_index \in {0, smp.phase3_index}
          /\ smp_phase3_pending' => smp_phase3_pending
      BY <2>3 DEF EventKept, EventDisconnection, EventConnection
    <3> QED BY <2>1, <2>2, <3>1, RequestKept
  <2>4. CASE e.op = "encryption_change"
    <3>1. ~NoEncryption(dongle.events)
      BY <2>1, <2>4, Types, EventsHead
    <3> QED BY <2>1, <3>1 DEF RequestInv
  <2> QED BY <1>3, <2>3, <2>4 DEF EventStep
<1>4. CASE PacketStep
  <2>1. /\ dongle.acl # <<>> /\ dongle'.acl = Tail(dongle.acl)
        /\ dongle'.events = dongle.events /\ central'.bond = central.bond
        /\ smp'.phase3_index = smp.phase3_index /\ UNCHANGED smp_phase3_pending
    BY <1>4 DEF PacketStep, PacketEffect, SameCentral
  <2>2. /\ HasSmp(dongle'.acl) => HasSmp(dongle.acl)
        /\ HasRequest(dongle'.acl) => HasRequest(dongle.acl)
    BY <2>1, Types, AclTail
  <2> QED BY <2>1, <2>2 DEF RequestInv
<1>5. CASE CommandStep
  <2>1. SameSession
    BY <1>5 DEF CommandStep, SamePeripheral
  <2>2. CASE IsNew
    BY <2>2, AclNew DEF IsNew, RequestInv
  <2>3. ASSUME NEW e \in EventSet, e.op = "command_complete",
               dongle'.events = Append(dongle.events, e),
               dongle'.acl = dongle.acl, SameCentral \/ IsUnpaired
        PROVE  RequestInv'
    <3>1. NoEncryption(dongle.events) => NoEncryption(dongle'.events)
      BY <2>3, Types, EventsAppend
    <3> QED BY <2>1, <2>3, <3>1, RequestKept
            DEF SameSession, SameCentral, IsUnpaired
  <2>4. CASE /\ dongle.link /\ central.ltk \in {"stk", "ltk"}
             /\ dongle'.acl = dongle.acl
    <3>1. central.pairing \notin Pairing
      BY <2>4 DEF CentralInv, Pairing
    <3> QED BY <2>4, <3>1 DEF TurnInv, RequestInv
  <2>5. CASE SameDongle /\ central'.bond = NoKey
    BY <2>1, <2>5, RequestKept DEF SameSession
  <2> QED BY <1>5, <2>2, <2>3, <2>4, <2>5 DEF CommandStep
<1>6. CASE TakenStep
  <2>1. SameSession /\ dongle.link /\ usb.packet.handle = count.connections
    BY <1>6 DEF TakenStep, SamePeripheral
  <2>2. CASE SameDongle /\ central'.bond = central.bond
    BY <2>1, <2>2, RequestKept DEF SameSession
  <2>3. ASSUME central.pairing \in Pairing, central'.bond = central.bond,
               dongle'.events = dongle.events,
               NEW p \in PduSet, dongle'.acl = Append(dongle.acl, p),
               p.op # "pairing_request"
        PROVE  RequestInv'
    <3>1. ~dongle.encrypted
      BY <2>3 DEF CentralInv
    <3>2. NoConnection(dongle.events)
      BY <2>1, Types, OldHandle DEF HandleInv
    <3>3. /\ smp.phase3_index = 0 /\ ~smp_phase3_pending
          /\ NoEncryption(dongle.events)
      BY <2>1, <3>1, <3>2, PlainLink
    <3>4. HasRequest(dongle'.acl) => HasRequest(dongle.acl)
      BY <2>3, Types, AclAppend
    <3>5. HasRequest(dongle.acl) => HasSmp(dongle.acl)
      BY DEF HasRequest, HasSmp, SmpRequests
    <3> QED BY <2>1, <2>3, <3>3, <3>4, <3>5 DEF RequestInv, SameSession
  <2>4. ASSUME NEW e \in EventSet, e.op = "ltk_request",
               dongle'.events = Append(dongle.events, e),
               dongle'.acl = dongle.acl, central'.bond = central.bond
        PROVE  RequestInv'
    <3>1. NoEncryption(dongle.events) => NoEncryption(dongle'.events)
      BY <2>4, Types, EventsAppend
    <3> QED BY <2>1, <2>4, <3>1, RequestKept DEF SameSession
  <2>5. CASE central.pairing = "keys" /\ SameDongle
    <3>1. central.pairing \notin Pairing
      BY <2>5 DEF Pairing
    <3> QED BY <2>1, <2>5, <3>1 DEF TurnInv, RequestInv
  <2> QED BY <1>6, <2>2, <2>3, <2>4, <2>5 DEF TakenStep, SameCentral
<1>7. CASE ConnectStep \/ FaultStep
  BY <1>7, AclNew DEF ConnectStep, FaultStep, IsNew, RequestInv
<1>8. CASE DisconnectStep \/ EncryptsStep
  <2>1. /\ SameSession /\ dongle'.acl = dongle.acl
        /\ central'.bond = central.bond
        /\ \E e \in EventSet : /\ e.op # "encryption_change"
                               /\ dongle'.events = Append(dongle.events, e)
    BY <1>8 DEF DisconnectStep, EncryptsStep, SamePeripheral, IsUnpaired
  <2>2. NoEncryption(dongle.events) => NoEncryption(dongle'.events)
    BY <2>1, Types, EventsAppend
  <2> QED BY <2>1, <2>2, RequestKept DEF SameSession
<1>9. CASE PairsStep
  <2>1. ~dongle.encrypted
    BY <1>9 DEF PairsStep, CentralInv
  <2>2. /\ smp.phase3_index = 0 /\ ~smp_phase3_pending
        /\ NoEncryption(dongle.events)
    BY <1>9, <2>1, PlainLink DEF PairsStep
  <2> QED BY <1>9, <2>2 DEF PairsStep, SamePeripheral, SameSession, RequestInv
<1>10. CASE RequestsStep
  <2>1. ~HasSmp(dongle'.acl)
    <3>1. AttOps \intersect SmpRequests = {}
      BY DEF AttOps, SmpRequests
    <3> QED BY <1>10, <3>1, AclNew DEF RequestsStep
  <2> QED BY <2>1 DEF RequestInv
<1> QED BY <1>1, <1>2, <1>3, <1>4, <1>5, <1>6, <1>7, <1>8, <1>9, <1>10
        DEF BondStep

-----------------------------------------------------------------------------
(* The keys, and the bond *)

\* What the dongle has been handed or is about to be.
LEMMA HandedFacts ==
  /\ state # "SEND_ACL" => Handed = sent
  /\ sent \subseteq Handed
  /\ state = "SEND_ACL" => Handed = sent \union {acl_tx_buf.pdu}
BY DEF Handed

\* What is staged now will be handed over.
LEMMA HandedNext ==
  /\ sent' \subseteq Handed'
  /\ \A pdu : Stages(pdu) => pdu \in Handed'
BY DEF Handed, Stages, Packet

\* Which PDUs are keys, and of which bond.
LEMMA KeyPdus ==
  /\ \A bond : /\ EncInfo(bond).op = "encryption_info"
               /\ MasterId(bond).op = "master_identification"
               /\ MasterId(bond).bond = bond
  /\ Plain("notification").op # "master_identification"
  /\ Plain("security_request").op # "master_identification"
BY DEF EncInfo, MasterId, Pdu, Plain

\* No PDU of the distribution was staged.
LEMMA NoKeyStaged ==
  ASSUME StagesNothing \/ \E pdu : /\ Stages(pdu)
                                   /\ pdu.op # "master_identification"
  PROVE  ~(state' = "SEND_ACL" /\ acl_tx_buf'.pdu.op = "master_identification")
BY DEF StagesNothing, Stages, Packet

\* The distribution goes on by one PDU: a PDU is sent after its predecessor,
\* and the bond is saved after the last.
LEMMA PumpKeys ==
  ASSUME KeysInv, BondAgreement, PumpEffect, encrypted_state',
         smp_phase3_pending \/ smp.phase3_index = 0,
         Handed \subseteq sent', central'.bond = central.bond,
         usb'.pipe = "out" /\ usb'.packet.pdu.op = "master_identification" =>
           smp.phase3_index = 2 /\ usb'.packet.pdu.bond = smp.bond
  PROVE  KeysInv' /\ BondAgreement'
<1>1. sent \subseteq sent' /\ Handed \subseteq Handed'
  BY HandedFacts, HandedNext
<1>2. central.bond # NoKey =>
        /\ smp'.bond = central.bond /\ smp.bond = central.bond
        /\ saved = central.bond
  BY DEF BondAgreement, PumpEffect
<1>3. saved # NoKey =>
        \A op \in {"encryption_info", "master_identification"} :
          Pdu(op, "none", saved) \in sent'
  BY <1>1 DEF BondAgreement
<1>4. CASE /\ smp.phase3_index = 0 /\ smp'.phase3_index = 1 /\ smp_phase3_pending'
           /\ Stages(EncInfo(smp'.bond)) /\ UNCHANGED saved
  <2>1. EncInfo(smp'.bond) \in Handed'
    BY <1>4, HandedNext
  <2>2. ~(state' = "SEND_ACL" /\ acl_tx_buf'.pdu.op = "master_identification")
    BY <1>4, KeyPdus, NoKeyStaged
  <2>3. KeysInv'
    BY <1>4, <2>1, <2>2 DEF KeysInv, PumpEffect
  <2> QED BY <1>2, <1>3, <1>4, <2>3 DEF BondAgreement
<1>5. CASE /\ smp.phase3_index = 1 /\ smp'.phase3_index = 2 /\ smp_phase3_pending'
           /\ Stages(MasterId(smp'.bond)) /\ UNCHANGED saved
  <2>1. smp.bond # NoKey /\ smp'.bond = smp.bond /\ EncInfo(smp.bond) \in Handed
    BY <1>5 DEF KeysInv, PumpEffect
  <2>2. EncInfo(smp'.bond) \in Handed' /\ MasterId(smp'.bond) \in Handed'
    BY <1>1, <1>5, <2>1, HandedNext
  <2>3. acl_tx_buf'.pdu.bond = smp'.bond
    BY <1>5, KeyPdus DEF Stages, Packet
  <2>4. KeysInv'
    BY <1>5, <2>1, <2>2, <2>3 DEF KeysInv
  <2> QED BY <1>2, <1>3, <1>5, <2>4 DEF BondAgreement
<1>6. CASE /\ smp.phase3_index = 2 /\ smp'.phase3_index = 2 /\ ~smp_phase3_pending'
           /\ StagesNothing /\ saved' = smp'.bond
  <2>1. /\ smp.bond # NoKey /\ smp'.bond = smp.bond
        /\ EncInfo(smp.bond) \in sent' /\ MasterId(smp.bond) \in sent'
    BY <1>6 DEF KeysInv, PumpEffect
  <2>2. KeysInv'
    BY <1>6, <2>1, NoKeyStaged DEF KeysInv
  <2>3. \A op \in {"encryption_info", "master_identification"} :
          Pdu(op, "none", saved') \in sent'
    BY <1>6, <2>1 DEF EncInfo, MasterId
  <2> QED BY <1>2, <1>6, <2>1, <2>2, <2>3 DEF BondAgreement
<1> QED BY <1>4, <1>5, <1>6 DEF PumpEffect

\* A step that leaves the keys alone.
LEMMA KeysKept ==
  ASSUME KeysInv, BondAgreement,
         smp_phase3_pending' =>
           /\ smp_phase3_pending /\ smp'.bond = smp.bond
           /\ smp'.phase3_index = smp.phase3_index,
         Handed \subseteq Handed', sent \subseteq sent', UNCHANGED saved,
         ~(state' = "SEND_ACL" /\ acl_tx_buf'.pdu.op = "master_identification"),
         usb'.pipe = "out" /\ usb'.packet.pdu.op = "master_identification" =>
           /\ usb.pipe = "out" /\ usb'.packet = usb.packet
           /\ smp'.bond = smp.bond /\ smp'.phase3_index = smp.phase3_index,
         central'.bond # NoKey =>
           central'.bond = central.bond /\ smp'.bond = smp.bond
  PROVE  KeysInv' /\ BondAgreement'
<1>1. KeysInv'
  BY DEF KeysInv
<1>2. BondAgreement'
  BY DEF BondAgreement
<1> QED BY <1>1, <1>2


\* Without a step of the peripheral the keys stay where they are.
LEMMA KeysSame ==
  ASSUME KeysInv, BondAgreement, SamePeripheral, UNCHANGED sent,
         usb' = Idle \/ UNCHANGED usb
  PROVE  /\ KeysInv'
         /\ central'.bond \in {central.bond, NoKey} => BondAgreement'
<1>1. Handed' = Handed
  BY DEF Handed, SamePeripheral
<1>2. KeysInv'
  BY <1>1, IdleFacts DEF KeysInv, SamePeripheral, SameSession
<1>3. central'.bond \in {central.bond, NoKey} => BondAgreement'
  BY DEF BondAgreement, SamePeripheral, SameSession
<1> QED BY <1>2, <1>3

\* Every step keeps KeysInv and with it the agreement on the bond.
LEMMA KeysStep ==
  ASSUME TypeInv, OrderInv, RequestInv, KeysInv, BondAgreement, BondStep
  PROVE  KeysInv' /\ BondAgreement'
<1> DEFINE Sends == /\ usb'.pipe = "out"
                    /\ usb'.packet.pdu.op = "master_identification"
<1>1. CASE \/ NothingStep \/ CommandStep \/ ConnectStep \/ DisconnectStep
           \/ PairsStep \/ EncryptsStep \/ RequestsStep
  <2>1. /\ SamePeripheral /\ UNCHANGED sent /\ (usb' = Idle \/ UNCHANGED usb)
        /\ central'.bond \in {central.bond, NoKey}
    BY <1>1 DEF NothingStep, CommandStep, ConnectStep, DisconnectStep,
       PairsStep, EncryptsStep, RequestsStep, SameCentral, IsUnpaired
  <2> QED BY <2>1, KeysSame
<1>2. CASE PollStep \/ ReportStep
  <2>1. /\ Handed = sent /\ SameSession /\ UNCHANGED sent
        /\ central'.bond = central.bond
        /\ Sends => usb.pipe = "out" /\ usb'.packet = usb.packet
    BY <1>2, HandedFacts DEF PollStep, ReportStep, SameCentral
  <2>2. ~(state' = "SEND_ACL" /\ acl_tx_buf'.pdu.op = "master_identification")
    BY <1>2, NoKeyStaged, KeyPdus DEF PollStep, ReportStep
  <2>3. Handed \subseteq Handed'
    BY <2>1, HandedNext
  <2> QED BY <2>1, <2>2, <2>3, KeysKept DEF SameSession
<1>3. CASE SendHciStep \/ SendAclStep
  <2>1. /\ Handed = sent' /\ InternalEffect /\ central'.bond = central.bond
        /\ UNCHANGED encrypted_state
        /\ Sends => /\ state = "SEND_ACL"
                    /\ acl_tx_buf.pdu.op = "master_identification"
                    /\ usb'.packet = acl_tx_buf
    BY <1>3, HandedFacts DEF SendHciStep, SendAclStep, SameCentral
  <2>2. Sends => /\ smp_phase3_pending /\ encrypted_state
                 /\ smp.phase3_index = 2 /\ usb'.packet.pdu.bond = smp.bond
    BY <2>1 DEF KeysInv
  <2>3. Handed \subseteq Handed' /\ sent \subseteq sent'
    BY <2>1, HandedFacts, HandedNext
  <2>4. CASE smp_phase3_pending /\ encrypted_state /\ PumpEffect
    BY <2>1, <2>2, <2>4, PumpKeys
  <2>5. CASE /\ ~(smp_phase3_pending /\ encrypted_state)
             /\ UNCHANGED <<smp, smp_phase3_pending, saved>>
             /\ Stages(Plain("notification")) \/ StagesNothing
    <3>1. ~(state' = "SEND_ACL" /\ acl_tx_buf'.pdu.op = "master_identification")
      BY <2>5, NoKeyStaged, KeyPdus
    <3>2. ~Sends
      BY <2>2, <2>5
    <3> QED BY <2>1, <2>3, <2>5, <3>1, <3>2, KeysKept
  <2> QED BY <2>1, <2>4, <2>5 DEF InternalEffect
<1>4. CASE EventStep
  <2> DEFINE e == Head(dongle.events)
  <2>1. /\ Handed = sent /\ UNCHANGED sent /\ central'.bond = central.bond
        /\ dongle.events # <<>> /\ ~Sends
    BY <1>4, HandedFacts, IdleFacts DEF EventStep, SameCentral
  <2>2. Handed \subseteq Handed' /\ Handed \subseteq sent'
    BY <2>1, HandedNext
  <2>3. CASE EventKept \/ EventDisconnection
    <3>1. ~(state' = "SEND_ACL" /\ acl_tx_buf'.pdu.op = "master_identification")
      BY <2>3, NoKeyStaged DEF EventKept, EventDisconnection
    <3>2. /\ UNCHANGED <<smp, saved>>
          /\ smp_phase3_pending' => smp_phase3_pending
      BY <2>3 DEF EventKept, EventDisconnection
    <3> QED BY <2>1, <2>2, <3>1, <3>2, KeysKept
  <2>4. CASE EventConnection(e.value)
    <3>1. ~(state' = "SEND_ACL" /\ acl_tx_buf'.pdu.op = "master_identification")
      BY <2>4, KeyPdus DEF EventConnection, Packet
    <3>2. UNCHANGED saved /\ smp'.bond = smp.bond /\ ~smp_phase3_pending'
      BY <2>4 DEF EventConnection
    <3> QED BY <2>1, <2>2, <3>1, <3>2, KeysKept
  <2>5. CASE e.op = "encryption_change" /\ EventEncryption
    <3>1. ~CutOff
      BY <2>1, <2>5, Types, EventsHead DEF OrderInv
    <3>2. CASE smp.state = "STK_READY" /\ PumpEffect
      <4>1. smp_phase3_pending \/ smp.phase3_index = 0
        BY <3>1, <3>2 DEF CutOff
      <4> QED BY <2>1, <2>2, <2>5, <3>2, <4>1, PumpKeys DEF EventEncryption
    <3>3. CASE /\ StagesNothing
               /\ UNCHANGED <<smp, smp_phase3_pending, saved, count>>
      <4>1. ~(state' = "SEND_ACL"
                /\ acl_tx_buf'.pdu.op = "master_identification")
        BY <3>3, NoKeyStaged
      <4> QED BY <2>1, <2>2, <3>3, <4>1, KeysKept
    <3> QED BY <2>5, <3>2, <3>3 DEF EventEncryption
  <2> QED BY <1>4, <2>3, <2>4, <2>5 DEF EventStep
<1>5. CASE PacketStep
  <2> DEFINE op == Head(dongle.acl).op
  <2>1. /\ Handed = sent /\ UNCHANGED <<sent, saved, smp_phase3_pending>>
        /\ central'.bond = central.bond /\ dongle.acl # <<>> /\ ~Sends
        /\ PacketEffect(op)
    BY <1>5, HandedFacts, IdleFacts DEF PacketStep, PacketEffect, SameCentral
  <2>2. ~(state' = "SEND_ACL" /\ acl_tx_buf'.pdu.op = "master_identification")
    <3>1. /\ "att_response" # "master_identification"
          /\ "master_identification" \notin SmpResponses
      BY DEF SmpResponses
    <3>2. \/ StagesNothing
          \/ \E pdu : Stages(pdu) /\ pdu.op # "master_identification"
      BY <2>1, <3>1 DEF PacketEffect
    <3> QED BY <3>2, NoKeyStaged
  <2>3. Handed \subseteq Handed'
    BY <2>1, HandedNext
  <2>4. CASE op = "pairing_request"
    <3>1. HasSmp(dongle.acl) /\ HasRequest(dongle.acl)
      BY <2>1, <2>4, Types, AclTail DEF SmpRequests
    <3>2. ~smp_phase3_pending /\ central.bond = NoKey
      BY <3>1 DEF RequestInv
    <3> QED BY <2>1, <2>2, <2>3, <3>2, KeysKept
  <2>5. CASE smp'.bond = smp.bond
    BY <2>1, <2>2, <2>3, <2>5, KeysKept DEF PacketEffect
  <2> QED BY <2>1, <2>4, <2>5 DEF PacketEffect
<1>6. CASE TakenStep
  <2>1. KeysInv' /\ (central'.bond \in {central.bond, NoKey} => BondAgreement')
    BY <1>6, KeysSame DEF TakenStep
  <2>2. CASE central'.bond = central.bond
    BY <2>1, <2>2
  <2>3. CASE /\ usb.packet.pdu.op = "master_identification"
             /\ central'.bond = usb.packet.pdu.bond
    <3>1. smp.bond = central'.bond /\ saved = central'.bond
      BY <1>6, <2>3 DEF TakenStep, KeysInv
    <3> QED BY <1>6, <2>1, <3>1
            DEF TakenStep, SamePeripheral, SameSession, BondAgreement
  <2> QED BY <1>6, <2>2, <2>3 DEF TakenStep, SameCentral
<1>7. CASE FaultStep
  <2>1. KeysInv'
    BY <1>7, IdleFacts DEF FaultStep, KeysInv
  <2>2. BondAgreement'
    BY <1>7 DEF FaultStep, IsUnpaired, BondAgreement
  <2> QED BY <2>1, <2>2
<1> QED BY <1>1, <1>2, <1>3, <1>4, <1>5, <1>6, <1>7 DEF BondStep

\* The invariant holds at the start,
LEMMA BondInit ==
  ASSUME Init
  PROVE  BondInv
<1>1. /\ acl_tx_buf.handle = 0 /\ usb = Idle /\ conn_handle = 0
      /\ count.connections = 0 /\ dongle.events = <<>> /\ dongle.acl = <<>>
      /\ ~dongle.link /\ ~dongle.encrypted
  BY DEF Init, Packet, NewDongle
<1>2. /\ central.pairing = "idle" /\ central.ltk = "none" /\ central.bond = NoKey
  BY DEF Init, Unpaired
<1>3. /\ ~smp_phase3_pending /\ saved = NoKey /\ state # "SEND_ACL"
      /\ smp.phase3_index = 0
  BY DEF Init, Blank
<1>4. HandleInv /\ PacketsInv /\ TurnInv /\ OrderInv /\ RequestInv
  BY <1>1, <1>3, IdleFacts, EventsNone, AclNew
     DEF HandleInv, PacketsInv, TurnInv, OrderInv, RequestInv, CutOff
<1>5. CentralInv
  BY <1>2 DEF CentralInv, Pairing
<1>6. KeysInv /\ BondAgreement
  BY <1>1, <1>2, <1>3, IdleFacts DEF KeysInv, BondAgreement
<1> QED BY <1>4, <1>5, <1>6 DEF BondInv

\* and every step keeps it.
LEMMA BondInvStep ==
  ASSUME PairsAgain = FALSE, TypeInv, StagedInv, ResetInv, BondInv, [Next]_vars
  PROVE  BondInv'
<1>1. BondStep
  BY BondSteps
<1>2. HandleInv' /\ PacketsInv' /\ CentralInv' /\ TurnInv'
  BY <1>1, HandleStep, PacketsStep, CentralStep, TurnStep DEF BondInv
<1>3. OrderInv' /\ RequestInv' /\ KeysInv' /\ BondAgreement'
  BY <1>1, OrderStep, RequestStep, KeysStep DEF BondInv
<1> QED BY <1>2, <1>3 DEF BondInv

(* If a central does not pair again on a connection on which it is bonded,   *)
(* nor with another method, and the application sends from on_sent or with   *)
(* no transfer under way, a bond is saved only after both its keys were sent,*)
(* and the bond of the central is the peripheral's and the saved one: however*)
(* often centrals connect, pair, fail and encrypt, and wherever a            *)
(* disconnection, the end of the dongle or a restart cuts the key            *)
(* distribution (pump_phase3, smp_next_phase3_pdu, save_bond).               *)
THEOREM BondKept ==
  "loop" \notin SendFrom /\ PairsAgain = FALSE => (Spec => []BondAgreement)
<1> SUFFICES ASSUME "loop" \notin SendFrom, PairsAgain = FALSE
             PROVE  Spec => []BondAgreement
  OBVIOUS
<1>1. Init => StagedInv /\ ResetInv /\ BondInv
  <2>1. Init => Quiet /\ usb = Idle /\ dongle.present
    BY DEF Init, Quiet, NewDongle
  <2>2. Init => StagedInv
    BY DEF Init, StagedInv, InPending, Idle
  <2> QED BY <2>1, <2>2, BondInit DEF ResetInv
<1>2. TypeInv /\ StagedInv /\ ResetInv /\ BondInv /\ [Next]_vars
        => StagedInv' /\ ResetInv' /\ BondInv'
  BY StagedStep, ResetStep, BondInvStep
<1>3. BondInv => BondAgreement
  BY DEF BondInv
<1> QED BY TypesOK, <1>1, <1>2, <1>3, PTL DEF Spec


-----------------------------------------------------------------------------
(* Why a pairing fails *)

(* A command that waits to be sent, or is under way.                         *)
Commanding(op) ==
  \/ state = "SEND_HCI" /\ hci_pkt.op = op
  \/ usb.pipe = "setup" /\ usb.command.op = op
Requested(op) == op \in {"stk", "ltk", "negative"}
Replying == \E op \in {"stk", "ltk", "negative"} : Commanding(op)

\* The events that make the peripheral send the next command of the bring-up.
Completes(e) == e.op = "command_complete" /\ e.value # BRINGUP_ADV_ENABLE
Restarts(e) == e.op = "disconnection" \/ Completes(e)

NoComplete(events) == \A i \in 1..Len(events) : ~Completes(events[i])
NoRestart(events) == \A i \in 1..Len(events) : ~Restarts(events[i])
OneRestart(events) ==
  \A i, j \in 1..Len(events) :
    Restarts(events[i]) /\ Restarts(events[j]) => i = j
EndIsLast(events) ==
  \A i \in 1..Len(events) : events[i].op = "disconnection" => i = Len(events)

NoLtk(events) == \A i \in 1..Len(events) : events[i].op # "ltk_request"
OneLtk(events) ==
  \A i, j \in 1..Len(events) :
    events[i].op = "ltk_request" /\ events[j].op = "ltk_request" => i = j
LtkOfStk(events) ==
  \A i \in 1..Len(events) :
    events[i].op = "ltk_request" => events[i].value = NoKey

(* The bring-up is with the peripheral, with the dongle, or done: nobody can *)
(* connect before, and a link has to end before it begins again.             *)
BringupInv ==
  /\ state = "SEND_HCI" => usb.pipe = "none"
  /\ dongle.link => ~dongle.adv
  /\ dongle.link \/ dongle.adv => ~Commanding("bringup")
  /\ dongle.link \/ dongle.adv \/ Commanding("bringup") =>
       NoRestart(dongle.events)
  /\ OneRestart(dongle.events) /\ EndIsLast(dongle.events)

(* No request for a key, and no answer to one, is left when it begins.       *)
Begins == dongle.adv \/ Commanding("bringup") \/ ~NoComplete(dongle.events)
LtkInv ==
  /\ Begins => NoLtk(dongle.events) /\ ~Replying
  /\ dongle.link =>
       /\ OneLtk(dongle.events)
       /\ ~NoLtk(dongle.events) => ~Replying /\ central.ltk # "none"
       /\ Replying => central.ltk # "none"
       /\ central.ltk = "stk" =>
            LtkOfStk(dongle.events) /\ ~Commanding("negative")

Method(tk) == IF tk = "just_works" THEN "just_works" ELSE "passkey"

(* What the session says of the pairing the central is in.                   *)
AwaitsConfirm ==
  smp.state = "AWAITING_CONFIRM" /\ (smp.jw_mode <=> central.tk = "just_works")
AwaitsRandom ==
  /\ smp.state = "AWAITING_RANDOM" /\ smp.mconfirm = central.tk
  /\ smp.tk = Method(central.tk)
RequestFits(pdu) ==
  /\ pdu.op = "pairing_request" => central.pairing = "request" /\ pdu.tk = central.tk
  /\ pdu.op = "pairing_confirm" =>
       central.pairing = "confirm" /\ pdu.tk = central.tk /\ AwaitsConfirm
  /\ pdu.op = "pairing_random" => central.pairing = "random" /\ AwaitsRandom
AnswerFits(op) ==
  /\ op = "pairing_response" => central.pairing = "request" /\ AwaitsConfirm
  /\ op = "pairing_confirm" => central.pairing = "confirm" /\ AwaitsRandom
  /\ op = "pairing_random" => central.pairing = "random" /\ smp.state = "STK_READY"
  /\ op = "pairing_failed" => central.tk = "wrong"
MethodInv ==
  /\ ~NoConnection(dongle.events) => central.pairing = "idle"
  /\ NoConnection(dongle.events) /\ central.pairing = "idle" => smp.tk = "none"
  /\ NoConnection(dongle.events) /\ central.pairing # "idle" =>
       /\ smp.tk \in {"none", Method(central.tk)} /\ central.tk \in TKs
       /\ Passkey \/ central.tk = "just_works"
StageInv ==
  dongle.link =>
    /\ MethodInv
    /\ \A i \in 1..Len(dongle.acl) : RequestFits(dongle.acl[i])
    /\ AnswerStaged => AnswerFits(acl_tx_buf.pdu.op)
    /\ AnswerSent => AnswerFits(usb.packet.pdu.op)
    /\ central.pairing = "stk" => smp.state = "STK_READY"

FailInv == BringupInv /\ LtkInv /\ StageInv

-----------------------------------------------------------------------------
(* What a step does to the commands, the events and the link *)

SameAdvertising == dongle'.link = dongle.link /\ dongle'.adv = dongle.adv
CommandsKept ==
  /\ \A op : Commanding(op)' => Commanding(op)
  /\ state' = "SEND_HCI" =>
       usb'.pipe = "none" \/ (state = "SEND_HCI" /\ usb'.pipe = usb.pipe)

\* Nothing new for either side,
KeptEffect ==
  /\ CommandsKept /\ SameAdvertising
  /\ dongle'.events = dongle.events /\ central'.ltk = central.ltk

\* a start from nothing,
BlankEffect ==
  /\ dongle'.events = <<>> /\ ~dongle'.link /\ ~dongle'.adv
  /\ usb'.pipe = "none" /\ (state' = "SEND_HCI" => hci_pkt'.op = "bringup")

\* an event for the peripheral, which is answered with a command or not,
PolledEffect ==
  /\ state \in Polling /\ usb.pipe = "event" /\ usb'.pipe = "none"
  /\ dongle.events # <<>> /\ dongle'.events = Tail(dongle.events)
  /\ SameAdvertising /\ central'.ltk = central.ltk
  /\ LET e == Head(dongle.events)
     IN  \/ e.op # "ltk_request" /\ e.op # "disconnection" /\ state' # "SEND_HCI"
         \/ Restarts(e) /\ state' = "SEND_HCI" /\ hci_pkt'.op = "bringup"
         \/ /\ e.op = "ltk_request" /\ state' = "SEND_HCI"
            /\ Requested(hci_pkt'.op)
            /\ hci_pkt'.op = "negative" => e.value # NoKey \/ smp.state # "STK_READY"

\* a command for the dongle,
CompletedEffect ==
  /\ CommandsKept /\ usb'.pipe = "none" /\ UNCHANGED state
  /\ usb.pipe = "setup" /\ usb.command.op = "bringup"
  /\ \E e \in EventSet :
       /\ e.op = "command_complete"
       /\ \/ dongle'.events = Append(<<>>, e) /\ ~dongle'.link /\ ~dongle'.adv
          \/ /\ dongle'.events = Append(dongle.events, e)
             /\ dongle'.link = dongle.link
             /\ e.value = BRINGUP_ADV_ENABLE \/ ~Restarts(e) \/ dongle'.adv = dongle.adv
AnsweredEffect ==
  /\ CommandsKept /\ usb'.pipe = "none" /\ UNCHANGED state /\ SameAdvertising
  /\ dongle.link /\ usb.pipe = "setup" /\ Requested(usb.command.op)
  /\ central'.ltk = "none"
  /\ \/ dongle'.events = dongle.events
     \/ \E e \in EventSet : /\ e.op = "encryption_change"
                            /\ dongle'.events = Append(dongle.events, e)

\* and what the central does.
RequestEffect ==
  /\ CommandsKept /\ SameAdvertising
  /\ dongle.link /\ central.ltk = "none" /\ central'.ltk # "none"
  /\ \E e \in EventSet :
       /\ e.op = "ltk_request" /\ dongle'.events = Append(dongle.events, e)
       /\ central'.ltk = "stk" => e.value = NoKey
ConnectedEffect ==
  /\ CommandsKept /\ dongle.adv /\ ~dongle'.adv /\ ~dongle.link
  /\ \E e \in EventSet : /\ e.op = "connection"
                         /\ dongle'.events = Append(dongle.events, e)
DisconnectedEffect ==
  /\ CommandsKept /\ dongle.link /\ ~dongle'.link /\ dongle'.adv = dongle.adv
  /\ \E e \in EventSet : /\ e.op = "disconnection"
                         /\ dongle'.events = Append(dongle.events, e)

LinkEffect ==
  \/ KeptEffect \/ BlankEffect \/ PolledEffect \/ CompletedEffect
  \/ AnsweredEffect \/ RequestEffect \/ ConnectedEffect \/ DisconnectedEffect

\* What changes neither the command nor the transfer, or ends the transfer.
LEMMA SameCommands ==
  ASSUME \/ UNCHANGED <<state, hci_pkt>> /\ (UNCHANGED usb \/ usb' = Idle)
         \/ /\ state' # "SEND_HCI"
            /\ \/ usb'.pipe # "setup"
               \/ usb'.pipe = usb.pipe /\ usb'.command = usb.command
  PROVE  CommandsKept
<1>1. Idle.pipe = "none"
  BY DEF Idle
<1> QED BY <1>1 DEF CommandsKept, Commanding

\* The polls keep the command they send, and those before it have none.
LEMMA PollLink ==
  ASSUME TypeInv, StagedInv, ResetInv,
         \/ Detect \/ poll_detected \/ poll_event \/ poll_acl
         \/ poll_send_hci \/ poll_send_acl
  PROVE  KeptEffect \/ BlankEffect
<1>1. CASE Detect
  <2>1. CommandsKept
    BY <1>1, SameCommands DEF Detect
  <2> QED BY <1>1, <2>1 DEF Detect, KeptEffect, SameAdvertising
<1>2. CASE poll_detected
  <2>1. Quiet
    BY <1>2 DEF poll_detected, ResetInv, ResetPending, Starting
  <2>2. usb'.pipe = "none" /\ hci_pkt'.op = "bringup" /\ UNCHANGED dongle
    BY <1>2 DEF poll_detected, Idle, send_bringup_step, ble_send_hci_cmd, Bringup,
       NoAnswer
  <2> QED BY <2>1, <2>2 DEF Quiet, BlankEffect
<1>3. CASE poll_event \/ poll_acl
  <2>1. state' # "SEND_HCI" /\ usb'.pipe # "setup" /\ UNCHANGED <<dongle, central>>
    BY <1>3 DEF poll_event, poll_acl, poll_in, TypeInv, LinkTypes, UsbSet
  <2> QED BY <2>1, SameCommands DEF KeptEffect, SameAdvertising
<1>4. CASE poll_send_hci
  <2>1. usb'.pipe = "setup" /\ usb'.command = hci_pkt /\ state = "SEND_HCI"
    BY <1>4 DEF poll_send_hci, TypeInv, LinkTypes, UsbSet
  <2>2. state' # "SEND_HCI"
    BY <1>4, InternalSends DEF poll_send_hci, Polling
  <2>3. CommandsKept
    BY <2>1, <2>2 DEF CommandsKept, Commanding
  <2> QED BY <1>4, <2>3 DEF poll_send_hci, KeptEffect, SameAdvertising
<1>5. CASE poll_send_acl
  <2>1. usb'.pipe = "out"
    BY <1>5 DEF poll_send_acl, TypeInv, LinkTypes, UsbSet
  <2>2. state' # "SEND_HCI"
    BY <1>5, InternalSends DEF poll_send_acl, Polling
  <2>3. CommandsKept
    BY <2>1, <2>2, SameCommands
  <2> QED BY <1>5, <2>3 DEF poll_send_acl, KeptEffect, SameAdvertising
<1> QED BY <1>1, <1>2, <1>3, <1>4, <1>5

\* Only the handlers of events build commands.
LEMMA EventCommands ==
  ASSUME TypeInv, state \in Polling, NEW e \in EventSet, handle_event(e)
  PROVE  \/ e.op # "ltk_request" /\ e.op # "disconnection" /\ state' # "SEND_HCI"
         \/ Restarts(e) /\ state' = "SEND_HCI" /\ hci_pkt'.op = "bringup"
         \/ /\ e.op = "ltk_request" /\ state' = "SEND_HCI"
            /\ Requested(hci_pkt'.op)
            /\ hci_pkt'.op = "negative" => e.value # NoKey \/ smp.state # "STK_READY"
<1>1. /\ state # "SEND_HCI"
      /\ \A step : Bringup(step).op = "bringup"
      /\ \A op, bond : LtkReply(op, bond).op = op
  BY DEF Polling, Bringup, LtkReply, NoAnswer
<1>2. CASE e.op = "command_complete" /\ command_complete(e.value)
  <2>1. CASE bringup_step = e.value /\ e.value # BRINGUP_ADV_ENABLE
    BY <1>1, <1>2, <2>1 DEF command_complete, send_bringup_step,
       ble_send_hci_cmd, stage_tx, Restarts, Completes
  <2>2. CASE ~(bringup_step = e.value /\ e.value # BRINGUP_ADV_ENABLE)
    BY <1>1, <1>2, <2>2 DEF command_complete, no_send
  <2> QED BY <2>1, <2>2
<1>3. CASE e.op = "connection" /\ on_le_connection_complete(e.value)
  BY <1>3 DEF on_le_connection_complete, send_security_request, ble_send_acl,
     stage_tx
<1>4. CASE e.op = "ltk_request" /\ handle_le_ltk_request(e.value)
  <2>1. PICK cmd :
          /\ ble_send_hci_cmd(state, cmd)
          /\ cmd = IF e.value = NoKey /\ smp.state = "STK_READY"
                   THEN LtkReply("stk", NoKey)
                   ELSE IF smp_lookup_ltk(smp, e.value) THEN LtkReply("ltk", smp.bond)
                   ELSE LtkReply("negative", NoKey)
    BY <1>4 DEF handle_le_ltk_request
  <2>2. /\ cmd.op \in {"stk", "ltk", "negative"}
        /\ cmd.op = "negative" => e.value # NoKey \/ smp.state # "STK_READY"
    BY <1>1, <2>1
  <2>3. hci_pkt' = cmd /\ state' = "SEND_HCI"
    BY <2>1 DEF ble_send_hci_cmd, stage_tx
  <2> QED BY <1>4, <2>2, <2>3 DEF Requested
<1>5. CASE e.op = "encryption_change" /\ handle_encryption_change(e.value = 1)
  <2>1. no_send(state) \/ \E pdu : ble_send_acl(state, conn_handle, pdu)
    BY <1>5 DEF handle_encryption_change, pump_phase3
  <2> QED BY <1>1, <1>5, <2>1 DEF no_send, ble_send_acl, stage_tx
<1>6. CASE e.op = "disconnection" /\ handle_disconnection_complete
  BY <1>1, <1>6 DEF handle_disconnection_complete, send_bringup_step,
     ble_send_hci_cmd, stage_tx, Restarts, Completes
<1> QED BY <1>2, <1>3, <1>4, <1>5, <1>6 DEF handle_event

\* What comes in.
LEMMA InLink ==
  ASSUME TypeInv, StagedInv, in_event \/ in_acl
  PROVE  KeptEffect \/ PolledEffect
<1>1. state \in Polling /\ usb' = Idle /\ UNCHANGED central /\ dongle \in DongleSet
      /\ Idle.pipe = "none"
  BY DEF in_event, in_acl, StagedInv, InPending, TypeInv, LinkTypes, Idle
<1>2. CASE UNCHANGED <<peripheralVars, dongle, count>>
  <2>1. CommandsKept
    BY <1>1, <1>2, SameCommands DEF peripheralVars
  <2> QED BY <1>1, <1>2, <2>1 DEF KeptEffect, SameAdvertising
<1>3. CASE /\ usb.pipe = "event"
           /\ dongle.events # <<>> /\ handle_event(Head(dongle.events))
           /\ dongle' = [dongle EXCEPT !.events = Tail(@)]
  <2>1. dongle'.events = Tail(dongle.events) /\ SameAdvertising
    BY <1>1, <1>3 DEF DongleSet, SameAdvertising
  <2>2. Head(dongle.events) \in EventSet
    BY <1>1, <1>3, HeadTypes
  <2> QED BY <1>1, <1>3, <2>1, <2>2, EventCommands DEF PolledEffect
<1>4. CASE /\ usb.pipe = "acl"
           /\ dongle.acl # <<>> /\ handle_acl(Head(dongle.acl))
           /\ dongle' = [dongle EXCEPT !.acl = Tail(@)]
  <2>1. dongle'.events = dongle.events /\ SameAdvertising
    BY <1>1, <1>4 DEF DongleSet, SameAdvertising
  <2>2. \E answer : respond(answer)
    BY <1>4 DEF handle_acl, dispatch_att, dispatch_smp
  <2>3. state' # "SEND_HCI"
    BY <1>1, <2>2 DEF respond, no_send, ble_send_acl, stage_tx, Polling
  <2> QED BY <1>1, <2>1, <2>3, SameCommands DEF KeptEffect
<1> QED BY <1>2, <1>3, <1>4 DEF in_event, in_acl

\* What arrives in the dongle with the end of a transfer.
LEMMA DoneLink ==
  ASSUME TypeInv, CentralInv, setup_done \/ out_done
  PROVE  KeptEffect \/ CompletedEffect \/ AnsweredEffect \/ RequestEffect
<1> DEFINE cmd == usb.command
           d == IF cmd.step = BRINGUP_RESET THEN NewDongle(TRUE)
                ELSE IF cmd.step = BRINGUP_ADV_ENABLE
                THEN [dongle EXCEPT !.adv = TRUE]
                ELSE dongle
           complete == Event("command_complete", cmd.step)
           changed == Event("encryption_change", 1)
           pdu == usb.packet.pdu
<1>1. /\ UNCHANGED <<state, hci_pkt>> /\ usb' = Idle /\ cmd \in CommandSet
      /\ dongle \in DongleSet /\ central \in CentralSet /\ usb'.pipe = "none"
  <2>1. usb' = Idle /\ UNCHANGED peripheralVars
    BY DEF setup_done, out_done
  <2> QED BY <2>1 DEF peripheralVars, TypeInv, LinkTypes, UsbSet, Idle
<1>2. CommandsKept
  BY <1>1, SameCommands
<1>3. CASE UNCHANGED <<dongle, central>>
  BY <1>2, <1>3 DEF KeptEffect, SameAdvertising
<1>4. CASE /\ usb.pipe = "setup" /\ cmd.op = "bringup"
           /\ dongle' = With(d, complete)
  <2>1. complete \in EventSet /\ complete.op = "command_complete"
        /\ complete.value = cmd.step
    <3>1. cmd.step \in 1..8
      BY <1>1, <1>4 DEF CommandSet, BRINGUP_IDLE
    <3> QED BY <3>1, EventFacts DEF Event
  <2>2. CASE cmd.step = BRINGUP_RESET
    <3>1. /\ dongle'.events = Append(<<>>, complete)
          /\ ~dongle'.link /\ ~dongle'.adv
      BY <1>4, <2>2 DEF With, NewDongle
    <3> QED BY <1>1, <1>2, <1>4, <2>1, <3>1 DEF CompletedEffect
  <2>3. CASE cmd.step # BRINGUP_RESET
    <3>1. \/ d = dongle
          \/ d = [dongle EXCEPT !.adv = TRUE] /\ cmd.step = BRINGUP_ADV_ENABLE
      BY <2>3
    <3>2. /\ d.events = dongle.events /\ d.link = dongle.link
          /\ d \in DongleSet
          /\ cmd.step = BRINGUP_ADV_ENABLE \/ d.adv = dongle.adv
      BY <1>1, <3>1 DEF DongleSet
    <3> HIDE DEF d
    <3>3. /\ dongle'.events = Append(dongle.events, complete)
          /\ dongle'.link = dongle.link /\ dongle'.adv = d.adv
      BY <1>4, <3>2 DEF With, DongleSet
    <3> QED BY <1>1, <1>2, <1>4, <2>1, <3>2, <3>3 DEF CompletedEffect
  <2> QED BY <2>2, <2>3
<1>5. CASE /\ usb.pipe = "setup" /\ cmd.op \in {"stk", "ltk"} /\ dongle.link
           /\ dongle' = With([dongle EXCEPT !.encrypted = TRUE], changed)
           /\ central' = [central EXCEPT !.ltk = "none",
                            !.pairing = IF cmd.op = "stk" THEN "keys" ELSE @]
  <2>1. changed \in EventSet /\ changed.op = "encryption_change"
    BY EventFacts DEF Event
  <2>2. dongle'.events = Append(dongle.events, changed) /\ SameAdvertising
    BY <1>1, <1>5 DEF With, DongleSet, SameAdvertising
  <2>3. central'.ltk = "none"
    BY <1>1, <1>5 DEF CentralSet
  <2> QED BY <1>1, <1>2, <1>5, <2>1, <2>2, <2>3 DEF AnsweredEffect, Requested
<1>6. CASE /\ usb.pipe = "setup" /\ cmd.op = "negative" /\ dongle.link
           /\ central' = [central EXCEPT !.ltk = "none", !.bond = NoKey,
                            !.pairing = IF central.ltk = "stk" THEN "failed"
                                        ELSE @]
           /\ UNCHANGED dongle
  <2>1. central'.ltk = "none"
    BY <1>1, <1>6 DEF CentralSet
  <2> QED BY <1>1, <1>2, <1>6, <2>1 DEF AnsweredEffect, Requested, SameAdvertising
<1>7. CASE /\ dongle.link /\ Expected(pdu)
           /\ central' = CentralAfter(pdu) /\ dongle' = DongleAfter(pdu)
  <2>1. CASE pdu.op = "pairing_random"
    <3> DEFINE e == Event("ltk_request", NoKey)
    <3>1. central.ltk = "none" /\ central'.ltk = "stk"
      <4>1. central.pairing = "random"
        BY <1>7, <2>1 DEF Expected
      <4>2. central.ltk \in {"none", "stk", "ltk"}
        BY <1>1 DEF CentralSet
      <4>3. central'.ltk = "stk"
        BY <1>1, <1>7, <2>1 DEF CentralAfter, CentralSet
      <4> QED BY <4>1, <4>2, <4>3 DEF CentralInv
    <3>2. e \in EventSet /\ e.op = "ltk_request" /\ e.value = NoKey
      BY EventFacts DEF Event, NoKey
    <3>3. dongle'.events = Append(dongle.events, e) /\ SameAdvertising
      BY <1>1, <1>7, <2>1 DEF DongleAfter, With, DongleSet, SameAdvertising
    <3> QED BY <1>2, <1>7, <3>1, <3>2, <3>3 DEF RequestEffect
  <2>2. CASE pdu.op # "pairing_random"
    <3>1. central'.ltk = central.ltk
      BY <1>1, <1>7, <2>2 DEF Expected, CentralAfter, CentralSet
    <3>2. dongle'.events = dongle.events /\ SameAdvertising
      BY <1>1, <1>7, <2>2 DEF Expected, DongleAfter, DongleSet, SameAdvertising
    <3> QED BY <1>2, <3>1, <3>2 DEF KeptEffect
  <2> QED BY <2>1, <2>2
<1> QED BY <1>3, <1>4, <1>5, <1>6, <1>7 DEF setup_done, out_done

\* The central, the application, the faults, and stuttering.
LEMMA OtherLink ==
  ASSUME TypeInv, ResetInv,
         \/ CentralConnects \/ CentralDisconnects \/ CentralEncrypts
         \/ \E tk \in TKs : CentralPairs(tk)
         \/ \E op \in AttOps : CentralRequests(op)
         \/ Application \/ on_usb_disconnected \/ Plug \/ ble_peripheral_init
         \/ UNCHANGED vars
  PROVE  \/ KeptEffect \/ BlankEffect \/ RequestEffect
         \/ ConnectedEffect \/ DisconnectedEffect
<1>1. dongle \in DongleSet /\ central \in CentralSet /\ Idle.pipe = "none"
      /\ count \in CountSet
  BY DEF TypeInv, LinkTypes, Idle
<1>2. ASSUME UNCHANGED <<peripheralVars, usb>> PROVE CommandsKept
  BY <1>2, SameCommands DEF peripheralVars
<1>3. CASE CentralConnects
  <2> DEFINE e == Event("connection", count'.connections)
  <2>1. count'.connections = count.connections + 1 /\ e \in EventSet
        /\ e.op = "connection"
    <3>1. count'.connections = count.connections + 1
          /\ count.connections + 1 \in Nat
      BY <1>1, <1>3 DEF CentralConnects, CountSet
    <3> QED BY <3>1, EventFacts DEF Event
  <2>2. dongle'.events = Append(dongle.events, e) /\ ~dongle'.adv
    BY <1>1, <1>3 DEF CentralConnects, With, DongleSet
  <2> QED BY <1>2, <1>3, <2>1, <2>2 DEF CentralConnects, ConnectedEffect
<1>4. CASE CentralDisconnects
  <2>1. Event("disconnection", 0) \in EventSet
        /\ Event("disconnection", 0).op = "disconnection"
    BY EventFacts DEF Event
  <2>2. /\ dongle'.events = Append(dongle.events, Event("disconnection", 0))
        /\ ~dongle'.link /\ dongle'.adv = dongle.adv
    BY <1>1, <1>4 DEF CentralDisconnects, With, DongleSet
  <2> QED BY <1>2, <1>4, <2>1, <2>2 DEF CentralDisconnects, DisconnectedEffect
<1>5. CASE CentralEncrypts
  <2> DEFINE e == Event("ltk_request", central.bond)
  <2>1. e \in EventSet /\ e.op = "ltk_request"
    BY <1>1, EventFacts DEF Event, CentralSet
  <2>2. dongle'.events = Append(dongle.events, e) /\ SameAdvertising
    BY <1>1, <1>5 DEF CentralEncrypts, With, DongleSet, SameAdvertising
  <2>3. central'.ltk = "ltk"
    BY <1>1, <1>5 DEF CentralEncrypts, CentralSet
  <2> QED BY <1>2, <1>5, <2>1, <2>2, <2>3 DEF CentralEncrypts, RequestEffect
<1>6. ASSUME NEW tk \in TKs, CentralPairs(tk) PROVE KeptEffect
  <2>1. dongle'.events = dongle.events /\ SameAdvertising
        /\ central'.ltk = central.ltk
    BY <1>1, <1>6 DEF CentralPairs, DongleSet, CentralSet, SameAdvertising
  <2> QED BY <1>2, <1>6, <2>1 DEF CentralPairs, KeptEffect
<1>7. ASSUME NEW op \in AttOps, CentralRequests(op) PROVE KeptEffect
  <2>1. dongle'.events = dongle.events /\ SameAdvertising
        /\ central'.ltk = central.ltk
    BY <1>1, <1>7 DEF CentralRequests, DongleSet, CentralSet, SameAdvertising
  <2> QED BY <1>2, <1>7, <2>1 DEF CentralRequests, KeptEffect
<1>8. CASE Application
  <2>1. state' # "SEND_HCI" /\ UNCHANGED <<usb, dongle, central>>
    BY <1>8 DEF Application, send_report, ble_send_acl, stage_tx
  <2> QED BY <2>1, SameCommands DEF KeptEffect, SameAdvertising
<1>9. CASE on_usb_disconnected \/ ble_peripheral_init
  <2>1. /\ state' = "DISCONNECTED" /\ usb' = Idle
        /\ \E present : dongle' = NewDongle(present)
    BY <1>9 DEF on_usb_disconnected, ble_peripheral_init
  <2> QED BY <1>1, <2>1 DEF NewDongle, BlankEffect
<1>10. CASE Plug
  <2>1. state = "DISCONNECTED" /\ usb = Idle /\ UNCHANGED <<state, usb>>
    BY <1>10 DEF Plug, ResetInv, Starting, peripheralVars
  <2>2. dongle' = NewDongle(TRUE)
    BY <1>10 DEF Plug
  <2> QED BY <1>1, <2>1, <2>2 DEF NewDongle, BlankEffect
<1>11. CASE UNCHANGED vars
  BY <1>2, <1>11 DEF vars, KeptEffect, SameAdvertising
<1> QED BY <1>3, <1>4, <1>5, <1>6, <1>7, <1>8, <1>9, <1>10, <1>11

\* Every step is one of these.
LEMMA LinkSteps ==
  ASSUME TypeInv, StagedInv, ResetInv, CentralInv, [Next]_vars
  PROVE  LinkEffect
BY PollLink, InLink, DoneLink, OtherLink, StepCases DEF LinkEffect

-----------------------------------------------------------------------------
(* The commands and the requests for a key *)

\* The pipe of events moves on,
LEMMA RestartTail ==
  ASSUME NEW events \in Seq(EventSet), events # <<>>
  PROVE  /\ NoRestart(events) => NoRestart(Tail(events)) /\ ~Restarts(Head(events))
         /\ OneRestart(events) => OneRestart(Tail(events))
         /\ OneRestart(events) /\ Restarts(Head(events)) => NoRestart(Tail(events))
         /\ EndIsLast(events) => EndIsLast(Tail(events))
         /\ EndIsLast(events) /\ Head(events).op = "disconnection" =>
              NoLtk(Tail(events))
<1>1. ASSUME NEW i \in 1..Len(Tail(events))
      PROVE  /\ i + 1 \in 1..Len(events) /\ Tail(events)[i] = events[i + 1]
             /\ i \in Nat /\ i + 1 # 1
  BY TailIndex
<1>2. 1 \in 1..Len(events) /\ Head(events) = events[1]
      /\ Len(Tail(events)) \in Nat /\ Len(Tail(events)) + 1 = Len(events)
  <2>1. Tail(events) \in Seq(EventSet) /\ Len(Tail(events)) = Len(events) - 1
    BY HeadTailProperties
  <2>2. Len(events) \in Nat /\ Len(Tail(events)) \in Nat
    BY <2>1, LenProperties
  <2> QED BY <2>1, <2>2, TailIndex
<1>3. NoRestart(events) => NoRestart(Tail(events)) /\ ~Restarts(Head(events))
  BY <1>1, <1>2 DEF NoRestart
<1>4. ASSUME OneRestart(events) PROVE OneRestart(Tail(events))
  <2>1. SUFFICES ASSUME NEW i \in 1..Len(Tail(events)),
                        NEW j \in 1..Len(Tail(events)),
                        Restarts(Tail(events)[i]), Restarts(Tail(events)[j])
                 PROVE  i = j
    BY DEF OneRestart
  <2>2. i + 1 = j + 1 /\ i \in Nat /\ j \in Nat
    BY <1>1, <1>4, <2>1 DEF OneRestart
  <2> QED BY <2>2
<1>5. OneRestart(events) /\ Restarts(Head(events)) => NoRestart(Tail(events))
  BY <1>1, <1>2 DEF OneRestart, NoRestart
<1>6. ASSUME EndIsLast(events) PROVE EndIsLast(Tail(events))
  <2>1. SUFFICES ASSUME NEW i \in 1..Len(Tail(events)),
                        Tail(events)[i].op = "disconnection"
                 PROVE  i = Len(Tail(events))
    BY DEF EndIsLast
  <2>2. i + 1 = Len(events) /\ i \in Nat
    BY <1>1, <1>6, <2>1 DEF EndIsLast
  <2>3. PICK n \in Nat : n = Len(Tail(events))
    BY <1>2
  <2>4. n + 1 = Len(events)
    BY <1>2, <2>3
  <2>5. i = n
    BY <2>2, <2>4
  <2> QED BY <2>3, <2>5
<1>7. ASSUME EndIsLast(events), Head(events).op = "disconnection"
      PROVE  NoLtk(Tail(events))
  <2>1. Len(events) = 1
    BY <1>2, <1>7 DEF EndIsLast
  <2>2. ASSUME NEW i \in 1..Len(Tail(events)) PROVE FALSE
    BY <1>1, <2>1, <2>2
  <2> QED BY <2>2 DEF NoLtk
<1> QED BY <1>3, <1>4, <1>5, <1>6, <1>7

\* the requests for a key with it,
LEMMA LtkTail ==
  ASSUME NEW events \in Seq(EventSet), events # <<>>
  PROVE  /\ NoComplete(events) =>
              NoComplete(Tail(events)) /\ ~Completes(Head(events))
         /\ NoLtk(events) => NoLtk(Tail(events)) /\ Head(events).op # "ltk_request"
         /\ OneLtk(events) => OneLtk(Tail(events))
         /\ OneLtk(events) /\ Head(events).op = "ltk_request" => NoLtk(Tail(events))
         /\ LtkOfStk(events) =>
              /\ LtkOfStk(Tail(events))
              /\ Head(events).op = "ltk_request" => Head(events).value = NoKey
<1>1. ASSUME NEW i \in 1..Len(Tail(events))
      PROVE  /\ i + 1 \in 1..Len(events) /\ Tail(events)[i] = events[i + 1]
             /\ i \in Nat /\ i + 1 # 1
  BY TailIndex
<1>2. 1 \in 1..Len(events) /\ Head(events) = events[1]
  BY TailIndex
<1>3. NoComplete(events) => NoComplete(Tail(events)) /\ ~Completes(Head(events))
  BY <1>1, <1>2 DEF NoComplete
<1>4. NoLtk(events) => NoLtk(Tail(events)) /\ Head(events).op # "ltk_request"
  BY <1>1, <1>2 DEF NoLtk
<1>5. ASSUME OneLtk(events) PROVE OneLtk(Tail(events))
  <2>1. SUFFICES ASSUME NEW i \in 1..Len(Tail(events)),
                        NEW j \in 1..Len(Tail(events)),
                        Tail(events)[i].op = "ltk_request",
                        Tail(events)[j].op = "ltk_request"
                 PROVE  i = j
    BY DEF OneLtk
  <2>2. i + 1 = j + 1 /\ i \in Nat /\ j \in Nat
    BY <1>1, <1>5, <2>1 DEF OneLtk
  <2> QED BY <2>2
<1>6. OneLtk(events) /\ Head(events).op = "ltk_request" => NoLtk(Tail(events))
  BY <1>1, <1>2 DEF OneLtk, NoLtk
<1>7. LtkOfStk(events) =>
        /\ LtkOfStk(Tail(events))
        /\ Head(events).op = "ltk_request" => Head(events).value = NoKey
  BY <1>1, <1>2 DEF LtkOfStk
<1> QED BY <1>3, <1>4, <1>5, <1>6, <1>7

\* or takes one more.
LEMMA RestartAppend ==
  ASSUME NEW events \in Seq(EventSet), NEW e \in EventSet
  PROVE  LET more == Append(events, e)
         IN  /\ NoRestart(events) =>
                  /\ OneRestart(more) /\ EndIsLast(more)
                  /\ ~Restarts(e) => NoRestart(more)
             /\ NoComplete(events) /\ ~Completes(e) => NoComplete(more)
             /\ NoLtk(events) =>
                  /\ OneLtk(more)
                  /\ e.op # "ltk_request" => NoLtk(more)
                  /\ e.op = "ltk_request" => ~NoLtk(more)
                  /\ e.value = NoKey => LtkOfStk(more)
<1> DEFINE more == Append(events, e)
<1>1. \A i \in 1..Len(more) :
        \/ i \in 1..Len(events) /\ more[i] = events[i]
        \/ i = Len(events) + 1 /\ more[i] = e
  BY AppendIndex
<1>2. /\ Len(more) = Len(events) + 1 /\ Len(events) + 1 \in 1..Len(more)
      /\ more[Len(events) + 1] = e
  BY AppendIndex
<1> HIDE DEF more
<1>3. ASSUME NoRestart(events) PROVE OneRestart(more) /\ EndIsLast(more)
  <2>1. ASSUME NEW i \in 1..Len(more), Restarts(more[i])
        PROVE  i = Len(events) + 1
    BY <1>1, <1>3, <2>1 DEF NoRestart
  <2>2. \A i \in 1..Len(more) : more[i].op = "disconnection" => Restarts(more[i])
    BY DEF Restarts
  <2> QED BY <1>2, <2>1, <2>2 DEF OneRestart, EndIsLast
<1>4. /\ NoRestart(events) /\ ~Restarts(e) => NoRestart(more)
      /\ NoComplete(events) /\ ~Completes(e) => NoComplete(more)
      /\ NoLtk(events) /\ e.op # "ltk_request" => NoLtk(more)
      /\ e.op = "ltk_request" => ~NoLtk(more)
  BY <1>1, <1>2 DEF NoRestart, NoComplete, NoLtk
<1>5. ASSUME NoLtk(events) PROVE OneLtk(more) /\ (e.value = NoKey => LtkOfStk(more))
  <2>1. ASSUME NEW i \in 1..Len(more), more[i].op = "ltk_request"
        PROVE  i = Len(events) + 1
    BY <1>1, <1>5, <2>1 DEF NoLtk
  <2> QED BY <1>2, <2>1 DEF OneLtk, LtkOfStk
<1> QED BY <1>3, <1>4, <1>5 DEF more

\* No event is none of these.
LEMMA NoEvents ==
  /\ NoRestart(<<>>) /\ OneRestart(<<>>) /\ EndIsLast(<<>>) /\ NoComplete(<<>>)
  /\ NoLtk(<<>>) /\ <<>> \in Seq(EventSet)
BY EmptySeq DEF NoRestart, OneRestart, EndIsLast, NoComplete, NoLtk

\* An ended bring-up is one of the events that restart it.
LEMMA RestartsFacts ==
  ASSUME NEW events
  PROVE  /\ NoRestart(events) => NoComplete(events)
         /\ \A e : /\ e.op \notin {"command_complete", "disconnection"} => ~Restarts(e)
                   /\ e.op # "command_complete" => ~Completes(e)
                   /\ e.value = BRINGUP_ADV_ENABLE /\ e.op # "disconnection" =>
                        ~Restarts(e)
BY DEF NoRestart, NoComplete, Restarts, Completes

\* No command without a transfer and without a command that waits.
LEMMA NoCommand ==
  ASSUME state # "SEND_HCI", usb.pipe # "setup"
  PROVE  /\ \A op : ~Commanding(op)
         /\ ~Replying
BY DEF Commanding, Replying

\* Every step keeps BringupInv: one command of the bring-up at a time.
LEMMA BringupStep ==
  ASSUME TypeInv, BringupInv, LinkEffect
  PROVE  BringupInv'
<1> DEFINE events == dongle.events
<1>1. events \in Seq(EventSet)
  BY Types
<1>2. ASSUME CommandsKept
      PROVE  /\ Commanding("bringup")' => Commanding("bringup")
             /\ state' = "SEND_HCI" => usb'.pipe = "none"
  BY <1>2 DEF CommandsKept, BringupInv
<1>3. CASE KeptEffect
  BY <1>2, <1>3 DEF KeptEffect, SameAdvertising, BringupInv
<1>4. CASE BlankEffect
  BY <1>4, NoEvents DEF BlankEffect, BringupInv
<1>5. CASE PolledEffect
  <2>1. usb'.pipe = "none" /\ events # <<>> /\ dongle'.events = Tail(events)
        /\ SameAdvertising
    BY <1>5 DEF PolledEffect
  <2>2. OneRestart(Tail(events)) /\ EndIsLast(Tail(events))
    BY <1>1, <2>1, RestartTail DEF BringupInv
  <2>3. CASE state' = "SEND_HCI" /\ hci_pkt'.op = "bringup"
    <3>1. Restarts(Head(events))
      BY <1>5, <2>3 DEF PolledEffect, Requested
    <3>2. NoRestart(Tail(events)) /\ ~NoRestart(events)
      BY <1>1, <2>1, <3>1, RestartTail DEF BringupInv
    <3>3. ~dongle.link /\ ~dongle.adv
      BY <3>2 DEF BringupInv
    <3> QED BY <2>1, <2>2, <3>2, <3>3 DEF BringupInv, SameAdvertising
  <2>4. CASE ~(state' = "SEND_HCI" /\ hci_pkt'.op = "bringup")
    <3>1. ~Commanding("bringup")'
      BY <2>1, <2>4 DEF Commanding
    <3>2. NoRestart(events) => NoRestart(Tail(events))
      BY <1>1, <2>1, RestartTail
    <3> QED BY <2>1, <2>2, <3>1, <3>2 DEF BringupInv, SameAdvertising
  <2> QED BY <2>3, <2>4
<1>6. CASE CompletedEffect
  <2>1. PICK e \in EventSet :
          /\ e.op = "command_complete"
          /\ \/ dongle'.events = Append(<<>>, e) /\ ~dongle'.link /\ ~dongle'.adv
             \/ /\ dongle'.events = Append(events, e)
                /\ dongle'.link = dongle.link
                /\ \/ e.value = BRINGUP_ADV_ENABLE \/ ~Restarts(e)
                   \/ dongle'.adv = dongle.adv
    BY <1>6 DEF CompletedEffect
  <2>2. Commanding("bringup") /\ state # "SEND_HCI"
    BY <1>6 DEF CompletedEffect, Commanding, BringupInv
  <2>3. ~dongle.link /\ ~dongle.adv /\ NoRestart(events)
    BY <2>2 DEF BringupInv
  <2>4. ~Commanding("bringup")' /\ state' # "SEND_HCI" /\ ~dongle'.link
    BY <1>6, <2>1, <2>2, <2>3 DEF CompletedEffect, Commanding
  <2>5. OneRestart(dongle'.events) /\ EndIsLast(dongle'.events)
    BY <1>1, <2>1, <2>3, NoEvents, RestartAppend
  <2>6. dongle'.adv => NoRestart(dongle'.events)
    <3>1. ASSUME dongle'.adv PROVE ~Restarts(e) /\ dongle'.events = Append(events, e)
      BY <2>1, <2>3, <3>1, RestartsFacts
    <3> QED BY <1>1, <2>3, <3>1, RestartAppend
  <2> QED BY <2>4, <2>5, <2>6 DEF BringupInv
<1>7. CASE AnsweredEffect \/ RequestEffect
  <2>1. dongle.link /\ CommandsKept /\ SameAdvertising
    BY <1>7 DEF AnsweredEffect, RequestEffect
  <2>2. NoRestart(events) /\ ~dongle.adv
    BY <2>1 DEF BringupInv
  <2>3. \/ dongle'.events = events
        \/ \E e \in EventSet : ~Restarts(e) /\ dongle'.events = Append(events, e)
    BY <1>7, RestartsFacts DEF AnsweredEffect, RequestEffect
  <2>4. NoRestart(dongle'.events) /\ OneRestart(dongle'.events)
        /\ EndIsLast(dongle'.events)
    BY <1>1, <2>2, <2>3, RestartAppend DEF BringupInv
  <2> QED BY <1>2, <2>1, <2>4 DEF BringupInv, SameAdvertising
<1>8. CASE ConnectedEffect
  <2>1. PICK e \in EventSet :
          e.op = "connection" /\ dongle'.events = Append(events, e)
    BY <1>8 DEF ConnectedEffect
  <2>2. NoRestart(events) /\ ~dongle'.adv /\ CommandsKept /\ ~Commanding("bringup")
    BY <1>8 DEF ConnectedEffect, BringupInv
  <2>3. NoRestart(dongle'.events) /\ OneRestart(dongle'.events)
        /\ EndIsLast(dongle'.events)
    BY <1>1, <2>1, <2>2, RestartAppend, RestartsFacts
  <2> QED BY <1>2, <2>2, <2>3 DEF BringupInv
<1>9. CASE DisconnectedEffect
  <2>1. PICK e \in EventSet :
          e.op = "disconnection" /\ dongle'.events = Append(events, e)
    BY <1>9 DEF DisconnectedEffect
  <2>2. NoRestart(events) /\ ~dongle'.adv /\ CommandsKept /\ ~Commanding("bringup")
        /\ ~dongle'.link
    BY <1>9 DEF DisconnectedEffect, BringupInv
  <2>3. OneRestart(dongle'.events) /\ EndIsLast(dongle'.events)
    BY <1>1, <2>1, <2>2, RestartAppend
  <2> QED BY <1>2, <2>2, <2>3 DEF BringupInv
<1> QED BY <1>3, <1>4, <1>5, <1>6, <1>7, <1>8, <1>9 DEF LinkEffect

\* Neither side has a key to ask for.
LEMMA Silent ==
  ASSUME ~Replying', NoLtk(dongle'.events)
  PROVE  LtkInv'
<1>1. ~Commanding("negative")'
  BY DEF Replying, Requested
<1>2. OneLtk(dongle'.events) /\ LtkOfStk(dongle'.events)
  BY DEF NoLtk, OneLtk, LtkOfStk
<1> QED BY <1>1, <1>2 DEF LtkInv

\* A command that is kept.
LEMMA KeptReplying ==
  ASSUME CommandsKept
  PROVE  /\ Replying' => Replying
         /\ Commanding("bringup")' => Commanding("bringup")
         /\ Commanding("negative")' => Commanding("negative")
BY DEF CommandsKept, Replying

\* Every step keeps LtkInv: a request for a key is answered once, and that for
\* the key of a pairing with the key.
LEMMA LtkStep ==
  ASSUME TypeInv, BringupInv, LtkInv, CentralInv, LinkEffect,
         dongle.link /\ central.pairing = "stk" => smp.state = "STK_READY"
  PROVE  LtkInv'
<1> DEFINE events == dongle.events
<1>1. events \in Seq(EventSet)
  BY Types
<1>2. dongle.link => ~Begins
  BY RestartsFacts DEF BringupInv, Begins
<1>3. CASE KeptEffect
  <2>1. Begins' => Begins
    BY <1>3, KeptReplying DEF KeptEffect, SameAdvertising, Begins
  <2> QED BY <1>3, <2>1, KeptReplying DEF KeptEffect, SameAdvertising, LtkInv
<1>4. CASE BlankEffect
  <2>1. ~Replying'
    BY <1>4 DEF BlankEffect, Replying, Requested, Commanding
  <2> QED BY <1>4, <2>1, NoEvents, Silent DEF BlankEffect
<1>5. CASE PolledEffect
  <2> DEFINE e == Head(events)
  <2>1. /\ usb'.pipe = "none" /\ events # <<>> /\ dongle'.events = Tail(events)
        /\ SameAdvertising /\ central'.ltk = central.ltk
        /\ \A op : Commanding(op)' => state' = "SEND_HCI" /\ hci_pkt'.op = op
    BY <1>5 DEF PolledEffect, Commanding
  <2>2. CASE e.op # "ltk_request" /\ e.op # "disconnection" /\ state' # "SEND_HCI"
    <3>1. ~Replying' /\ ~Commanding("bringup")' /\ ~Commanding("negative")'
      BY <2>1, <2>2 DEF Replying
    <3>2. Begins' => Begins
      BY <1>1, <2>1, <3>1, LtkTail DEF Begins, SameAdvertising
    <3>3. /\ NoLtk(events) => NoLtk(Tail(events))
          /\ OneLtk(events) => OneLtk(Tail(events))
          /\ LtkOfStk(events) => LtkOfStk(Tail(events))
      BY <1>1, <2>1, LtkTail
    <3> QED BY <2>1, <3>1, <3>2, <3>3 DEF LtkInv, SameAdvertising
  <2>3. CASE Restarts(e) /\ hci_pkt'.op = "bringup"
    <3>1. ~Replying'
      BY <2>1, <2>3 DEF Replying, Requested
    <3>2. CASE e.op = "disconnection"
      <4>1. NoLtk(Tail(events))
        BY <1>1, <2>1, <3>2, RestartTail DEF BringupInv
      <4> QED BY <2>1, <3>1, <4>1, Silent
    <3>3. CASE Completes(e)
      <4>1. NoLtk(events)
        BY <1>1, <2>1, <3>3, LtkTail DEF LtkInv, Begins
      <4>2. NoLtk(Tail(events))
        BY <1>1, <2>1, <4>1, LtkTail
      <4> QED BY <2>1, <3>1, <4>2, Silent
    <3> QED BY <2>3, <3>2, <3>3 DEF Restarts
  <2>4. CASE /\ e.op = "ltk_request" /\ Requested(hci_pkt'.op)
             /\ hci_pkt'.op = "negative" =>
                  e.value # NoKey \/ smp.state # "STK_READY"
    <3>1. ~NoLtk(events) /\ (OneLtk(events) => NoLtk(Tail(events)))
      BY <1>1, <2>1, <2>4, LtkTail
    <3>2. ~Begins
      BY <3>1 DEF LtkInv
    <3>3. ~Begins'
      <4>1. ~Commanding("bringup")'
        BY <2>1, <2>4 DEF Requested
      <4>2. NoComplete(Tail(events))
        BY <1>1, <2>1, <3>2, LtkTail DEF Begins
      <4> QED BY <2>1, <3>2, <4>1, <4>2 DEF Begins, SameAdvertising
    <3>4. ASSUME dongle'.link
          PROVE  /\ NoLtk(dongle'.events) /\ central'.ltk # "none"
                 /\ central'.ltk = "stk" => ~Commanding("negative")'
      <4>1. dongle.link /\ NoLtk(Tail(events)) /\ central.ltk # "none"
        BY <2>1, <3>1, <3>4 DEF SameAdvertising, LtkInv
      <4>2. ASSUME central.ltk = "stk" PROVE ~Commanding("negative")'
        <5>1. e.value = NoKey
          BY <1>1, <2>1, <2>4, <4>1, <4>2, LtkTail DEF LtkInv
        <5>2. smp.state = "STK_READY"
          BY <4>1, <4>2 DEF CentralInv
        <5> QED BY <2>1, <2>4, <5>1, <5>2
      <4> QED BY <2>1, <4>1, <4>2
    <3>5. NoLtk(dongle'.events) =>
            OneLtk(dongle'.events) /\ LtkOfStk(dongle'.events)
      BY DEF NoLtk, OneLtk, LtkOfStk
    <3> QED BY <3>3, <3>4, <3>5 DEF LtkInv
  <2> QED BY <1>5, <2>2, <2>3, <2>4 DEF PolledEffect
<1>6. CASE CompletedEffect
  <2>1. Commanding("bringup") /\ state # "SEND_HCI"
    BY <1>6 DEF CompletedEffect, Commanding, BringupInv
  <2>2. ~Replying'
    BY <1>6, <2>1, NoCommand DEF CompletedEffect, Replying, Commanding
  <2>3. PICK e \in EventSet :
          /\ e.op = "command_complete"
          /\ \/ dongle'.events = Append(<<>>, e)
             \/ dongle'.events = Append(events, e)
    BY <1>6 DEF CompletedEffect
  <2>4. NoLtk(events)
    BY <2>1 DEF LtkInv, Begins
  <2>5. NoLtk(dongle'.events)
    BY <1>1, <2>3, <2>4, NoEvents, RestartAppend
  <2> QED BY <2>2, <2>5, Silent
<1>7. CASE AnsweredEffect
  <2>1. Replying /\ state # "SEND_HCI" /\ dongle.link
    BY <1>7 DEF AnsweredEffect, Replying, Requested, Commanding, BringupInv
  <2>2. ~Replying'
    BY <1>7, <2>1 DEF AnsweredEffect, Replying, Commanding
  <2>3. NoLtk(events)
    BY <2>1 DEF LtkInv
  <2>4. \/ dongle'.events = events
        \/ \E e \in EventSet : /\ e.op = "encryption_change"
                               /\ dongle'.events = Append(events, e)
    BY <1>7 DEF AnsweredEffect
  <2>5. NoLtk(dongle'.events)
    <3>1. CASE dongle'.events = events
      BY <2>3, <3>1
    <3>2. ASSUME NEW e \in EventSet, e.op = "encryption_change",
                 dongle'.events = Append(events, e)
          PROVE  NoLtk(dongle'.events)
      BY <1>1, <2>3, <3>2, RestartAppend
    <3> QED BY <2>4, <3>1, <3>2
  <2> QED BY <2>2, <2>5, Silent
<1>8. CASE RequestEffect
  <2>1. PICK e \in EventSet :
          /\ e.op = "ltk_request" /\ dongle'.events = Append(events, e)
          /\ central'.ltk = "stk" => e.value = NoKey
    BY <1>8 DEF RequestEffect
  <2>2. /\ dongle.link /\ central.ltk = "none" /\ central'.ltk # "none"
        /\ CommandsKept /\ SameAdvertising
    BY <1>8 DEF RequestEffect
  <2>3. NoLtk(events) /\ ~Replying /\ ~Begins
    BY <1>2, <2>2 DEF LtkInv
  <2>4. ~Replying' /\ ~Commanding("negative")'
    BY <2>2, <2>3, KeptReplying DEF Replying, Requested
  <2>5. ~Begins'
    <3>1. NoComplete(dongle'.events)
      BY <1>1, <2>1, <2>3, RestartAppend, RestartsFacts DEF Begins
    <3> QED BY <2>2, <2>3, <3>1, KeptReplying DEF Begins, SameAdvertising
  <2>6. /\ OneLtk(dongle'.events)
        /\ central'.ltk = "stk" => LtkOfStk(dongle'.events)
    BY <1>1, <2>1, <2>3, RestartAppend
  <2> QED BY <2>2, <2>4, <2>5, <2>6 DEF LtkInv
<1>9. CASE ConnectedEffect
  <2>1. NoLtk(events) /\ ~Replying /\ CommandsKept
    BY <1>9 DEF ConnectedEffect, LtkInv, Begins
  <2>2. PICK e \in EventSet :
          e.op = "connection" /\ dongle'.events = Append(events, e)
    BY <1>9 DEF ConnectedEffect
  <2>3. NoLtk(dongle'.events)
    BY <1>1, <2>1, <2>2, RestartAppend
  <2> QED BY <2>1, <2>3, KeptReplying, Silent
<1>10. CASE DisconnectedEffect
  <2>1. PICK e \in EventSet :
          e.op = "disconnection" /\ dongle'.events = Append(events, e)
    BY <1>10 DEF DisconnectedEffect
  <2>2. /\ dongle.link /\ ~dongle'.link /\ dongle'.adv = dongle.adv
        /\ CommandsKept /\ ~Begins
    BY <1>2, <1>10 DEF DisconnectedEffect
  <2>3. ~Begins'
    <3>1. NoComplete(dongle'.events)
      BY <1>1, <2>1, <2>2, RestartAppend, RestartsFacts DEF Begins
    <3> QED BY <2>2, <3>1, KeptReplying DEF Begins
  <2> QED BY <2>2, <2>3 DEF LtkInv
<1> QED BY <1>3, <1>4, <1>5, <1>6, <1>7, <1>8, <1>9, <1>10 DEF LinkEffect

-----------------------------------------------------------------------------
(* The stages of a pairing *)

\* What the security manager makes of a PDU of the pairing the central is in.
LEMMA StageAnswers ==
  ASSUME NEW s \in smp_session, NEW tk \in TKs, NEW pdu \in PduSet,
         Passkey \/ tk = "just_works", s.tk \in {"none", Method(tk)}
  PROVE  LET r == smp_handle_pdu(s, pdu)
         IN  /\ pdu.op = "pairing_request" /\ pdu.tk = tk =>
                  /\ r.pdu.op = "pairing_response" /\ r.session.tk = s.tk
                  /\ r.session.state = "AWAITING_CONFIRM"
                  /\ r.session.jw_mode <=> tk = "just_works"
             /\ /\ pdu.op = "pairing_confirm" /\ pdu.tk = tk
                /\ s.state = "AWAITING_CONFIRM" /\ (s.jw_mode <=> tk = "just_works")
                => /\ r.pdu.op = "pairing_confirm" /\ r.session.tk = Method(tk)
                   /\ r.session.state = "AWAITING_RANDOM" /\ r.session.mconfirm = tk
             /\ /\ pdu.op = "pairing_random" /\ s.state = "AWAITING_RANDOM"
                /\ s.mconfirm = tk /\ s.tk = Method(tk)
                => /\ r.session.tk = s.tk
                   /\ \/ r.pdu.op = "pairing_random" /\ r.session.state = "STK_READY"
                      \/ r.pdu.op = "pairing_failed" /\ tk = "wrong"
<1> DEFINE r == smp_handle_pdu(s, pdu)
<1>1. \A op : Plain(op).op = op
  BY DEF Plain, Pdu
<1>2. ASSUME pdu.op = "pairing_request", pdu.tk = tk
      PROVE  /\ r.pdu.op = "pairing_response" /\ r.session.tk = s.tk
             /\ r.session.state = "AWAITING_CONFIRM"
             /\ r.session.jw_mode <=> tk = "just_works"
  <2>1. r = on_pairing_request(s, pdu)
    BY <1>2 DEF smp_handle_pdu
  <2> HIDE DEF r
  <2>2. PICK jw \in BOOLEAN : jw = ~(pdu.tk # "just_works" /\ Passkey)
    OBVIOUS
  <2>3. r = Answer([s EXCEPT !.bond = NoKey, !.jw_mode = jw,
                             !.state = "AWAITING_CONFIRM"],
                   Plain("pairing_response"))
    BY <2>1, <2>2 DEF on_pairing_request
  <2>4. /\ r.pdu.op = "pairing_response" /\ r.session.tk = s.tk
        /\ r.session.state = "AWAITING_CONFIRM" /\ r.session.jw_mode = jw
    BY <1>1, <2>3 DEF Answer, smp_session
  <2> QED BY <1>2, <2>2, <2>4, PasskeyAssumption
<1>3. ASSUME pdu.op = "pairing_confirm", pdu.tk = tk,
             s.state = "AWAITING_CONFIRM", s.jw_mode <=> tk = "just_works"
      PROVE  /\ r.pdu.op = "pairing_confirm" /\ r.session.tk = Method(tk)
             /\ r.session.state = "AWAITING_RANDOM" /\ r.session.mconfirm = tk
  <2>1. r = Answer([ensure_tk_keys(s) EXCEPT !.mconfirm = tk,
                                             !.state = "AWAITING_RANDOM"],
                   Plain("pairing_confirm"))
    BY <1>3 DEF smp_handle_pdu, on_pairing_confirm
  <2> HIDE DEF r
  <2>2. ensure_tk_keys(s) \in smp_session /\ ensure_tk_keys(s).tk = Method(tk)
    BY <1>3 DEF ensure_tk_keys, smp_session, Method
  <2>3. PICK t \in smp_session : t = ensure_tk_keys(s) /\ t.tk = Method(tk)
    BY <2>2
  <2> QED BY <1>1, <2>1, <2>3 DEF Answer, smp_session
<1>4. ASSUME pdu.op = "pairing_random", s.state = "AWAITING_RANDOM",
             s.mconfirm = tk, s.tk = Method(tk)
      PROVE  /\ r.session.tk = s.tk
             /\ \/ r.pdu.op = "pairing_random" /\ r.session.state = "STK_READY"
                \/ r.pdu.op = "pairing_failed" /\ tk = "wrong"
  <2>1. r = IF tk # s.tk THEN fail([s EXCEPT !.state = "FAILED"])
            ELSE Answer([s EXCEPT !.state = "STK_READY"], Plain("pairing_random"))
    BY <1>4 DEF smp_handle_pdu, on_pairing_random
  <2> HIDE DEF r
  <2>2. CASE tk # s.tk
    <3>1. tk = "wrong"
      BY <1>4, <2>2 DEF Method, TKs
    <3>2. r.pdu.op = "pairing_failed" /\ r.session.tk = s.tk
      BY <1>1, <2>1, <2>2 DEF fail, Answer, smp_session
    <3> QED BY <3>1, <3>2
  <2>3. CASE tk = s.tk
    BY <1>1, <2>1, <2>3 DEF Answer, smp_session
  <2> QED BY <2>2, <2>3
<1> QED BY <1>2, <1>3, <1>4 DEF r

\* While the central pairs there is no encryption and no key distribution.
LEMMA PairingFacts ==
  ASSUME TypeInv, BondInv, StageInv, dongle.link,
         central.pairing \in Pairing \union {"stk"}
  PROVE  /\ NoConnection(dongle.events) /\ NoEncryption(dongle.events)
         /\ smp.phase3_index = 0 /\ ~smp_phase3_pending
<1>1. NoConnection(dongle.events)
  BY DEF StageInv, MethodInv, Pairing
<1>2. ~dongle.encrypted
  BY DEF BondInv, CentralInv
<1>3. NoEncryption(dongle.events)
  BY <1>1, <1>2 DEF BondInv, OrderInv, Current, ConnectionBehind, NoConnection,
     NoEncryption
<1>4. smp.phase3_index = 0
  BY <1>1, <1>2 DEF BondInv, OrderInv
<1> QED BY <1>1, <1>3, <1>4 DEF BondInv, KeysInv

\* Without a pairing only the cached key has to be right.
LEMMA StageApart ==
  ASSUME TurnInv',
         dongle'.link => MethodInv' /\ central'.pairing \notin Pairing \union {"stk"}
  PROVE  StageInv'
<1> SUFFICES ASSUME dongle'.link PROVE StageInv'
  BY DEF StageInv
<1>1. ~HasSmp(dongle'.acl) /\ ~AnswerStaged' /\ ~AnswerSent'
  BY DEF TurnInv
<1>2. ASSUME NEW i \in 1..Len(dongle'.acl)
      PROVE  RequestFits(dongle.acl[i])'
  <2>1. dongle'.acl[i].op \notin SmpRequests
    BY <1>1, <1>2 DEF HasSmp
  <2> QED BY <2>1 DEF RequestFits, SmpRequests
<1> QED BY <1>1, <1>2 DEF StageInv

\* A step that leaves the pairing and the session as they are.
LEMMA StageSame ==
  ASSUME StageInv, dongle.link, UNCHANGED smp,
         central'.pairing = central.pairing, central'.tk = central.tk,
         NoConnection(dongle'.events) <=> NoConnection(dongle.events),
         \A i \in 1..Len(dongle'.acl) :
           \/ dongle'.acl[i].op \notin SmpRequests
           \/ \E j \in 1..Len(dongle.acl) : dongle'.acl[i] = dongle.acl[j],
         AnswerStaged' => AnswerStaged /\ acl_tx_buf' = acl_tx_buf,
         AnswerSent' => \/ AnswerSent /\ usb'.packet = usb.packet
                        \/ AnswerStaged /\ usb'.packet = acl_tx_buf
  PROVE  StageInv'
<1>1. MethodInv'
  BY DEF StageInv, MethodInv
<1>2. ASSUME NEW pdu PROVE RequestFits(pdu) => RequestFits(pdu)'
  BY DEF RequestFits, AwaitsConfirm, AwaitsRandom
<1>3. ASSUME NEW op PROVE AnswerFits(op) => AnswerFits(op)'
  BY DEF AnswerFits, AwaitsConfirm, AwaitsRandom
<1>4. ASSUME NEW i \in 1..Len(dongle'.acl)
      PROVE  RequestFits(dongle.acl[i])'
  <2>1. PICK pdu : pdu = dongle'.acl[i]
    OBVIOUS
  <2>2. CASE pdu.op \notin SmpRequests
    BY <2>1, <2>2 DEF RequestFits, SmpRequests
  <2>3. CASE \E j \in 1..Len(dongle.acl) : pdu = dongle.acl[j]
    <3>1. RequestFits(pdu)'
      BY <1>2, <2>3 DEF StageInv
    <3> QED BY <2>1, <3>1 DEF RequestFits
  <2> QED BY <1>4, <2>1, <2>2, <2>3
<1>5. AnswerStaged' => AnswerFits(acl_tx_buf.pdu.op)'
  <2>1. PICK op : op = acl_tx_buf'.pdu.op
    OBVIOUS
  <2>2. AnswerStaged' => AnswerFits(op)'
    BY <1>3, <2>1 DEF StageInv
  <2> QED BY <2>1, <2>2 DEF AnswerFits
<1>6. AnswerSent' => AnswerFits(usb.packet.pdu.op)'
  <2>1. PICK op : op = usb'.packet.pdu.op
    OBVIOUS
  <2>2. AnswerSent' => AnswerFits(op)'
    BY <1>3, <2>1 DEF StageInv
  <2> QED BY <2>1, <2>2 DEF AnswerFits
<1>7. central'.pairing = "stk" => smp'.state = "STK_READY"
  BY DEF StageInv
<1> QED BY <1>1, <1>4, <1>5, <1>6, <1>7 DEF StageInv

\* The answers of a step that leaves the peripheral alone.
LEMMA StageQuiet ==
  ASSUME StageInv, dongle.link, SamePeripheral, SameCount,
         usb' = Idle \/ UNCHANGED usb,
         central'.pairing = central.pairing, central'.tk = central.tk,
         NoConnection(dongle'.events) <=> NoConnection(dongle.events),
         \A i \in 1..Len(dongle'.acl) :
           \/ dongle'.acl[i].op \notin SmpRequests
           \/ \E j \in 1..Len(dongle.acl) : dongle'.acl[i] = dongle.acl[j]
  PROVE  StageInv'
<1>1. UNCHANGED smp
  BY DEF SamePeripheral, SameSession
<1>2. AnswerStaged' => AnswerStaged /\ acl_tx_buf' = acl_tx_buf
  BY SameAnswers DEF SamePeripheral
<1>3. AnswerSent' => AnswerSent /\ usb'.packet = usb.packet
  BY SameAnswers, IdleNoAnswer
<1> QED BY <1>1, <1>2, <1>3, StageSame

\* An announced connection more or less.
LEMMA SameConnections ==
  ASSUME NEW events \in Seq(EventSet)
  PROVE  /\ events # <<>> /\ Head(events).op # "connection" =>
              (NoConnection(Tail(events)) <=> NoConnection(events))
         /\ \A e \in EventSet : e.op # "connection" =>
              (NoConnection(Append(events, e)) <=> NoConnection(events))
         /\ \A e \in EventSet : e.op = "connection" => ~NoConnection(Append(events, e))
<1>1. events # <<>> /\ Head(events).op # "connection" =>
        (NoConnection(Tail(events)) <=> NoConnection(events))
  BY EventsTail, EventsHead
<1>2. ASSUME NEW e \in EventSet, e.op # "connection"
      PROVE  NoConnection(Append(events, e)) <=> NoConnection(events)
  BY <1>2, AppendIndex DEF NoConnection
<1>3. ASSUME NEW e \in EventSet, e.op = "connection"
      PROVE  ~NoConnection(Append(events, e))
  BY <1>3, AppendIndex DEF NoConnection
<1> QED BY <1>1, <1>2, <1>3

\* What the peripheral does next after a packet was sent: the distribution of
\* the keys is not on while the central pairs.
LEMMA StageInternal ==
  ASSUME TypeInv, BondInv, StageInv, dongle.link, TurnInv', InternalEffect,
         SameDongle, SameCentral,
         AnswerSent' => \/ AnswerSent /\ usb'.packet = usb.packet
                        \/ AnswerStaged /\ usb'.packet = acl_tx_buf
  PROVE  StageInv'
<1>1. ~AnswerStaged'
  BY InternalNoAnswer
<1>2. smp'.tk = smp.tk
  BY DEF InternalEffect, PumpEffect
<1>3. MethodInv'
  BY <1>2 DEF StageInv, MethodInv, SameDongle, SameCentral
<1>4. CASE central.pairing \in Pairing \union {"stk"}
  <2>1. UNCHANGED smp
    BY <1>4, PairingFacts DEF InternalEffect
  <2> QED BY <1>1, <2>1, StageSame DEF SameDongle, SameCentral
<1>5. CASE central.pairing \notin Pairing \union {"stk"}
  BY <1>3, <1>5, StageApart DEF SameCentral
<1> QED BY <1>4, <1>5

\* The events keep a pairing as it is.
LEMMA StageEvent ==
  ASSUME TypeInv, BondInv, StageInv, dongle.link, TurnInv', EventStep
  PROVE  StageInv'
<1> DEFINE events == dongle.events
           e == Head(events)
<1>1. /\ events \in Seq(EventSet) /\ events # <<>> /\ dongle'.events = Tail(events)
      /\ dongle'.acl = dongle.acl /\ SameCentral /\ usb' = Idle
      /\ state # "SEND_ACL"
  BY Types DEF EventStep
<1>2. ~AnswerSent'
  BY <1>1, IdleNoAnswer
<1>3. CASE \/ e.op \in {"command_complete", "ltk_request"} /\ EventKept
           \/ e.op = "disconnection" /\ EventDisconnection
  <2>1. UNCHANGED smp /\ StagesNothing
    BY <1>3 DEF EventKept, EventDisconnection
  <2>2. ~AnswerStaged'
    BY <2>1, NoAnswerStaged
  <2>3. NoConnection(dongle'.events) <=> NoConnection(events)
    BY <1>1, <1>3, SameConnections
  <2> QED BY <1>1, <1>2, <2>1, <2>2, <2>3, StageSame DEF SameCentral
<1>4. CASE e.op = "connection" /\ EventConnection(e.value)
  <2>1. ~NoConnection(events)
    BY <1>1, <1>4, TailIndex DEF NoConnection
  <2>2. central'.pairing = "idle"
    BY <1>1, <2>1 DEF StageInv, MethodInv, SameCentral
  <2>3. smp'.tk = "none"
    BY <1>4 DEF EventConnection
  <2> QED BY <2>2, <2>3, StageApart DEF MethodInv, Pairing
<1>5. CASE e.op = "encryption_change" /\ EventEncryption
  <2>1. smp'.tk = smp.tk
    BY <1>5 DEF EventEncryption, PumpEffect
  <2>2. NoConnection(dongle'.events) <=> NoConnection(events)
    BY <1>1, <1>5, SameConnections
  <2>3. MethodInv'
    BY <1>1, <2>1, <2>2 DEF StageInv, MethodInv, SameCentral
  <2>4. ~NoEncryption(events)
    BY <1>1, <1>5, TailIndex DEF NoEncryption
  <2>5. central.pairing \notin Pairing \union {"stk"}
    BY <2>4, PairingFacts
  <2> QED BY <1>1, <2>3, <2>5, StageApart DEF SameCentral
<1> QED BY <1>3, <1>4, <1>5 DEF EventStep

\* The security manager answers the PDU of a stage with the one of the next.
LEMMA StagePacket ==
  ASSUME TypeInv, StagedInv, BondInv, StageInv, dongle.link, PacketStep
  PROVE  StageInv'
<1> DEFINE acl == dongle.acl
           pdu == Head(acl)
           r == smp_handle_pdu(smp, pdu)
<1>1. /\ acl \in Seq(PduSet) /\ acl # <<>> /\ dongle'.acl = Tail(acl)
      /\ pdu \in PduSet /\ pdu.op \in SmpRequests \union AttOps
      /\ dongle'.events = dongle.events /\ SameCentral /\ usb' = Idle
      /\ handle_acl(pdu) /\ PacketEffect(pdu.op) /\ state \in Polling
  <2>1. /\ acl \in Seq(PduSet) /\ acl # <<>> /\ state \in Polling /\ KnownOps(acl)
    BY Types DEF PacketStep, StagedInv, InPending, BondInv, PacketsInv
  <2>2. pdu \in PduSet
    BY <2>1, HeadTailProperties
  <2> QED BY <2>1, <2>2, AclTail DEF PacketStep
<1>2. ~AnswerSent'
  BY <1>1, IdleNoAnswer
<1>3. ASSUME NEW i \in 1..Len(Tail(acl))
      PROVE  i + 1 \in 1..Len(acl) /\ Tail(acl)[i] = acl[i + 1]
  BY <1>1, TailIndex
<1>4. CASE pdu.op \in AttOps
  <2>1. UNCHANGED smp
    BY <1>1, <1>4 DEF handle_acl, dispatch_att
  <2>2. ~AnswerStaged'
    BY <1>1, <1>4, NoAnswerStaged DEF PacketEffect, SmpResponses
  <2> QED BY <1>1, <1>2, <1>3, <2>1, <2>2, StageSame DEF SameCentral
<1>5. CASE pdu.op \in SmpRequests
  <2>1. HasSmp(acl) /\ ~HasSmp(Tail(acl)) /\ central.pairing \in Pairing
    BY <1>1, <1>5, AclTail DEF BondInv, TurnInv
  <2>2. RequestFits(pdu)
    BY <1>1, TailIndex DEF StageInv
  <2>3. /\ central.tk \in TKs /\ (Passkey \/ central.tk = "just_works")
        /\ smp.tk \in {"none", Method(central.tk)} /\ NoConnection(dongle.events)
    BY <2>1 DEF StageInv, MethodInv, Pairing
  <2>4. smp' = r.session /\ respond(r.pdu)
    BY <1>1, <1>5 DEF handle_acl, dispatch_smp, SmpRequests, AttOps
  <2>5. smp \in smp_session
    BY DEF TypeInv, SessionTypes
  <2>6. AnswerStaged' => acl_tx_buf'.pdu = r.pdu
    <3>1. CASE r.pdu = NoPdu
      BY <1>1, <2>4, <3>1, PollingStages, NoAnswerStaged DEF respond
    <3>2. CASE r.pdu # NoPdu
      BY <1>1, <2>4, <3>2, PollingStages DEF respond, Stages, Packet
    <3> QED BY <3>1, <3>2
  <2>7. /\ pdu.op = "pairing_request" /\ pdu.tk = central.tk =>
             /\ r.pdu.op = "pairing_response" /\ r.session.tk = smp.tk
             /\ r.session.state = "AWAITING_CONFIRM"
             /\ r.session.jw_mode <=> central.tk = "just_works"
        /\ /\ pdu.op = "pairing_confirm" /\ pdu.tk = central.tk
           /\ smp.state = "AWAITING_CONFIRM"
           /\ smp.jw_mode <=> central.tk = "just_works"
           => /\ r.pdu.op = "pairing_confirm" /\ r.session.tk = Method(central.tk)
              /\ r.session.state = "AWAITING_RANDOM"
              /\ r.session.mconfirm = central.tk
        /\ /\ pdu.op = "pairing_random" /\ smp.state = "AWAITING_RANDOM"
           /\ smp.mconfirm = central.tk /\ smp.tk = Method(central.tk)
           => /\ r.session.tk = smp.tk
              /\ \/ r.pdu.op = "pairing_random" /\ r.session.state = "STK_READY"
                 \/ r.pdu.op = "pairing_failed" /\ central.tk = "wrong"
    BY <1>1, <2>3, <2>5, StageAnswers
  <2> HIDE DEF r
  <2>8. central'.pairing = central.pairing /\ central'.tk = central.tk
    BY <1>1 DEF SameCentral
  <2>9. smp'.tk \in {"none", Method(central.tk)}
    BY <1>5, <2>2, <2>3, <2>4, <2>7 DEF RequestFits, AwaitsConfirm, AwaitsRandom,
       SmpRequests
  <2>10. ASSUME NEW op, op = r.pdu.op PROVE AnswerFits(op)'
    BY <1>5, <2>2, <2>4, <2>7, <2>8, <2>10 DEF RequestFits, AwaitsConfirm,
       AwaitsRandom, AnswerFits, SmpRequests
  <2>11. MethodInv'
    BY <1>1, <2>1, <2>3, <2>8, <2>9 DEF MethodInv, Pairing
  <2>12. ASSUME NEW i \in 1..Len(dongle'.acl)
         PROVE  RequestFits(dongle.acl[i])'
    <3>1. dongle'.acl[i].op \notin SmpRequests
      BY <1>1, <2>1, <2>12 DEF HasSmp
    <3> QED BY <3>1 DEF RequestFits, SmpRequests
  <2>13. AnswerStaged' => AnswerFits(acl_tx_buf.pdu.op)'
    BY <2>6, <2>10 DEF AnswerFits
  <2>14. central'.pairing # "stk"
    BY <2>1, <2>8 DEF Pairing
  <2> QED BY <1>2, <2>11, <2>12, <2>13, <2>14 DEF StageInv
<1> QED BY <1>1, <1>4, <1>5

\* The central takes the answer and goes on to the next stage.
LEMMA StageTaken ==
  ASSUME TypeInv, BondInv, StageInv, TurnInv', TakenStep
  PROVE  StageInv'
<1> DEFINE acl == dongle.acl
           op == usb.packet.pdu.op
<1>1. /\ SamePeripheral /\ SameCount /\ usb' = Idle /\ dongle.link
      /\ UNCHANGED smp /\ Expected(usb.packet.pdu)
      /\ central' = CentralAfter(usb.packet.pdu)
      /\ dongle' = DongleAfter(usb.packet.pdu)
      /\ dongle \in DongleSet /\ central \in CentralSet /\ acl \in Seq(PduSet)
  BY Types DEF TakenStep, SamePeripheral, SameSession, TypeInv, LinkTypes
<1>2. CASE op \in {"att_response", "encryption_info"}
  <2>1. SameDongle /\ SameCentral
    BY <1>2 DEF TakenStep
  <2> QED BY <1>1, <2>1, StageQuiet DEF SameDongle, SameCentral
<1>3. CASE op = "master_identification"
  <2>1. /\ central.pairing = "keys" /\ central'.pairing = "bonded" /\ SameDongle
        /\ central'.tk = central.tk
    BY <1>1, <1>3 DEF TakenStep, CentralAfter, CentralSet
  <2>2. MethodInv'
    BY <1>1, <2>1 DEF StageInv, MethodInv, SameDongle
  <2> QED BY <2>1, <2>2, StageApart DEF Pairing
<1>4. CASE op \in SmpResponses
  <2>1. AnswerSent
    BY <1>4 DEF TakenStep, AnswerSent, Answers
  <2>2. /\ central.pairing \in Pairing /\ ~AnswerStaged /\ ~HasSmp(acl)
        /\ AnswerFits(op)
    BY <1>1, <2>1 DEF BondInv, TurnInv, StageInv
  <2>3. ~AnswerStaged' /\ ~AnswerSent'
    BY <1>1, <2>2, SameAnswers, IdleNoAnswer
  <2>4. /\ central.tk \in TKs /\ (Passkey \/ central.tk = "just_works")
        /\ smp.tk \in {"none", Method(central.tk)} /\ NoConnection(dongle.events)
    BY <1>1, <2>2 DEF StageInv, MethodInv, Pairing
  <2>5. ASSUME NEW p \in PduSet, dongle'.acl = Append(acl, p),
               p.op \in SmpRequests => RequestFits(p)',
               NEW i \in 1..Len(dongle'.acl)
        PROVE  RequestFits(dongle.acl[i])'
    <3>1. CASE i \in 1..Len(acl)
      <4>1. dongle'.acl[i].op \notin SmpRequests
        BY <1>1, <2>2, <2>5, <3>1, AppendIndex DEF HasSmp
      <4> QED BY <4>1 DEF RequestFits, SmpRequests
    <3>2. CASE i = Len(acl) + 1
      <4>1. dongle'.acl[i] = p
        BY <1>1, <2>5, <3>2, AppendIndex
      <4> QED BY <2>5, <4>1 DEF RequestFits, SmpRequests
    <3> QED BY <1>1, <2>5, <3>1, <3>2, AppendIndex
  <2>6. CASE op = "pairing_response"
    <3>1. /\ central'.pairing = "confirm" /\ central'.tk = central.tk
          /\ dongle'.acl = Append(acl, Pdu("pairing_confirm", central.tk, NoKey))
          /\ dongle'.events = dongle.events
      BY <1>1, <2>6 DEF CentralAfter, DongleAfter, CentralSet, DongleSet
    <3>2. PICK p \in PduSet : p = Pdu("pairing_confirm", central.tk, NoKey)
      BY <2>4 DEF Pdu, PduSet, Operations, NoKey
    <3>3. p.op = "pairing_confirm" /\ p.tk = central.tk
      BY <3>2 DEF Pdu
    <3>4. AwaitsConfirm
      BY <2>2, <2>6 DEF AnswerFits
    <3>5. RequestFits(p)'
      BY <1>1, <3>1, <3>3, <3>4 DEF RequestFits, AwaitsConfirm
    <3>6. MethodInv'
      BY <1>1, <2>4, <3>1 DEF MethodInv
    <3> QED BY <2>3, <2>5, <3>1, <3>2, <3>5, <3>6 DEF StageInv
  <2>7. CASE op = "pairing_confirm"
    <3>1. /\ central'.pairing = "random" /\ central'.tk = central.tk
          /\ dongle'.acl = Append(acl, Plain("pairing_random"))
          /\ dongle'.events = dongle.events
      BY <1>1, <2>7 DEF CentralAfter, DongleAfter, CentralSet, DongleSet
    <3>2. PICK p \in PduSet : p = Plain("pairing_random")
      BY DEF Plain, Pdu, PduSet, Operations, NoKey
    <3>3. p.op = "pairing_random"
      BY <3>2 DEF Plain, Pdu
    <3>4. AwaitsRandom
      BY <2>2, <2>7 DEF AnswerFits
    <3>5. RequestFits(p)'
      BY <1>1, <3>1, <3>3, <3>4 DEF RequestFits, AwaitsRandom
    <3>6. MethodInv'
      BY <1>1, <2>4, <3>1 DEF MethodInv
    <3> QED BY <2>3, <2>5, <3>1, <3>2, <3>5, <3>6 DEF StageInv
  <2>8. CASE op = "pairing_random"
    <3>1. /\ central'.pairing = "stk" /\ central'.tk = central.tk
          /\ dongle'.acl = acl
      BY <1>1, <2>8 DEF CentralAfter, DongleAfter, With, CentralSet, DongleSet
    <3>2. NoConnection(dongle'.events)
      <4>1. PICK e \in EventSet : /\ e.op = "ltk_request"
                                  /\ dongle'.events = Append(dongle.events, e)
        BY <2>8 DEF TakenStep
      <4> QED BY <2>4, <4>1, Types, SameConnections
    <3>3. smp'.state = "STK_READY"
      BY <1>1, <2>2, <2>8 DEF AnswerFits
    <3>4. ASSUME NEW i \in 1..Len(dongle'.acl)
          PROVE  RequestFits(dongle.acl[i])'
      <4>1. dongle'.acl[i].op \notin SmpRequests
        BY <2>2, <3>1, <3>4 DEF HasSmp
      <4> QED BY <4>1 DEF RequestFits, SmpRequests
    <3>5. MethodInv'
      BY <1>1, <2>4, <3>1, <3>2 DEF MethodInv
    <3> QED BY <2>3, <3>3, <3>4, <3>5 DEF StageInv
  <2>9. CASE op = "pairing_failed"
    <3>1. central'.pairing = "failed" /\ central'.tk = central.tk /\ SameDongle
      BY <1>1, <2>9 DEF TakenStep, CentralAfter, CentralSet
    <3>2. MethodInv'
      BY <1>1, <2>4, <3>1 DEF MethodInv, SameDongle
    <3> QED BY <3>1, <3>2, StageApart DEF Pairing
  <2> QED BY <1>4, <2>6, <2>7, <2>8, <2>9 DEF SmpResponses
<1> QED BY <1>2, <1>3, <1>4 DEF TakenStep, SmpResponses

\* The central begins: a pairing after a failure is one with the same method.
LEMMA StagePairs ==
  ASSUME PairsAgain = FALSE, TypeInv, BondInv, StageInv, PairsStep
  PROVE  StageInv'
<1>1. PICK tk \in TKs : CentralPairs(tk)
  BY DEF PairsStep
<1>2. /\ SamePeripheral /\ SameCount /\ UNCHANGED usb /\ UNCHANGED smp /\ dongle.link
      /\ dongle'.events = dongle.events /\ central.pairing \in {"idle", "failed"}
      /\ central \in CentralSet /\ dongle \in DongleSet
  BY DEF PairsStep, SamePeripheral, SameSession, TypeInv, LinkTypes
<1> DEFINE p == Pdu("pairing_request", tk, NoKey)
<1>3. /\ dongle'.acl = <<p>> /\ central'.pairing = "request" /\ central'.tk = tk
      /\ Passkey \/ tk = "just_works"
      /\ central.pairing = "failed" => (tk = "just_works" <=> central.tk = "just_works")
  BY <1>1, <1>2 DEF CentralPairs, CentralSet, DongleSet
<1>4. NoConnection(dongle.events)
  BY DEF PairsStep
<1>5. smp.tk \in {"none", Method(tk)}
  <2>1. CASE central.pairing = "idle"
    BY <1>2, <1>4, <2>1 DEF StageInv, MethodInv
  <2>2. CASE central.pairing = "failed"
    BY <1>2, <1>3, <1>4, <2>2 DEF StageInv, MethodInv, Method
  <2> QED BY <1>2, <2>1, <2>2
<1>6. MethodInv'
  BY <1>2, <1>3, <1>4, <1>5 DEF MethodInv
<1>7. ~AnswerStaged' /\ ~AnswerSent'
  BY <1>2, SameAnswers DEF BondInv, TurnInv, Pairing
<1>8. ASSUME NEW i \in 1..Len(dongle'.acl) PROVE RequestFits(dongle.acl[i])'
  <2>1. dongle'.acl[i] = p
    BY <1>3, <1>8
  <2>2. p.op = "pairing_request" /\ p.tk = tk
    BY DEF Pdu
  <2> HIDE DEF p
  <2> QED BY <1>3, <2>1, <2>2 DEF RequestFits
<1> QED BY <1>3, <1>6, <1>7, <1>8 DEF StageInv

\* The dongle answers a command: the pairing is over, or it was none.
LEMMA StageCommand ==
  ASSUME TypeInv, BondInv, StageInv, dongle.link, TurnInv', CommandStep
  PROVE  StageInv'
<1>1. /\ SamePeripheral /\ SameCount /\ usb' = Idle /\ UNCHANGED smp
      /\ dongle.events \in Seq(EventSet)
  BY Types DEF CommandStep, SamePeripheral, SameSession
<1>2. CASE ~dongle'.link
  BY <1>2 DEF StageInv
<1>3. ASSUME NEW e \in EventSet, e.op = "command_complete",
             dongle'.events = Append(dongle.events, e),
             dongle'.acl = dongle.acl, SameCentral
      PROVE  StageInv'
  <2>1. NoConnection(dongle'.events) <=> NoConnection(dongle.events)
    BY <1>1, <1>3, SameConnections
  <2> QED BY <1>1, <1>3, <2>1, StageQuiet DEF SameCentral
<1>4. ASSUME central.ltk \in {"stk", "ltk"}, central'.tk = central.tk,
             \E over \in {"keys", "failed"} : central'.pairing =
               IF central.ltk = "stk" THEN over ELSE central.pairing,
             NoConnection(dongle'.events) <=> NoConnection(dongle.events)
      PROVE  StageInv'
  <2>1. \/ central.pairing = "stk" /\ central'.pairing \in {"keys", "failed"}
        \/ central.pairing = "idle" /\ central'.pairing = "idle"
    BY <1>4 DEF BondInv, CentralInv
  <2>2. MethodInv'
    BY <1>1, <1>4, <2>1 DEF StageInv, MethodInv
  <2> QED BY <2>1, <2>2, StageApart DEF Pairing
<1>5. ASSUME NEW e \in EventSet, e.op = "encryption_change",
             dongle'.events = Append(dongle.events, e),
             central.ltk \in {"stk", "ltk"}, central'.tk = central.tk,
             central'.pairing =
               IF central.ltk = "stk" THEN "keys" ELSE central.pairing
      PROVE  StageInv'
  <2>1. NoConnection(dongle'.events) <=> NoConnection(dongle.events)
    BY <1>1, <1>5, SameConnections
  <2> QED BY <1>4, <1>5, <2>1
<1>6. ASSUME central.ltk # "none", SameDongle, central'.tk = central.tk,
             central'.pairing =
               IF central.ltk = "stk" THEN "failed" ELSE central.pairing
      PROVE  StageInv'
  <2>1. central.ltk \in {"stk", "ltk"}
    BY <1>6 DEF TypeInv, LinkTypes, CentralSet
  <2> QED BY <1>4, <1>6, <2>1 DEF SameDongle
<1> QED BY <1>2, <1>3, <1>5, <1>6 DEF CommandStep, IsNew, SameLink

\* Every step keeps StageInv: the session follows the central stage by stage.
LEMMA StageStep ==
  ASSUME PairsAgain = FALSE, TypeInv, StagedInv, BondInv, StageInv, TurnInv',
         BondStep
  PROVE  StageInv'
<1> USE DEF SameDongle, SameLink, SameCentral
<1>1. CASE ~dongle'.link
  BY <1>1 DEF StageInv
<1>2. CASE ConnectStep
  <2>1. central'.pairing = "idle" /\ ~NoConnection(dongle'.events)
    BY <1>2, Types, SameConnections DEF ConnectStep, BondInv, CentralInv
  <2> QED BY <2>1, StageApart DEF MethodInv, Pairing
<1>3. CASE dongle.link /\ dongle'.link
  <2>1. CASE NothingStep
    BY <1>3, <2>1, StageQuiet DEF NothingStep
  <2>2. CASE PollStep
    <3>1. ~AnswerStaged'
      BY <2>2, NoAnswerStaged DEF PollStep
    <3>2. AnswerSent' => AnswerSent /\ usb'.packet = usb.packet
      BY <2>2 DEF PollStep, SameCount, AnswerSent, Answers
    <3> QED BY <1>3, <2>2, <3>1, <3>2, StageSame DEF PollStep, SameSession
  <2>3. CASE SendHciStep
    <3>1. ~AnswerSent'
      BY <2>3 DEF SendHciStep, AnswerSent
    <3> QED BY <1>3, <2>3, <3>1, StageInternal DEF SendHciStep
  <2>4. CASE SendAclStep
    <3>1. AnswerSent' => AnswerStaged /\ usb'.packet = acl_tx_buf
      BY <2>4, InternalNoAnswer DEF SendAclStep, SameCount, AnswerSent,
         AnswerStaged, Answers
    <3> QED BY <1>3, <2>4, <3>1, StageInternal DEF SendAclStep
  <2>5. CASE ReportStep
    <3>1. ~AnswerStaged'
      BY <2>5, NoResponse, NoAnswerStaged DEF ReportStep
    <3>2. AnswerSent' => AnswerSent /\ usb'.packet = usb.packet
      BY <2>5 DEF ReportStep, SameCount, AnswerSent, Answers
    <3> QED BY <1>3, <2>5, <3>1, <3>2, StageSame DEF ReportStep, SameSession
  <2>6. CASE EncryptsStep
    <3>1. NoConnection(dongle'.events) <=> NoConnection(dongle.events)
      BY <2>6, Types, SameConnections DEF EncryptsStep
    <3> QED BY <1>3, <2>6, <3>1, StageQuiet DEF EncryptsStep
  <2>7. CASE RequestsStep
    <3>1. \A i \in 1..Len(dongle'.acl) : dongle'.acl[i].op \notin SmpRequests
      BY <2>7 DEF RequestsStep, AttOps, SmpRequests
    <3> QED BY <1>3, <2>7, <3>1, StageQuiet DEF RequestsStep
  <2> QED BY <1>3, <2>1, <2>2, <2>3, <2>4, <2>5, <2>6, <2>7, StageEvent,
             StagePacket, StageTaken, StagePairs, StageCommand
          DEF BondStep, DisconnectStep, ConnectStep, FaultStep, IsNew
<1> QED BY <1>1, <1>2, <1>3 DEF BondStep, NothingStep, PollStep, SendHciStep,
           SendAclStep, EventStep, PacketStep, CommandStep, TakenStep, PairsStep,
           EncryptsStep, RequestsStep, ReportStep, FaultStep, DisconnectStep, IsNew

\* The invariant holds at the start,
LEMMA FailInit ==
  ASSUME Init
  PROVE  FailInv
<1>1. /\ state = "DISCONNECTED" /\ usb.pipe = "none" /\ dongle.events = <<>>
      /\ ~dongle.link /\ ~dongle.adv
  BY DEF Init, Idle, NewDongle
<1>2. \A op : ~Commanding(op)
  BY <1>1 DEF Commanding
<1> QED BY <1>1, <1>2, NoEvents DEF FailInv, BringupInv, LtkInv, StageInv, Begins

\* every step keeps it,
LEMMA FailStep ==
  ASSUME PairsAgain = FALSE, TypeInv, StagedInv, ResetInv, BondInv, FailInv,
         [Next]_vars
  PROVE  FailInv'
<1>1. BondStep /\ LinkEffect /\ TurnInv'
  BY BondSteps, LinkSteps, BondInvStep DEF BondInv
<1>2. BringupInv'
  BY <1>1, BringupStep DEF FailInv
<1>3. LtkInv'
  BY <1>1, LtkStep DEF FailInv, BondInv, StageInv
<1>4. StageInv'
  BY <1>1, StageStep DEF FailInv
<1> QED BY <1>2, <1>3, <1>4 DEF FailInv

\* and with it no step fails a pairing but for a wrong passkey.
LEMMA FailReason ==
  ASSUME TypeInv, BondInv, FailInv, BondStep,
         central'.pairing = "failed", central.pairing # "failed"
  PROVE  central.tk = "wrong"
<1>1. TakenStep \/ CommandStep
  BY DEF BondStep, NothingStep, PollStep, SendHciStep, SendAclStep, EventStep,
     PacketStep, ConnectStep, DisconnectStep, PairsStep, EncryptsStep,
     RequestsStep, ReportStep, FaultStep, SameCentral, IsUnpaired
<1>2. CASE TakenStep
  <2>1. usb.packet.pdu.op = "pairing_failed" /\ dongle.link
    BY <1>2 DEF TakenStep, SameCentral, Pairing
  <2>2. AnswerSent
    BY <1>2, <2>1 DEF TakenStep, AnswerSent, Answers, SmpResponses
  <2> QED BY <2>1, <2>2 DEF FailInv, StageInv, AnswerFits
<1>3. CASE CommandStep
  <2>1. /\ dongle.link /\ central.ltk = "stk"
        /\ usb.pipe = "setup" /\ usb.command.op = "negative"
    BY <1>3 DEF CommandStep, SameCentral, IsUnpaired
  <2> QED BY <2>1 DEF FailInv, LtkInv, Commanding
<1> QED BY <1>1, <1>2, <1>3

(* For the same centrals and applications: a pairing fails only if the user  *)
(* typed the wrong passkey.  The session follows the central stage by stage, *)
(* with the round keys of the TK of this pairing (smp_init clears those of   *)
(* the last connection), a confirm or random value never finds another       *)
(* state, and the request for the STK is answered with it                    *)
(* (handle_le_ltk_request), once, whatever connections ended before.         *)
THEOREM FailureHasReason ==
  "loop" \notin SendFrom /\ PairsAgain = FALSE => (Spec => FailsForAReason)
<1> SUFFICES ASSUME "loop" \notin SendFrom, PairsAgain = FALSE
             PROVE  Spec => FailsForAReason
  OBVIOUS
<1> DEFINE Inv == StagedInv /\ ResetInv /\ BondInv /\ FailInv
           Reason == central'.pairing = "failed" /\ central.pairing # "failed"
                       => central.tk = "wrong"
<1>1. Init => Inv
  <2>1. Init => Quiet /\ usb = Idle /\ dongle.present
    BY DEF Init, Quiet, NewDongle
  <2>2. Init => StagedInv
    BY DEF Init, StagedInv, InPending, Idle
  <2> QED BY <2>1, <2>2, BondInit, FailInit DEF ResetInv
<1>2. TypeInv /\ Inv /\ [Next]_vars => Inv'
  BY StagedStep, ResetStep, BondInvStep, FailStep
<1>3. TypeInv /\ Inv /\ [Next]_vars => Reason
  BY BondSteps, FailReason
<1>4. Spec => [][Reason]_vars
  <2> HIDE DEF Inv, Reason
  <2> QED BY TypesOK, <1>1, <1>2, <1>3, PTL DEF Spec
<1> QED BY <1>4 DEF FailsForAReason

=============================================================================
