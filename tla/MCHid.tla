------------------------------- MODULE MCHid -------------------------------
(***************************************************************************)
(* Instances of Hid for TLC: the devices of the ports and their layouts.   *)
(***************************************************************************)
EXTENDS Hid

SomeKinds ==
  (0 :> {"grip", "ps3", "xbox360", "hub", "hori", "combo"}) @@
  (1 :> {"pro", "xboxone", "keyboard", "mouse", "slow", "pad", "dongle"})

\* One report of up to three groups, and two reports of up to two.
GroupNames == DOMAIN Group
GroupSeqs(n) ==
  {gs \in UNION {[1..k -> GroupNames] : k \in 1..n} : IsInjective(gs)}
OneReport == {<<[id |-> 0, groups |-> gs]>> : gs \in GroupSeqs(2)}
TwoReports ==
  {<<[id |-> 1, groups |-> <<g>>], [id |-> 2, groups |-> gs]>> :
     g \in GroupNames, gs \in GroupSeqs(2)}
Usual == <<[id |-> 0, groups |-> <<"hat", "filler", "buttons", "xy">>]>>
SomeLayouts == {Usual} \cup OneReport \cup TwoReports

\* An unusual layout is tried with a pad that is the only device there ever is.
OddPadAlone ==
  layout[1] \notin {PlainLayout, FakeLayout, Usual} => plugs = 1 /\ device[1] = "pad"
=============================================================================
