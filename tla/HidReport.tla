----------------------------- MODULE HidReport -----------------------------
(***************************************************************************)
(* check_hid_report_desc of src/usb/hid/hid.c: where a HID report keeps    *)
(* its hat, its axes and its buttons.  A report descriptor is a sequence   *)
(* of short items [tag, v]; the ones the code skips have tag "other".  The *)
(* second half says what a descriptor means, from the fields it declares   *)
(* and not from its items.                                                 *)
(***************************************************************************)
EXTENDS Naturals, SequencesExt

None == 65535
Usages == 12
Buttons == 13
Axes == 6

\* The known usages, as <<page, usage>>.
HatSwitch == <<1, 57>>
Counter == <<65280, 32>>
AxisUsage == (<<1, 48>> :> 0) @@ (<<1, 49>> :> 1) @@ (<<1, 50>> :> 2) @@ (<<1, 53>> :> 3)

-----------------------------------------------------------------------------
(* The code.                                                               *)

no_usages == [i \in 0..(Usages - 1) |-> <<0, 0>>]

\* What a report ID starts over; the globals and the type stay.
start_over(r, id) ==
  [r EXCEPT !.bits = 0, !.axis = [a \in 0..(Axes - 1) |-> None], !.hat = None,
            !.button = <<>>, !.analog = 0, !.usages = no_usages, !.index = 0,
            !.id = id]

parse_start ==
  [page |-> 0, size |-> 0, count |-> 0, usages |-> no_usages, index |-> 0,
   bits |-> 0, axis |-> [a \in 0..(Axes - 1) |-> None], hat |-> None,
   button |-> <<>>, analog |-> 0, id |-> 0, ps4 |-> FALSE, quit |-> FALSE]

\* The i-th field of an analog input takes the slot of its usage, or else the
\* next one that is free.
analog_input(r, i) ==
  LET usage == r.usages[i]
      slot == IF usage \in DOMAIN AxisUsage THEN AxisUsage[usage] ELSE r.analog
      axis == [r.axis EXCEPT ![slot] = r.bits + r.size * i]
      free == {a \in (slot + 1)..(Axes - 1) : axis[a] = None} \cup {Axes}
  IN IF r.analog = Axes THEN r
     ELSE [r EXCEPT !.axis = axis, !.analog = Min(free)]

button_input(r) ==
  LET n == Min({r.count, Buttons - Len(r.button)})
  IN [r EXCEPT !.button = @ \o [i \in 1..n |-> r.bits + i - 1]]

input_fields(r, constant) ==
  IF constant THEN r
  ELSE IF r.usages[0] = HatSwitch /\ r.size = 4 THEN [r EXCEPT !.hat = r.bits]
  ELSE IF r.usages[0] = Counter /\ r.size = 6 THEN [r EXCEPT !.ps4 = TRUE]
  ELSE IF r.size = 1 THEN button_input(r)
  ELSE FoldLeft(analog_input, r, [i \in 1..r.count |-> i - 1])

\* A mutant: a constant field is skipped with its bits.
input_item_skips(r, constant) ==
  IF constant THEN r
  ELSE [input_fields(r, constant) EXCEPT !.index = 0, !.bits = @ + r.size * r.count]

input_item(r, constant) ==
  [input_fields(r, constant) EXCEPT !.index = 0, !.bits = @ + r.size * r.count]

\* A report with a hat or a Y axis and with two buttons will do.
good_report(r) ==
  r.bits > 0 /\ (r.hat # None \/ r.axis[1] # None) /\ Len(r.button) > 1

report_id_item(r, id) ==
  IF good_report(r) THEN [r EXCEPT !.quit = TRUE] ELSE start_over(r, id)

usage_item(r, v) ==
  IF r.index = Usages THEN r
  ELSE [r EXCEPT !.usages[r.index] = <<r.page, v>>, !.index = @ + 1]

parse_item(r, item) ==
  CASE r.quit -> r
    [] ~r.quit /\ item.tag = "page" -> [r EXCEPT !.page = item.v]
    [] ~r.quit /\ item.tag = "usage" -> usage_item(r, item.v)
    [] ~r.quit /\ item.tag = "size" -> [r EXCEPT !.size = item.v]
    [] ~r.quit /\ item.tag = "count" -> [r EXCEPT !.count = item.v]
    [] ~r.quit /\ item.tag = "input" -> input_item(r, item.v % 2 = 1)
    [] ~r.quit /\ item.tag = "id" -> report_id_item(r, item.v)
    [] ~r.quit /\ item.tag = "collection" ->
         [r EXCEPT !.usages = no_usages, !.index = 0]
    [] OTHER -> r

\* The fold runs over the set of the one state the parser is in, so that TLC
\* evaluates each state once.
parse(items) ==
  CHOOSE r \in FoldLeft(LAMBDA rs, item : {parse_item(r, item) : r \in rs},
                        {parse_start}, items) : TRUE

\* What the code makes of a device no driver knows.
is_generic(r) == r.bits > 0 /\ (r.hat # None \/ {r.axis[0], r.axis[1]} \cap {None} = {})

-----------------------------------------------------------------------------
(* What a descriptor means.  A layout is a sequence of reports, each with  *)
(* its ID, 0 for none, and the groups of fields it declares in order.      *)

Group == [
  hat     |-> [page |-> 1, usages |-> <<57>>, size |-> 4, count |-> 1, constant |-> 0],
  filler  |-> [page |-> 1, usages |-> <<>>, size |-> 4, count |-> 1, constant |-> 1],
  buttons |-> [page |-> 9, usages |-> <<>>, size |-> 1, count |-> 3, constant |-> 0],
  many    |-> [page |-> 9, usages |-> <<>>, size |-> 1, count |-> 12, constant |-> 0],
  xy      |-> [page |-> 1, usages |-> <<48, 49>>, size |-> 8, count |-> 2, constant |-> 0],
  rzz     |-> [page |-> 1, usages |-> <<53, 50>>, size |-> 8, count |-> 2, constant |-> 0],
  pedals  |-> [page |-> 2, usages |-> <<196, 197>>, size |-> 16, count |-> 2, constant |-> 0],
  counter |-> [page |-> 65280, usages |-> <<32>>, size |-> 6, count |-> 1, constant |-> 0]]

Item(tag, v) == <<[tag |-> tag, v |-> v]>>
GroupItems(g) ==
  Item("page", g.page) \o FlattenSeq([i \in 1..Len(g.usages) |-> Item("usage", g.usages[i])])
    \o Item("size", g.size) \o Item("count", g.count) \o Item("input", 2 + g.constant)
ReportItems(report) ==
  (IF report.id = 0 THEN <<>> ELSE Item("id", report.id)) \o
  FlattenSeq([k \in 1..Len(report.groups) |-> GroupItems(Group[report.groups[k]])])
Items(layout) ==
  Item("collection", 1) \o FlattenSeq([k \in 1..Len(layout) |-> ReportItems(layout[k])])
    \o Item("collection", 0)

\* The bits before the k-th group, and before one that is named.
Before(groups, k) ==
  FoldLeft(LAMBDA sum, j : sum + Group[groups[j]].size * Group[groups[j]].count, 0,
           [j \in 1..(k - 1) |-> j])
Where(groups, name, field) ==
  LET ks == {k \in DOMAIN groups : groups[k] = name}
  IN IF ks = {} THEN None
     ELSE LET k == CHOOSE k \in ks : TRUE
          IN Before(groups, k) + field * Group[name].size
ButtonBits(groups) ==
  FlattenSeq([k \in DOMAIN groups |->
    IF groups[k] \in {"buttons", "many"}
    THEN [i \in 1..Group[groups[k]].count |-> Before(groups, k) + i - 1] ELSE <<>>])

\* The first report with controls to play with, or else the last one.
Playable(groups) ==
  (Where(groups, "hat", 0) # None \/ Where(groups, "xy", 1) # None)
  /\ Len(ButtonBits(groups)) > 1
Chosen(layout) ==
  LET ks == {k \in DOMAIN layout : Playable(layout[k].groups)}
  IN layout[Min(ks \cup {Len(layout)})]

Meaning(layout) ==
  LET report == Chosen(layout)  groups == report.groups
  IN [id |-> report.id, bits |-> Before(groups, Len(groups) + 1),
      hat |-> Where(groups, "hat", 0),
      axis |-> <<Where(groups, "xy", 0), Where(groups, "xy", 1),
                 Where(groups, "rzz", 1), Where(groups, "rzz", 0)>>,
      button |-> LET all == ButtonBits(groups)
                 IN SubSeq(all, 1, Min({Len(all), Buttons}))]

\* Whether the parser found what the layout means.  An axis without a usage
\* of its own may have taken a slot no other field asks for.
Finds(r, layout) ==
  LET m == Meaning(layout)
  IN /\ r.id = m.id /\ r.bits = m.bits /\ r.hat = m.hat /\ r.button = m.button
     /\ \A a \in 1..4 : m.axis[a] # None => r.axis[a - 1] = m.axis[a]
=============================================================================
