------------------------------ MODULE MCFlash ------------------------------
(***************************************************************************)
(* Instances of Flash for TLC: four words, of which two are the magic.     *)
(***************************************************************************)
EXTENDS Flash

Bytes == {1, 255}
Magic == [i \in 0..3 |-> IF i = 1 THEN 255 ELSE 1]

\* Fresh flash, another program's data, a block of an earlier run.
FirstImages ==
  {[i \in Addr |-> 255],
   [i \in Addr |-> 1],
   [i \in Addr |-> IF i \in 0..3 THEN Magic[i] ELSE 1]}

\* Writes of one to three bytes at even and odd offsets, one of which runs past
\* the end of the block.
SomeRequests ==
  UNION {[a -> Bytes] : a \in {{5, 6}, {7}}}
    \cup {[i \in 4..7 |-> 1], [i \in 6..9 |-> 1]}
=============================================================================
