-------------------------------- MODULE Fifos --------------------------------
(***************************************************************************)
(* What the SRAM FIFO of the transmit path promises: for every channel an  *)
(* ordinary FIFO of words, independent of the others', of bounded size,    *)
(* which can only be cleared as a whole.                                   *)
(***************************************************************************)
EXTENDS Naturals, Sequences, SequencesExt

CONSTANTS
  Chans,        \* the transmit channels
  Data,         \* the words
  Size          \* words a FIFO has room for

VARIABLE q      \* per channel, the words in it

Init == q = [c \in Chans |-> <<>>]

\* What may become of the words of a channel in one cycle of the clock: the
\* oldest leaves or not, a word enters or not.
Outcomes(s) ==
  LET rest == {s} \cup (IF s = <<>> THEN {} ELSE {Tail(s)})
      more == IF Len(s) < Size THEN {<<d>> : d \in Data} ELSE {}
  IN  {r \o p : r \in rest, p \in {<<>>} \cup more}

Cycle ==
  /\ DOMAIN q' = Chans
  /\ \A c \in Chans : q'[c] \in Outcomes(q[c])

Clear == q' = [c \in Chans |-> <<>>]

Next == Cycle \/ Clear

Spec == Init /\ [][Next]_q
=============================================================================
