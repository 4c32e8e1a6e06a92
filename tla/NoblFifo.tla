------------------------------ MODULE NoblFifo ------------------------------
(***************************************************************************)
(* The FIFO between the packet router and the transmit chains              *)
(* (fpga/extramfifo/ext_fifo.v, nobl_fifo.v, nobl_if.v), clock cycle by    *)
(* clock cycle.  Both channels keep their words in one external SRAM with  *)
(* one port, each in its own half.  A small FIFO per channel holds what is *)
(* to be written, a larger one what was read.  A cycle makes at most one   *)
(* access: writes come before reads, two writers and two readers take      *)
(* turns.  What is read comes four cycles later, so reading stops while    *)
(* there is still room for what is under way.                              *)
(*                                                                         *)
(* The SRAM, and the FIFOs that Xilinx generates, are modelled from how    *)
(* this code uses them: accesses of the SRAM take effect in the order in   *)
(* which they are issued.                                                  *)
(***************************************************************************)
EXTENDS Integers, Sequences, SequencesExt

CONSTANTS
  MaxWords,     \* bound: words of the router; a word is its number
  ClearBy,      \* bound: words before a clear
  Half,         \* 2^(FIFO_DEPTH - 1): words in half of the SRAM
  InSize,       \* words in the FIFO before the SRAM
  OutSize,      \* words in the FIFO after the SRAM
  Threshold     \* its prog_full threshold

ASSUME SizesAssumption ==
  /\ Half \in Nat /\ Half > 1 /\ MaxWords \in Nat /\ ClearBy \in Nat
  /\ InSize \in Nat \ {0} /\ Threshold \in Nat \ {0} /\ OutSize \in Nat
\* 512 words and a threshold of 500 in the generated FIFO; the interface asks
\* for room for six.
ASSUME RoomAssumption == OutSize >= Threshold + 5

Chans == {0, 1}
None == -1
Full == Half - 1
Word == 0 .. MaxWords - 1
Cell == Word \cup {None}

VARIABLES
  inq,              \* the FIFOs before the SRAM
  mem,              \* the halves of the SRAM
  wr_pointer, rd_pointer,
  capacity,         \* words there is room for
  space_avail_out, data_avail_int,
  queue_wr, queue_rd,   \* whose turn it is when both channels want one
  pipe,             \* the reads under way, one stage per cycle
  outq,             \* the FIFOs after the SRAM
  almost_full,      \* their prog_full
  sent              \* history: the number of the router's next word

vars == <<inq, mem, wr_pointer, rd_pointer, capacity, space_avail_out, data_avail_int,
          queue_wr, queue_rd, pipe, outq, almost_full, sent>>

-----------------------------------------------------------------------------
(* nobl_fifo: what happens in this cycle, given which channels ask for a   *)
(* read (rs).                                                              *)

write_strobe(c) == inq[c] # <<>>
space_avail(c) ==
  /\ space_avail_out[c]
  /\ (\A k \in Chans : write_strobe(k)) => queue_wr = c
write(c) == write_strobe(c) /\ space_avail(c)
Writing == \E c \in Chans : write(c)

read(c, rs) ==
  /\ rs[c] /\ data_avail_int[c]
  /\ (\A k \in Chans : rs[k] /\ data_avail_int[k]) => queue_rd = c

\* A read that collides with a write has to wait.
fetch(c, rs) == ~Writing /\ read(c, rs)

\* The flags look one cycle ahead; in the mutant next_space does
\* not.
next_space_late(c, rs) == ~(capacity[c] = 0 \/ (read(c, rs) /\ write(c)))
next_space(c, rs) ==
  ~ \/ capacity[c] = 0
    \/ read(c, rs) /\ write(c)
    \/ capacity[c] = 1 /\ write(c)

next_data(c, rs) ==
  ~ \/ capacity[c] = Full
    \/ capacity[c] = Full - 1 /\ fetch(c, rs)

\* A pointer has FIFO_DEPTH - 1 bits besides the one that selects the half;
\* in the mutant it does not wrap.
step_on(p) == p + 1
step(p) == IF p = Half - 1 THEN 0 ELSE p + 1

Pointers(rs) ==
  /\ wr_pointer' = [c \in Chans |-> IF write(c) THEN step(wr_pointer[c]) ELSE wr_pointer[c]]
  /\ rd_pointer' = [c \in Chans |-> IF fetch(c, rs) /\ ~read(1 - c, rs)
                                      THEN step(rd_pointer[c]) ELSE rd_pointer[c]]
  /\ capacity' = [c \in Chans |-> capacity[c] - (IF write(c) THEN 1 ELSE 0)
                                              + (IF fetch(c, rs) THEN 1 ELSE 0)]
  /\ space_avail_out' = [c \in Chans |-> next_space(c, rs)]
  /\ data_avail_int' = [c \in Chans |-> next_data(c, rs)]
  /\ queue_wr' = IF Writing THEN 1 - queue_wr ELSE queue_wr
  /\ queue_rd' = IF \E c \in Chans : read(c, rs) THEN 1 - queue_rd ELSE queue_rd

-----------------------------------------------------------------------------
(* nobl_if: one access, four stages until what was read is valid.          *)

Nothing == [ch |-> None, word |-> None]

access(rs) ==
  IF \E c \in Chans : fetch(c, rs)
    THEN LET c == CHOOSE c \in Chans : fetch(c, rs)
         IN  [ch |-> c, word |-> mem[c][rd_pointer[c]]]
    ELSE Nothing

Sram(rs) ==
  /\ mem' = [c \in Chans |-> IF write(c) THEN [mem[c] EXCEPT ![wr_pointer[c]] = Head(inq[c])]
                             ELSE mem[c]]
  /\ pipe' = <<access(rs), pipe[1], pipe[2], pipe[3]>>

-----------------------------------------------------------------------------
(* ext_fifo: the FIFOs around the SRAM.                                    *)

\* What the router puts in (one channel at a time, when there is room), what
\* goes to the SRAM.
Input(put) ==
  /\ inq' = [c \in Chans |->
               LET rest == IF write(c) THEN Tail(inq[c]) ELSE inq[c]
               IN  IF put = c THEN Append(rest, sent[c]) ELSE rest]
  /\ sent' = [c \in Chans |-> IF put = c THEN sent[c] + 1 ELSE sent[c]]

\* What comes back from the SRAM, what the chains take; in the mutant the
\* channel's number is a stage ahead of the word.
arrives_early(c) == pipe[3].ch = c
arrives(c) == pipe[4].ch = c
Output(take) ==
  outq' = [c \in Chans |->
             LET rest == IF c \in take THEN Tail(outq[c]) ELSE outq[c]
             IN  IF arrives(c) THEN Append(rest, pipe[4].word) ELSE rest]

\* prog_full follows the fill level one cycle later; in the mutant it comes a
\* word late.
AlmostFull_over == almost_full' = [c \in Chans |-> Len(outq[c]) > Threshold]
AlmostFull == almost_full' = [c \in Chans |-> Len(outq[c]) >= Threshold]

\* refill_randomizer passes almost_full on at once and delays its fall by a
\* pseudo random time (as do the synchronised counters of prog_full), so a
\* channel that is not almost full may still wait.
asks(rs) == \A c \in Chans : almost_full[c] => ~rs[c]

Cycle ==
  \E put \in Chans \cup {None}, rs \in [Chans -> BOOLEAN], take \in SUBSET Chans :
    /\ put # None => Len(inq[put]) < InSize /\ sent[0] + sent[1] < MaxWords
    /\ \A c \in take : outq[c] # <<>>
    /\ asks(rs)
    /\ Pointers(rs)
    /\ Sram(rs)
    /\ Input(put)
    /\ Output(take)
    /\ AlmostFull

Init ==
  /\ inq = [c \in Chans |-> <<>>]
  /\ wr_pointer = [c \in Chans |-> 0]
  /\ rd_pointer = [c \in Chans |-> 0]
  /\ capacity = [c \in Chans |-> Full]
  /\ space_avail_out = [c \in Chans |-> TRUE]
  /\ data_avail_int = [c \in Chans |-> FALSE]
  /\ queue_wr = 0 /\ queue_rd = 0
  /\ pipe = [i \in 1 .. 4 |-> Nothing]
  /\ outq = [c \in Chans |-> <<>>]
  /\ almost_full = [c \in Chans |-> TRUE]
  /\ mem = [c \in Chans |-> [a \in 0 .. Half - 1 |-> None]]
  /\ sent = [c \in Chans |-> 0]

\* sram_clear: everything but the contents of the SRAM is reset.  The
\* firmware does it when the host is gone, at any time.
Clear ==
  /\ sent[0] + sent[1] <= ClearBy
  /\ inq' = [c \in Chans |-> <<>>]
  /\ wr_pointer' = [c \in Chans |-> 0]
  /\ rd_pointer' = [c \in Chans |-> 0]
  /\ capacity' = [c \in Chans |-> Full]
  /\ space_avail_out' = [c \in Chans |-> TRUE]
  /\ data_avail_int' = [c \in Chans |-> FALSE]
  /\ queue_wr' = 0 /\ queue_rd' = 0
  /\ pipe' = [i \in 1 .. 4 |-> Nothing]
  /\ outq' = [c \in Chans |-> <<>>]
  /\ almost_full' = [c \in Chans |-> TRUE]
  /\ UNCHANGED <<mem, sent>>

Next == Cycle \/ Clear

Spec == Init /\ [][Next]_vars

-----------------------------------------------------------------------------
(* Properties.                                                             *)

\* Types; the pointers and the free words stay within the half.
TypeOK ==
  /\ inq \in [Chans -> Seq(Word)]
  /\ mem \in [Chans -> [0 .. Half - 1 -> Cell]]
  /\ wr_pointer \in [Chans -> 0 .. Half - 1]
  /\ rd_pointer \in [Chans -> 0 .. Half - 1]
  /\ capacity \in [Chans -> 0 .. Full]
  /\ space_avail_out \in [Chans -> BOOLEAN]
  /\ data_avail_int \in [Chans -> BOOLEAN]
  /\ queue_wr \in {0, 1} /\ queue_rd \in {0, 1}
  /\ pipe \in [1 .. 4 -> [ch : Chans \cup {None}, word : Cell]]
  /\ outq \in [Chans -> Seq(Cell)]
  /\ almost_full \in [Chans -> BOOLEAN]
  /\ sent \in [Chans -> 0 .. MaxWords]

\* Words of a channel in the SRAM.
used(c) == IF wr_pointer[c] >= rd_pointer[c] THEN wr_pointer[c] - rd_pointer[c]
           ELSE wr_pointer[c] - rd_pointer[c] + Half

\* The look-ahead of the flags is right although they lag a cycle and one
\* port serves four requests: the count of free words is the distance of the
\* pointers, a channel that says it has space has, one that says it has data
\* has.  Hence no unread word is overwritten and nothing is read that was not
\* written.
CountsAgree ==
  \A c \in Chans :
    /\ capacity[c] + used(c) = Full
    /\ space_avail_out[c] => capacity[c] > 0
    /\ data_avail_int[c] => used(c) > 0

\* Reads of channel c under way.
inFlight(c) == (IF pipe[1].ch = c THEN 1 ELSE 0) + (IF pipe[2].ch = c THEN 1 ELSE 0)
             + (IF pipe[3].ch = c THEN 1 ELSE 0) + (IF pipe[4].ch = c THEN 1 ELSE 0)

\* What was asked for always finds room behind the SRAM ("this FIFO requires
\* an external signal driving read_strobe that assures space for at least 6
\* reads", nobl_fifo.v): reading goes on only as long as the level was seen to
\* be below the threshold, and no word is lost between prog_full and the reads
\* that were already under way.
OutputFits ==
  \A c \in Chans :
    /\ Len(outq[c]) + inFlight(c) <= OutSize
    /\ ~almost_full[c] => Len(outq[c]) <= Threshold

\* The words of a channel, the oldest first.
cell(a) == IF a < Half THEN a ELSE a - Half
inSram(c) == [i \in 1 .. used(c) |-> mem[c][cell(rd_pointer[c] + i - 1)]]
underWay(c) == LET w(i) == IF pipe[i].ch = c THEN <<pipe[i].word>> ELSE <<>>
               IN  w(4) \o w(3) \o w(2) \o w(1)
words == [c \in Chans |-> outq[c] \o underWay(c) \o inSram(c) \o inq[c]]

\* Whatever the channels do at the same time, each of them sees an ordinary
\* FIFO: all words in order, none lost, doubled or given to the other channel.
Plain == INSTANCE Fifos WITH q <- words, Data <- Word, Size <- OutSize + Full + InSize
ImplementsFifos == Plain!Spec

=============================================================================
