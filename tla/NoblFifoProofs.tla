--------------------------- MODULE NoblFifoProofs ---------------------------
(***************************************************************************)
(* For every size of the SRAM and of the FIFOs around it: the SRAM FIFO    *)
(* never overwrites an unread word, never reads a word that was not        *)
(* written, never reads more than the FIFO behind it has room for, and is  *)
(* to each channel what an ordinary FIFO is.                               *)
(***************************************************************************)
EXTENDS NoblFifo, SequenceTheorems, TLAPS

\* What a cycle preserves.
Inv == TypeOK /\ CountsAgree /\ OutputFits

-----------------------------------------------------------------------------
\* One port: two channels are never written in the same cycle.
LEMMA OneWriter ==
  ASSUME queue_wr \in {0, 1}, write(0), write(1)
  PROVE  FALSE
BY DEF write, space_avail, Chans

\* Nor are two channels read, whoever asks.
LEMMA OneReader ==
  ASSUME NEW rs, queue_rd \in {0, 1}, read(0, rs), read(1, rs)
  PROVE  FALSE
BY DEF read, Chans

\* A channel is read only in a cycle in which it has a word, and without a
\* write; it is written only when it has room.
LEMMA Possible ==
  ASSUME CountsAgree, NEW c \in Chans, NEW rs
  PROVE  /\ fetch(c, rs) => used(c) > 0 /\ ~write(c)
         /\ write(c) => capacity[c] > 0 /\ inq[c] # <<>>
BY DEF CountsAgree, fetch, read, write, space_avail, write_strobe, Writing

\* Because the other channel is not read, the pointer moves whenever the
\* count of free words does.
LEMMA ReadMoves ==
  ASSUME TypeOK, NEW c \in Chans, NEW rs, fetch(c, rs)
  PROVE  ~read(1 - c, rs)
<1>1. CASE c = 0
  BY <1>1, OneReader DEF fetch, TypeOK
<1>2. CASE c = 1
  BY <1>2, OneReader DEF fetch, TypeOK
<1> QED BY <1>1, <1>2 DEF Chans

-----------------------------------------------------------------------------
\* The pointers, the counts and the flags after a cycle.
LEMMA CycleCounts ==
  ASSUME Inv, NEW rs, Pointers(rs)
  PROVE  /\ wr_pointer' \in [Chans -> 0 .. Half - 1]
         /\ rd_pointer' \in [Chans -> 0 .. Half - 1]
         /\ capacity' \in [Chans -> 0 .. Full]
         /\ space_avail_out' \in [Chans -> BOOLEAN]
         /\ data_avail_int' \in [Chans -> BOOLEAN]
         /\ queue_wr' \in {0, 1} /\ queue_rd' \in {0, 1}
         /\ CountsAgree'
<1> USE SizesAssumption DEF Full
<1>1. ASSUME NEW c \in Chans
      PROVE  /\ wr_pointer[c] \in 0 .. Half - 1
             /\ rd_pointer[c] \in 0 .. Half - 1
             /\ capacity[c] \in 0 .. Half - 1
             /\ capacity[c] + used(c) = Half - 1
             /\ used(c) \in 0 .. Half - 1
  <2>1. /\ wr_pointer[c] \in 0 .. Half - 1
        /\ rd_pointer[c] \in 0 .. Half - 1
        /\ capacity[c] \in 0 .. Half - 1
    BY DEF Inv, TypeOK
  <2>2. capacity[c] + used(c) = Half - 1
    BY DEF Inv, CountsAgree
  <2>3. used(c) \in 0 .. Half - 1
    BY <2>1 DEF used
  <2> QED BY <2>1, <2>2, <2>3
<1>2. ASSUME NEW c \in Chans
      PROVE  /\ wr_pointer'[c] = IF write(c) THEN step(wr_pointer[c]) ELSE wr_pointer[c]
             /\ rd_pointer'[c] = IF fetch(c, rs) THEN step(rd_pointer[c]) ELSE rd_pointer[c]
             /\ capacity'[c] = capacity[c] - (IF write(c) THEN 1 ELSE 0)
                                           + (IF fetch(c, rs) THEN 1 ELSE 0)
             /\ space_avail_out'[c] = next_space(c, rs)
             /\ data_avail_int'[c] = next_data(c, rs)
  <2>1. fetch(c, rs) => ~read(1 - c, rs)
    BY ReadMoves DEF Inv
  <2> QED BY <1>2, <2>1 DEF Pointers
<1>3. ASSUME NEW c \in Chans
      PROVE  /\ wr_pointer'[c] \in 0 .. Half - 1
             /\ rd_pointer'[c] \in 0 .. Half - 1
             /\ capacity'[c] \in 0 .. Half - 1
             /\ capacity'[c] + used(c)' = Half - 1
             /\ space_avail_out'[c] => capacity'[c] > 0
             /\ data_avail_int'[c] => used(c)' > 0
  <2>1. /\ fetch(c, rs) => used(c) > 0 /\ ~write(c)
        /\ write(c) => capacity[c] > 0
    BY Possible DEF Inv
  <2>2. CASE write(c)
    <3>1. /\ wr_pointer'[c] = step(wr_pointer[c])
          /\ rd_pointer'[c] = rd_pointer[c]
          /\ capacity'[c] = capacity[c] - 1
          /\ ~fetch(c, rs)
      BY <1>1, <1>2, <2>1, <2>2
    <3>2. space_avail_out'[c] => capacity[c] # 1
      BY <1>2, <2>2 DEF next_space
    <3> QED BY <1>1, <2>1, <2>2, <3>1, <3>2 DEF used, step
  <2>3. CASE fetch(c, rs)
    <3>1. /\ wr_pointer'[c] = wr_pointer[c]
          /\ rd_pointer'[c] = step(rd_pointer[c])
          /\ capacity'[c] = capacity[c] + 1
      BY <1>1, <1>2, <2>1, <2>3
    <3>2. data_avail_int'[c] => capacity[c] # Half - 1 /\ capacity[c] # Half - 2
      <4>1. next_data(c, rs) => capacity[c] # Half - 1 /\ capacity[c] # Half - 1 - 1
        BY <2>3 DEF next_data
      <4>2. Half - 1 - 1 = Half - 2
        OBVIOUS
      <4> QED BY <1>2, <4>1, <4>2
    <3> QED BY <1>1, <2>1, <2>3, <3>1, <3>2 DEF used, step
  <2>4. CASE ~write(c) /\ ~fetch(c, rs)
    <3>1. /\ wr_pointer'[c] = wr_pointer[c]
          /\ rd_pointer'[c] = rd_pointer[c]
          /\ capacity'[c] = capacity[c]
      BY <1>1, <1>2, <2>4
    <3>2. /\ space_avail_out'[c] => capacity[c] # 0
          /\ data_avail_int'[c] => capacity[c] # Half - 1
      BY <1>2 DEF next_space, next_data
    <3> QED BY <1>1, <3>1, <3>2 DEF used
  <2> QED BY <2>2, <2>3, <2>4
<1>4. /\ wr_pointer' \in [Chans -> 0 .. Half - 1]
      /\ rd_pointer' \in [Chans -> 0 .. Half - 1]
      /\ capacity' \in [Chans -> 0 .. Full]
  BY <1>3 DEF Pointers
<1>5. /\ space_avail_out' \in [Chans -> BOOLEAN]
      /\ data_avail_int' \in [Chans -> BOOLEAN]
  BY DEF Pointers, next_space, next_data
<1>6. queue_wr' \in {0, 1} /\ queue_rd' \in {0, 1}
  <2>1. queue_wr \in {0, 1} /\ queue_rd \in {0, 1}
    BY DEF Inv, TypeOK
  <2>2. queue_wr' \in {queue_wr, 1 - queue_wr} /\ queue_rd' \in {queue_rd, 1 - queue_rd}
    BY Zenon DEF Pointers
  <2> QED BY <2>1, <2>2
<1>7. CountsAgree'
  BY <1>3 DEF CountsAgree
<1> QED BY <1>4, <1>5, <1>6, <1>7

-----------------------------------------------------------------------------
\* The FIFOs, the SRAM and the reads under way keep their types.
LEMMA CycleTypes ==
  ASSUME Inv, NEW rs, NEW put \in Chans \cup {None}, NEW take \in SUBSET Chans,
         put # None => sent[put] < MaxWords /\ sent[put] \in Nat,
         \A c \in take : outq[c] # <<>>,
         Sram(rs), Input(put), Output(take)
  PROVE  /\ inq' \in [Chans -> Seq(Word)]
         /\ mem' \in [Chans -> [0 .. Half - 1 -> Cell]]
         /\ pipe' \in [1 .. 4 -> [ch : Chans \cup {None}, word : Cell]]
         /\ outq' \in [Chans -> Seq(Cell)]
         /\ sent' \in [Chans -> 0 .. MaxWords]
<1> USE SizesAssumption DEF Inv, TypeOK
<1>1. ASSUME NEW c \in Chans
      PROVE  /\ inq[c] \in Seq(Word) /\ outq[c] \in Seq(Cell)
             /\ rd_pointer[c] \in 0 .. Half - 1 /\ sent[c] \in 0 .. MaxWords
             /\ mem[c] \in [0 .. Half - 1 -> Cell]
  OBVIOUS
<1>2. \A c \in Chans : write(c) => inq[c] # <<>>
  BY Possible
<1>3. inq' \in [Chans -> Seq(Word)]
  <2>1. ASSUME NEW c \in Chans, put = c
        PROVE  sent[c] \in Word
    <3>1. c # None
      BY DEF Chans, None
    <3> QED BY <2>1, <3>1, <1>1 DEF Word
  <2>2. ASSUME NEW c \in Chans
        PROVE  (IF write(c) THEN Tail(inq[c]) ELSE inq[c]) \in Seq(Word)
    BY <1>1, <1>2
  <2>3. ASSUME NEW c \in Chans
        PROVE  (LET rest == IF write(c) THEN Tail(inq[c]) ELSE inq[c]
                IN  IF put = c THEN Append(rest, sent[c]) ELSE rest) \in Seq(Word)
    BY <2>1, <2>2
  <2> QED BY <2>3 DEF Input
<1>4. mem' \in [Chans -> [0 .. Half - 1 -> Cell]]
  <2>1. ASSUME NEW c \in Chans, write(c)
        PROVE  [mem[c] EXCEPT ![wr_pointer[c]] = Head(inq[c])] \in [0 .. Half - 1 -> Cell]
    <3>1. Head(inq[c]) \in Cell
      BY <2>1, <1>1, <1>2 DEF Cell
    <3> QED BY <1>1, <3>1
  <2> QED BY <1>1, <2>1 DEF Sram
<1>5. access(rs) \in [ch : Chans \cup {None}, word : Cell]
  <2>1. CASE \E c \in Chans : fetch(c, rs)
    <3>1. PICK c \in Chans : c = CHOOSE k \in Chans : fetch(k, rs)
      BY <2>1
    <3>2. access(rs) = [ch |-> c, word |-> mem[c][rd_pointer[c]]]
      BY <2>1, <3>1 DEF access
    <3> QED BY <1>1, <3>2
  <2>2. CASE ~ \E c \in Chans : fetch(c, rs)
    BY <2>2 DEF access, Nothing, Cell
  <2> QED BY <2>1, <2>2
<1>6. pipe' \in [1 .. 4 -> [ch : Chans \cup {None}, word : Cell]]
  <2>1. /\ pipe[1] \in [ch : Chans \cup {None}, word : Cell]
        /\ pipe[2] \in [ch : Chans \cup {None}, word : Cell]
        /\ pipe[3] \in [ch : Chans \cup {None}, word : Cell]
    OBVIOUS
  <2>2. pipe' = <<access(rs), pipe[1], pipe[2], pipe[3]>>
    BY DEF Sram
  <2> HIDE DEF Inv, TypeOK
  <2> QED BY <1>5, <2>1, <2>2
<1>7. outq' \in [Chans -> Seq(Cell)]
  <2>1. pipe[4].word \in Cell
    OBVIOUS
  <2>2. ASSUME NEW c \in Chans
        PROVE  (IF c \in take THEN Tail(outq[c]) ELSE outq[c]) \in Seq(Cell)
    BY <1>1
  <2>3. ASSUME NEW c \in Chans
        PROVE  (LET rest == IF c \in take THEN Tail(outq[c]) ELSE outq[c]
                IN  IF arrives(c) THEN Append(rest, pipe[4].word) ELSE rest) \in Seq(Cell)
    BY <2>1, <2>2
  <2> QED BY <2>3 DEF Output
<1>8. sent' \in [Chans -> 0 .. MaxWords]
  <2>1. ASSUME NEW c \in Chans
        PROVE  (IF put = c THEN sent[c] + 1 ELSE sent[c]) \in 0 .. MaxWords
    <3>1. CASE put = c
      <4>1. c # None
        BY DEF Chans, None
      <4>2. sent[c] < MaxWords /\ sent[c] \in Nat
        BY <3>1, <4>1
      <4> HIDE DEF Inv, TypeOK
      <4> QED BY <3>1, <4>2
    <3>2. CASE put # c
      BY <3>2, <1>1
    <3> QED BY <3>1, <3>2
  <2> QED BY <2>1 DEF Input
<1> QED BY <1>3, <1>4, <1>6, <1>7, <1>8

\* A cycle in which reading is stopped adds nothing to what is behind the SRAM
\* and under way; another one adds at most a word.
LEMMA CycleFits ==
  ASSUME Inv, NEW rs, asks(rs), NEW take \in SUBSET Chans,
         \A c \in take : outq[c] # <<>>,
         Sram(rs), Output(take), AlmostFull
  PROVE  OutputFits'
<1> USE SizesAssumption, RoomAssumption
<1>1. SUFFICES ASSUME NEW c \in Chans
               PROVE  /\ Len(outq'[c]) + inFlight(c)' <= OutSize
                      /\ ~almost_full'[c] => Len(outq'[c]) <= Threshold
  BY DEF OutputFits
<1> DEFINE n == Len(outq[c])
           stage(i) == IF pipe[i].ch = c THEN 1 ELSE 0
           new == IF access(rs).ch = c THEN 1 ELSE 0
<1>2. /\ outq[c] \in Seq(Cell) /\ n \in Nat
      /\ n + inFlight(c) <= OutSize
      /\ ~almost_full[c] => n <= Threshold
      /\ almost_full[c] \in BOOLEAN
  BY DEF Inv, TypeOK, OutputFits
<1>3. Len(outq'[c]) \in Nat /\ Len(outq'[c]) <= n + stage(4)
  <2>1. c \in take => outq[c] # <<>>
    OBVIOUS
  <2>2. pipe[4].word \in Cell
    BY DEF Inv, TypeOK
  <2>3. outq'[c] = LET rest == IF c \in take THEN Tail(outq[c]) ELSE outq[c]
                   IN  IF pipe[4].ch = c THEN Append(rest, pipe[4].word) ELSE rest
    BY DEF Output, arrives
  <2>4. PICK rest : /\ rest = (IF c \in take THEN Tail(outq[c]) ELSE outq[c])
                    /\ outq'[c] = IF pipe[4].ch = c THEN Append(rest, pipe[4].word) ELSE rest
    BY <2>3
  <2>5. rest \in Seq(Cell) /\ Len(rest) \in Nat /\ Len(rest) <= n
    BY <1>2, <2>1, <2>4
  <2>6. CASE pipe[4].ch = c
    <3>1. outq'[c] = Append(rest, pipe[4].word)
      BY <2>4, <2>6
    <3>2. Len(Append(rest, pipe[4].word)) = Len(rest) + 1
      BY <2>2, <2>5
    <3> QED BY <1>2, <2>5, <2>6, <3>1, <3>2
  <2>7. CASE pipe[4].ch # c
    BY <1>2, <2>4, <2>5, <2>7
  <2> QED BY <2>6, <2>7
<1>4. inFlight(c)' = new + stage(1) + stage(2) + stage(3)
  BY DEF inFlight, Sram
<1>5. almost_full[c] => new = 0
  <2>1. SUFFICES ASSUME almost_full[c], access(rs).ch = c
                 PROVE  FALSE
    OBVIOUS
  <2>2. ~rs[c]
    BY <2>1 DEF asks
  <2>3. c # None
    BY DEF Chans, None
  <2>4. PICK k \in Chans : fetch(k, rs) /\ access(rs).ch = k
    <3>1. \E k \in Chans : fetch(k, rs)
      BY <2>1, <2>3 DEF access, Nothing
    <3> QED BY <3>1 DEF access
  <2> QED BY <2>1, <2>2, <2>4 DEF fetch, read
<1>6. ~almost_full'[c] => n < Threshold
  <2>1. almost_full'[c] <=> n >= Threshold
    BY DEF AlmostFull
  <2> QED BY <1>2, <2>1
<1>7. inFlight(c) = stage(1) + stage(2) + stage(3) + stage(4)
  BY DEF inFlight
<1>n. /\ new \in {0, 1}
      /\ stage(1) \in {0, 1} /\ stage(2) \in {0, 1} /\ stage(3) \in {0, 1} /\ stage(4) \in {0, 1}
  OBVIOUS
<1> HIDE DEF n, stage, new
<1>8. Len(outq'[c]) + inFlight(c)' <= OutSize
  <2>1. CASE almost_full[c]
    BY <2>1, <1>2, <1>3, <1>4, <1>5, <1>7, <1>n
  <2>2. CASE ~almost_full[c]
    BY <2>2, <1>2, <1>3, <1>4, <1>7, <1>n
  <2> QED BY <2>1, <2>2
<1>9. ~almost_full'[c] => Len(outq'[c]) <= Threshold
  BY <1>2, <1>3, <1>6, <1>n
<1> QED BY <1>8, <1>9

-----------------------------------------------------------------------------
\* The registers after a reset satisfy the invariant.
LEMMA InitInv == Init => Inv
<1> SUFFICES ASSUME Init PROVE Inv
  OBVIOUS
<1> USE SizesAssumption, RoomAssumption DEF Init, Full
<1>1. TypeOK
  BY DEF TypeOK, Nothing, Cell
<1>2. CountsAgree
  BY DEF CountsAgree, used, Chans
<1>3. OutputFits
  BY DEF OutputFits, inFlight, Nothing, Chans, None
<1> QED BY <1>1, <1>2, <1>3 DEF Inv

\* Every step preserves it.
LEMMA NextInv == Inv /\ [Next]_vars => Inv'
<1> SUFFICES ASSUME Inv, [Next]_vars PROVE Inv'
  OBVIOUS
<1>1. CASE Cycle
  <2>1. PICK put \in Chans \cup {None}, rs \in [Chans -> BOOLEAN], take \in SUBSET Chans :
          /\ put # None => Len(inq[put]) < InSize /\ sent[0] + sent[1] < MaxWords
          /\ \A c \in take : outq[c] # <<>>
          /\ asks(rs)
          /\ Pointers(rs)
          /\ Sram(rs)
          /\ Input(put)
          /\ Output(take)
          /\ AlmostFull
    BY <1>1 DEF Cycle
  <2>2. put # None => sent[put] < MaxWords /\ sent[put] \in Nat
    <3>1. sent[0] \in 0 .. MaxWords /\ sent[1] \in 0 .. MaxWords
      BY DEF Inv, TypeOK, Chans
    <3>2. put # None => put = 0 \/ put = 1
      BY DEF Chans
    <3> QED BY <2>1, <3>1, <3>2, SizesAssumption
  <2>3. TypeOK'
    <3>1. almost_full' \in [Chans -> BOOLEAN]
      BY <2>1 DEF AlmostFull
    <3> QED BY <2>1, <2>2, <3>1, CycleCounts, CycleTypes DEF TypeOK
  <2>4. CountsAgree'
    BY <2>1, CycleCounts
  <2>5. OutputFits'
    BY <2>1, CycleFits
  <2> QED BY <2>3, <2>4, <2>5 DEF Inv
<1>2. CASE Clear
  <2> USE <1>2, SizesAssumption, RoomAssumption DEF Clear, Full
  <2>1. TypeOK'
    <3>1. /\ inq' \in [Chans -> Seq(Word)]
          /\ outq' \in [Chans -> Seq(Cell)]
          /\ pipe' \in [1 .. 4 -> [ch : Chans \cup {None}, word : Cell]]
      BY DEF Nothing, Cell
    <3>2. /\ mem' \in [Chans -> [0 .. Half - 1 -> Cell]]
          /\ sent' \in [Chans -> 0 .. MaxWords]
      BY DEF Inv, TypeOK
    <3>3. /\ wr_pointer' \in [Chans -> 0 .. Half - 1]
          /\ rd_pointer' \in [Chans -> 0 .. Half - 1]
          /\ capacity' \in [Chans -> 0 .. Full]
          /\ queue_wr' \in {0, 1} /\ queue_rd' \in {0, 1}
      OBVIOUS
    <3>4. /\ space_avail_out' \in [Chans -> BOOLEAN]
          /\ data_avail_int' \in [Chans -> BOOLEAN]
          /\ almost_full' \in [Chans -> BOOLEAN]
      OBVIOUS
    <3> QED BY <3>1, <3>2, <3>3, <3>4 DEF TypeOK
  <2>2. CountsAgree'
    BY DEF CountsAgree, used, Chans
  <2>3. OutputFits'
    BY DEF OutputFits, inFlight, Nothing, Chans, None
  <2> QED BY <2>1, <2>2, <2>3 DEF Inv
<1>3. CASE UNCHANGED vars
  BY <1>3 DEF vars, Inv, TypeOK, CountsAgree, used, OutputFits, inFlight
<1> QED BY <1>1, <1>2, <1>3 DEF Next

\* The SRAM FIFO (nobl_fifo.v) with any depth: the registers keep their types
\* and the pointers stay in their half.
THEOREM NoblTypeCorrect == Spec => []TypeOK
<1>1. Inv => TypeOK
  BY DEF Inv
<1> QED BY <1>1, InitInv, NextInv, PTL DEF Spec

\* With any depth, the look-ahead of space_avail and data_avail_int is right:
\* no unread word is overwritten, no word is read that was not written.
THEOREM NoblCounts == Spec => []CountsAgree
<1>1. Inv => CountsAgree
  BY DEF Inv
<1> QED BY <1>1, InitInv, NextInv, PTL DEF Spec

\* With any threshold that leaves room for five words, the reads under way
\* when prog_full rises (ext_fifo.v) still find room.
THEOREM NoblOutputFits == Spec => []OutputFits
<1>1. Inv => OutputFits
  BY DEF Inv
<1> QED BY <1>1, InitInv, NextInv, PTL DEF Spec

-----------------------------------------------------------------------------
(* The refinement.  In a cycle a channel's words move on by one stage each: *)
(* what leaves one stage enters the next.                                   *)

\* Concatenation of sequences of words, folded so that only its laws are used.
cat(s, t) == s \o t
Words == Seq(Cell)

\* Words stay words, and lengths add up.
LEMMA CatWords ==
  ASSUME NEW s \in Words, NEW t \in Words
  PROVE  cat(s, t) \in Words /\ Len(cat(s, t)) = Len(s) + Len(t)
BY ConcatProperties DEF cat, Words

\* Brackets may be moved.
LEMMA CatAssociative ==
  ASSUME NEW s \in Words, NEW t \in Words, NEW u \in Words
  PROVE  cat(cat(s, t), u) = cat(s, cat(t, u))
BY ConcatAssociative DEF cat, Words

\* Nothing added changes nothing.
LEMMA CatEmpty ==
  ASSUME NEW s \in Words
  PROVE  cat(s, <<>>) = s /\ cat(<<>>, s) = s
BY ConcatEmptySeq DEF cat, Words

\* The oldest word leaves a concatenation through its first part.
LEMMA CatTail ==
  ASSUME NEW s \in Words, NEW t \in Words, s # <<>>
  PROVE  cat(s, t) # <<>> /\ Tail(cat(s, t)) = cat(Tail(s), t)
<1> USE DEF cat, Words
<1>1. s \o t # <<>> /\ s \o t \in Words /\ Tail(s) \in Words /\ Tail(s \o t) \in Words
      /\ Tail(s) \o t \in Words
  BY ConcatEqualIffEmpty, ConcatProperties, HeadTailProperties
<1>2. /\ Len(s) \in Nat \ {0} /\ Len(t) \in Nat
      /\ Len(s \o t) = Len(s) + Len(t)
      /\ Len(Tail(s)) = Len(s) - 1
      /\ Len(Tail(s \o t)) = Len(s) + Len(t) - 1
      /\ Len(Tail(s) \o t) = Len(s) - 1 + Len(t)
  BY <1>1, EmptySeq, LenProperties, ConcatProperties, HeadTailProperties
<1>3. ASSUME NEW k \in 1 .. Len(Tail(s \o t))
      PROVE  Tail(s \o t)[k] = (Tail(s) \o t)[k]
  <2>1. Tail(s \o t)[k] = (s \o t)[k + 1]
    BY <1>1, HeadTailProperties
  <2>2. (s \o t)[k + 1] = IF k + 1 <= Len(s) THEN s[k + 1] ELSE t[k + 1 - Len(s)]
    BY <1>2, ConcatProperties
  <2>3. (Tail(s) \o t)[k] = IF k <= Len(s) - 1 THEN Tail(s)[k] ELSE t[k - (Len(s) - 1)]
    BY <1>1, <1>2, ConcatProperties
  <2>4. k <= Len(s) - 1 => Tail(s)[k] = s[k + 1]
    BY <1>2, HeadTailProperties
  <2> QED BY <1>2, <2>1, <2>2, <2>3, <2>4
<1>4. Tail(s \o t) = Tail(s) \o t
  BY <1>1, <1>2, <1>3, SeqEqual
<1> QED BY <1>1, <1>4

\* At most one word.
one(b, x) == IF b THEN <<x>> ELSE <<>>

\* A word leaves a FIFO at its head.
LEMMA LeavesAtHead ==
  ASSUME NEW s \in Words, NEW b \in BOOLEAN, b => s # <<>>
  PROVE  /\ (IF b THEN Tail(s) ELSE s) \in Words
         /\ one(b, Head(s)) \in Words
         /\ s = cat(one(b, Head(s)), IF b THEN Tail(s) ELSE s)
<1> USE DEF cat, Words
<1>1. CASE b
  <2>1. Head(s) \in Cell /\ Tail(s) \in Words /\ Len(Tail(s)) = Len(s) - 1
        /\ Len(s) \in Nat \ {0}
        /\ \A i \in 1 .. Len(Tail(s)) : Tail(s)[i] = s[i + 1]
    BY <1>1, HeadTailProperties, EmptySeq
  <2>2. <<Head(s)>> \in Words /\ Len(<<Head(s)>>) = 1 /\ <<Head(s)>>[1] = s[1]
    BY <1>1, <2>1
  <2>3. /\ <<Head(s)>> \o Tail(s) \in Words
        /\ Len(<<Head(s)>> \o Tail(s)) = Len(s)
        /\ \A i \in 1 .. Len(s) : (<<Head(s)>> \o Tail(s))[i] = s[i]
    BY <2>1, <2>2, ConcatProperties
  <2>4. s = <<Head(s)>> \o Tail(s)
    BY <2>3, SeqEqual
  <2> QED BY <1>1, <2>1, <2>2, <2>4 DEF one
<1>2. CASE ~b
  BY <1>2, ConcatEmptySeq, EmptySeq DEF one
<1> QED BY <1>1, <1>2

\* A word enters a FIFO at its end.
LEMMA EntersAtEnd ==
  ASSUME NEW s \in Words, NEW b \in BOOLEAN, NEW x, b => x \in Cell
  PROVE  /\ one(b, x) \in Words
         /\ (IF b THEN Append(s, x) ELSE s) = cat(s, one(b, x))
<1> USE DEF cat, Words
<1>1. CASE b
  BY <1>1 DEF one
<1>2. CASE ~b
  BY <1>2, ConcatEmptySeq, EmptySeq DEF one
<1> QED BY <1>1, <1>2

\* Moving a border: what leaves one sequence enters the one before it.
LEMMA Regroup ==
  ASSUME NEW s \in Words, NEW t \in Words, NEW u \in Words, NEW v \in Words
  PROVE  cat(cat(s, t), cat(u, v)) = cat(cat(s, cat(t, u)), v)
<1>1. cat(s, t) \in Words
  BY CatWords
<1>2. cat(cat(s, t), cat(u, v)) = cat(cat(cat(s, t), u), v)
  BY <1>1, CatAssociative
<1>3. cat(cat(s, t), u) = cat(s, cat(t, u))
  BY CatAssociative
<1> QED BY <1>2, <1>3

-----------------------------------------------------------------------------
\* What is read from the SRAM, and what is written to it, in this cycle.
Fetched(c, rs) == one(fetch(c, rs), mem[c][rd_pointer[c]])
Written(c) == one(write(c), Head(inq[c]))
Arrived(c) == one(arrives(c), pipe[4].word)

\* The words between the pointers of one half of the SRAM.
distance(w, r) == IF w >= r THEN w - r ELSE w - r + Half
ring(m, r, n) == [i \in 1 .. n |-> m[cell(r + i - 1)]]

\* They are as many as the pointers are apart.
LEMMA RingWords ==
  ASSUME NEW w \in 0 .. Half - 1, NEW r \in 0 .. Half - 1, NEW m \in [0 .. Half - 1 -> Cell]
  PROVE  /\ distance(w, r) \in Nat /\ distance(w, r) < Half
         /\ ring(m, r, distance(w, r)) \in Words
         /\ Len(ring(m, r, distance(w, r))) = distance(w, r)
<1> USE SizesAssumption
<1> DEFINE n == distance(w, r)
           s == ring(m, r, n)
<1>1. n \in Nat /\ n < Half
  BY DEF distance
<1> HIDE DEF n, Cell
<1>2. \A i \in 1 .. n : cell(r + i - 1) \in 0 .. Half - 1
  BY <1>1 DEF cell
<1>3. s \in [1 .. n -> Cell]
  BY <1>2 DEF ring
<1> HIDE DEF s
<1>4. s \in Seq(Cell) /\ Len(s) = n
  BY <1>1, <1>3
<1> QED BY <1>1, <1>4 DEF s, n, Words

\* The words in the SRAM move on: the oldest is read, a new one is written.
LEMMA SramMoves ==
  ASSUME Inv, NEW c \in Chans, NEW rs, Pointers(rs), Sram(rs), TypeOK'
  PROVE  \E m \in Words : /\ inSram(c) = cat(Fetched(c, rs), m)
                           /\ inSram(c)' = cat(m, Written(c))
<1> USE SizesAssumption
<1>1. /\ wr_pointer[c] \in 0 .. Half - 1 /\ rd_pointer[c] \in 0 .. Half - 1
      /\ mem[c] \in [0 .. Half - 1 -> Cell]
  BY DEF Inv, TypeOK
<1>2. /\ inSram(c) \in Words /\ Len(inSram(c)) = used(c)
      /\ inSram(c)' \in Words /\ Len(inSram(c)') = used(c)'
      /\ used(c) \in Nat /\ used(c)' \in Nat /\ used(c) < Half
  <2>1. /\ wr_pointer'[c] \in 0 .. Half - 1 /\ rd_pointer'[c] \in 0 .. Half - 1
        /\ mem'[c] \in [0 .. Half - 1 -> Cell]
    BY DEF TypeOK
  <2>2. /\ inSram(c) = ring(mem[c], rd_pointer[c], distance(wr_pointer[c], rd_pointer[c]))
        /\ used(c) = distance(wr_pointer[c], rd_pointer[c])
    BY DEF inSram, used, ring, distance
  <2>3. /\ inSram(c)' = ring(mem'[c], rd_pointer'[c], distance(wr_pointer'[c], rd_pointer'[c]))
        /\ used(c)' = distance(wr_pointer'[c], rd_pointer'[c])
    BY DEF inSram, used, ring, distance, cell
  <2>4. inSram(c) \in Words /\ Len(inSram(c)) = used(c) /\ used(c) \in Nat /\ used(c) < Half
    BY <1>1, <2>2, RingWords, Zenon
  <2>5. inSram(c)' \in Words /\ Len(inSram(c)') = used(c)' /\ used(c)' \in Nat
    BY <2>1, <2>3, RingWords, Zenon
  <2> QED BY <2>4, <2>5
<1>3. /\ wr_pointer'[c] = IF write(c) THEN step(wr_pointer[c]) ELSE wr_pointer[c]
      /\ rd_pointer'[c] = IF fetch(c, rs) THEN step(rd_pointer[c]) ELSE rd_pointer[c]
      /\ mem'[c] = IF write(c) THEN [mem[c] EXCEPT ![wr_pointer[c]] = Head(inq[c])] ELSE mem[c]
  <2>1. fetch(c, rs) => ~read(1 - c, rs)
    BY ReadMoves DEF Inv
  <2> QED BY <2>1 DEF Pointers, Sram
<1>4. /\ fetch(c, rs) => used(c) > 0 /\ ~write(c)
      /\ write(c) => used(c) < Half - 1 /\ inq[c] # <<>>
  <2>1. capacity[c] + used(c) = Full /\ capacity[c] \in 0 .. Full
    BY DEF Inv, CountsAgree, TypeOK
  <2>2. /\ fetch(c, rs) => used(c) > 0 /\ ~write(c)
        /\ write(c) => capacity[c] > 0 /\ inq[c] # <<>>
    BY Possible DEF Inv
  <2> QED BY <1>2, <2>1, <2>2 DEF Full
<1>5. CASE write(c)
  <2>1. /\ wr_pointer'[c] = step(wr_pointer[c]) /\ rd_pointer'[c] = rd_pointer[c]
        /\ ~fetch(c, rs) /\ used(c) < Half - 1
        /\ mem'[c] = [mem[c] EXCEPT ![wr_pointer[c]] = Head(inq[c])]
    BY <1>3, <1>4, <1>5
  <2>2. used(c)' = used(c) + 1
    BY <1>1, <2>1 DEF used, step
  <2>3. Head(inq[c]) \in Cell
    <3>1. inq[c] \in Seq(Word) /\ inq[c] # <<>>
      BY <1>4, <1>5 DEF Inv, TypeOK
    <3>2. Head(inq[c]) \in Word
      BY <3>1, HeadTailProperties
    <3> QED BY <3>2 DEF Cell
  <2>4. ASSUME NEW i \in 1 .. used(c)
        PROVE  inSram(c)'[i] = inSram(c)[i]
    <3>1. /\ cell(rd_pointer[c] + i - 1) \in 0 .. Half - 1
          /\ cell(rd_pointer[c] + i - 1) # wr_pointer[c]
      BY <1>1, <1>2, <2>1 DEF cell, used
    <3>2. inSram(c)'[i] = mem'[c][cell(rd_pointer[c] + i - 1)]
      BY <1>2, <2>1, <2>2 DEF inSram, cell
    <3>3. inSram(c)[i] = mem[c][cell(rd_pointer[c] + i - 1)]
      BY DEF inSram
    <3> QED BY <1>1, <2>1, <3>1, <3>2, <3>3
  <2>5. inSram(c)'[used(c) + 1] = Head(inq[c])
    <3>1. cell(rd_pointer[c] + (used(c) + 1) - 1) = wr_pointer[c]
      BY <1>1, <1>2, <2>1 DEF cell, used
    <3>2. inSram(c)'[used(c) + 1] = mem'[c][cell(rd_pointer[c] + (used(c) + 1) - 1)]
      BY <1>2, <2>1, <2>2 DEF inSram, cell
    <3> QED BY <1>1, <2>1, <3>1, <3>2
  <2>6. inSram(c)' = Append(inSram(c), Head(inq[c]))
    <3> DEFINE s == inSram(c)
               t == inSram(c)'
               x == Head(inq[c])
               k == used(c)
    <3>1. /\ s \in Seq(Cell) /\ t \in Seq(Cell) /\ x \in Cell /\ k \in Nat
          /\ Len(s) = k /\ Len(t) = k + 1 /\ t[k + 1] = x
          /\ \A i \in 1 .. k : t[i] = s[i]
      BY <1>2, <2>2, <2>3, <2>4, <2>5 DEF Words
    <3> HIDE DEF s, t, x, k, Cell
    <3>2. /\ Append(s, x) \in Seq(Cell) /\ Len(Append(s, x)) = k + 1
          /\ \A i \in 1 .. k + 1 : Append(s, x)[i] = IF i <= k THEN s[i] ELSE x
      BY <3>1
    <3>3. \A i \in 1 .. k + 1 : t[i] = Append(s, x)[i]
      BY <3>1, <3>2
    <3>4. t = Append(s, x)
      BY <3>1, <3>2, <3>3, SeqEqual
    <3> QED BY <3>4 DEF s, t, x
  <2>7. Fetched(c, rs) = <<>> /\ inSram(c) = cat(<<>>, inSram(c))
    BY <1>2, <2>1, CatEmpty DEF Fetched, one
  <2>8. inSram(c)' = cat(inSram(c), Written(c))
    <3>1. (IF write(c) THEN Append(inSram(c), Head(inq[c])) ELSE inSram(c))
            = cat(inSram(c), one(write(c), Head(inq[c])))
      <4>1. write(c) \in BOOLEAN
        BY DEF write
      <4> QED BY <1>2, <2>3, <4>1, EntersAtEnd
    <3> QED BY <1>5, <2>6, <3>1 DEF Written
  <2> QED BY <1>2, <2>7, <2>8
<1>6. CASE fetch(c, rs)
  <2>1. /\ wr_pointer'[c] = wr_pointer[c] /\ rd_pointer'[c] = step(rd_pointer[c])
        /\ ~write(c) /\ used(c) > 0 /\ mem'[c] = mem[c]
    BY <1>3, <1>4, <1>6
  <2>2. used(c)' = used(c) - 1
    BY <1>1, <2>1 DEF used, step
  <2>3. inSram(c) # <<>> /\ inSram(c)[1] = mem[c][rd_pointer[c]]
    <3>1. cell(rd_pointer[c] + 1 - 1) = rd_pointer[c]
      BY <1>1 DEF cell
    <3>2. inSram(c)[1] = mem[c][cell(rd_pointer[c] + 1 - 1)]
      BY <1>2, <2>1 DEF inSram
    <3>3. inSram(c) # <<>>
      BY <1>2, <2>1 DEF Words
    <3> QED BY <3>1, <3>2, <3>3
  <2>4. ASSUME NEW i \in 1 .. used(c)'
        PROVE  inSram(c)'[i] = inSram(c)[i + 1]
    <3>1. cell(step(rd_pointer[c]) + i - 1) = cell(rd_pointer[c] + (i + 1) - 1)
      <4>1. i \in Nat /\ i > 0 /\ i < Half
        BY <1>2, <2>2
      <4> QED BY <1>1, <4>1 DEF cell, step
    <3>2. inSram(c)'[i] = mem'[c][cell(rd_pointer'[c] + i - 1)]
      BY DEF inSram, cell
    <3>3. inSram(c)[i + 1] = mem[c][cell(rd_pointer[c] + (i + 1) - 1)]
      BY <1>2, <2>2 DEF inSram
    <3> QED BY <2>1, <3>1, <3>2, <3>3
  <2>5. inSram(c)' = Tail(inSram(c)) /\ Head(inSram(c)) = mem[c][rd_pointer[c]]
    <3> DEFINE s == inSram(c)
               t == inSram(c)'
               k == used(c)'
    <3>1. /\ s \in Seq(Cell) /\ t \in Seq(Cell) /\ k \in Nat /\ s # <<>>
          /\ Len(s) = k + 1 /\ Len(t) = k
          /\ \A i \in 1 .. k : t[i] = s[i + 1]
      BY <1>2, <2>2, <2>3, <2>4 DEF Words
    <3>2. Head(s) = s[1]
      BY <3>1
    <3> HIDE DEF s, t, k, Cell
    <3>3. /\ Tail(s) \in Seq(Cell) /\ Len(Tail(s)) = k
          /\ \A i \in 1 .. k : Tail(s)[i] = s[i + 1]
      BY <3>1, HeadTailProperties
    <3>4. t = Tail(s)
      BY <3>1, <3>3, SeqEqual
    <3> QED BY <2>3, <3>2, <3>4 DEF s, t
  <2>6. inSram(c) = cat(Fetched(c, rs), inSram(c)')
    <3>1. inSram(c) = cat(one(fetch(c, rs), Head(inSram(c))),
                          IF fetch(c, rs) THEN Tail(inSram(c)) ELSE inSram(c))
      <4>1. fetch(c, rs) \in BOOLEAN
        BY DEF fetch
      <4> QED BY <1>2, <2>3, <4>1, LeavesAtHead
    <3> QED BY <1>6, <2>5, <3>1 DEF Fetched
  <2>7. Written(c) = <<>> /\ inSram(c)' = cat(inSram(c)', <<>>)
    BY <1>2, <2>1, CatEmpty DEF Written, one
  <2> QED BY <1>2, <2>6, <2>7
<1>7. CASE ~write(c) /\ ~fetch(c, rs)
  <2>1. inSram(c)' = inSram(c)
    BY <1>3, <1>7 DEF inSram, used, cell
  <2>2. Written(c) = <<>> /\ Fetched(c, rs) = <<>>
    BY <1>7 DEF Written, Fetched, one
  <2>3. inSram(c) = cat(<<>>, inSram(c)) /\ inSram(c) = cat(inSram(c), <<>>)
    BY <1>2, CatEmpty
  <2> QED BY <1>2, <2>1, <2>2, <2>3
<1> QED BY <1>5, <1>6, <1>7

\* The access of a cycle is the read of the channel whose turn it is.
LEMMA AccessIsFetch ==
  ASSUME Inv, NEW c \in Chans, NEW rs
  PROVE  (IF access(rs).ch = c THEN <<access(rs).word>> ELSE <<>>) = Fetched(c, rs)
<1>1. CASE fetch(c, rs)
  <2>1. \A k \in Chans : fetch(k, rs) => k = c
    BY <1>1, OneReader DEF fetch, Inv, TypeOK, Chans
  <2>2. c = CHOOSE k \in Chans : fetch(k, rs)
    BY <1>1, <2>1
  <2>3. access(rs) = [ch |-> c, word |-> mem[c][rd_pointer[c]]]
    BY <1>1, <2>2 DEF access
  <2> QED BY <1>1, <2>3 DEF Fetched, one
<1>2. CASE ~fetch(c, rs)
  <2>1. access(rs).ch # c
    <3>1. CASE \E k \in Chans : fetch(k, rs)
      BY <1>2, <3>1 DEF access
    <3>2. CASE ~ \E k \in Chans : fetch(k, rs)
      BY <3>2 DEF access, Nothing, Chans, None
    <3> QED BY <3>1, <3>2
  <2> QED BY <1>2, <2>1 DEF Fetched, one
<1> QED BY <1>1, <1>2

\* The reads under way move on by one stage.
LEMMA PipeMoves ==
  ASSUME Inv, NEW c \in Chans, NEW rs, Sram(rs)
  PROVE  \E p \in Words : /\ underWay(c) = cat(Arrived(c), p)
                           /\ underWay(c)' = cat(p, Fetched(c, rs))
                           /\ Len(underWay(c)) = inFlight(c)
                           /\ Arrived(c) \in Words
<1> DEFINE w(i) == IF pipe[i].ch = c THEN <<pipe[i].word>> ELSE <<>>
           p == cat(cat(w(3), w(2)), w(1))
<1>1. ASSUME NEW i \in 1 .. 4
      PROVE  w(i) \in Words /\ Len(w(i)) = IF pipe[i].ch = c THEN 1 ELSE 0
  <2>1. pipe[i].word \in Cell
    BY DEF Inv, TypeOK
  <2> QED BY <2>1 DEF Words
<1>2. Arrived(c) = w(4)
  BY DEF Arrived, arrives, one
<1>3. underWay(c) = cat(cat(cat(w(4), w(3)), w(2)), w(1))
  BY DEF underWay, cat
<1>4. underWay(c)' = cat(p, Fetched(c, rs))
  <2>1. pipe' = <<access(rs), pipe[1], pipe[2], pipe[3]>>
    BY DEF Sram
  <2>2. underWay(c)' = cat(p, IF access(rs).ch = c THEN <<access(rs).word>> ELSE <<>>)
    BY <2>1 DEF underWay, cat
  <2> QED BY <2>2, AccessIsFetch
<1>5. w(1) \in Words /\ w(2) \in Words /\ w(3) \in Words /\ w(4) \in Words
  BY <1>1
<1>6. Len(underWay(c)) = inFlight(c)
  <2>1. /\ Len(w(1)) = IF pipe[1].ch = c THEN 1 ELSE 0
        /\ Len(w(2)) = IF pipe[2].ch = c THEN 1 ELSE 0
        /\ Len(w(3)) = IF pipe[3].ch = c THEN 1 ELSE 0
        /\ Len(w(4)) = IF pipe[4].ch = c THEN 1 ELSE 0
    BY <1>1
  <2> HIDE DEF w
  <2>2. Len(underWay(c)) = Len(w(4)) + Len(w(3)) + Len(w(2)) + Len(w(1))
    <3>1. cat(w(4), w(3)) \in Words /\ Len(cat(w(4), w(3))) = Len(w(4)) + Len(w(3))
      BY <1>5, CatWords
    <3>2. /\ cat(cat(w(4), w(3)), w(2)) \in Words
          /\ Len(cat(cat(w(4), w(3)), w(2))) = Len(w(4)) + Len(w(3)) + Len(w(2))
      BY <1>5, <3>1, CatWords
    <3>3. Len(cat(cat(cat(w(4), w(3)), w(2)), w(1))) = Len(w(4)) + Len(w(3)) + Len(w(2)) + Len(w(1))
      BY <1>5, <3>2, CatWords
    <3> QED BY <1>3, <3>3
  <2>3. inFlight(c) = Len(w(1)) + Len(w(2)) + Len(w(3)) + Len(w(4))
    BY <2>1 DEF inFlight
  <2>4. Len(w(1)) \in Nat /\ Len(w(2)) \in Nat /\ Len(w(3)) \in Nat /\ Len(w(4)) \in Nat
    BY <2>1
  <2> QED BY <2>2, <2>3, <2>4
<1> HIDE DEF w
<1>7. underWay(c) = cat(w(4), p)
  <2>1. cat(w(4), w(3)) \in Words /\ cat(w(3), w(2)) \in Words
    BY <1>5, CatWords
  <2>2. cat(cat(w(4), w(3)), w(2)) = cat(w(4), cat(w(3), w(2)))
    BY <1>5, CatAssociative
  <2>3. cat(cat(w(4), cat(w(3), w(2))), w(1)) = cat(w(4), p)
    BY <1>5, <2>1, CatAssociative
  <2> QED BY <1>3, <2>2, <2>3
<1>8. p \in Words
  BY <1>5, CatWords
<1> QED BY <1>2, <1>4, <1>5, <1>6, <1>7, <1>8

\* A cycle of the hardware is, for each channel, a step of a plain FIFO.
LEMMA CycleRefines ==
  ASSUME Inv, TypeOK', NEW put \in Chans \cup {None}, NEW rs, NEW take \in SUBSET Chans,
         put # None => Len(inq[put]) < InSize /\ sent[put] \in Word,
         \A c \in take : outq[c] # <<>>,
         Pointers(rs), Sram(rs), Input(put), Output(take),
         NEW c \in Chans
  PROVE  words'[c] \in Plain!Outcomes(words[c])
<1> DEFINE o == outq[c]
           u == underWay(c)
           s == inSram(c)
           q == inq[c]
           r == IF c \in take THEN Tail(o) ELSE o
           n == one(put = c, sent[c])
           rest == IF c \in take THEN Tail(words[c]) ELSE words[c]
<1>1. o \in Words /\ q \in Words /\ (write(c) => q # <<>>) /\ (c \in take => o # <<>>)
  <2>1. q \in Seq(Word) /\ o \in Seq(Cell)
    BY DEF Inv, TypeOK
  <2>2. q \in Seq(Cell)
    BY <2>1, SeqMonotonic DEF Cell
  <2>3. write(c) => q # <<>>
    BY Possible DEF Inv
  <2> QED BY <2>1, <2>2, <2>3 DEF Words
<1>2. put = c => sent[c] \in Word /\ Len(q) < InSize
  BY DEF Chans, None
<1>3. PICK p \in Words : /\ u = cat(Arrived(c), p)
                          /\ underWay(c)' = cat(p, Fetched(c, rs))
                          /\ Len(u) = inFlight(c)
                          /\ Arrived(c) \in Words
  BY PipeMoves
<1>4. PICK m \in Words : s = cat(Fetched(c, rs), m) /\ inSram(c)' = cat(m, Written(c))
  BY SramMoves
<1>5. PICK i \in Words : q = cat(Written(c), i) /\ inq'[c] = cat(i, n) /\ Written(c) \in Words
  <2> DEFINE j == IF write(c) THEN Tail(q) ELSE q
  <2>1. j \in Words /\ Written(c) \in Words /\ q = cat(Written(c), j)
    <3>1. write(c) \in BOOLEAN
      BY DEF write
    <3> QED BY <1>1, <3>1, LeavesAtHead DEF Written
  <2>2. inq'[c] = IF put = c THEN Append(j, sent[c]) ELSE j
    BY DEF Input
  <2>3. (IF put = c THEN Append(j, sent[c]) ELSE j) = cat(j, one(put = c, sent[c]))
    <3>1. (put = c) \in BOOLEAN /\ (put = c => sent[c] \in Cell)
      BY <1>2 DEF Cell
    <3> HIDE DEF j
    <3> QED BY <2>1, <3>1, EntersAtEnd
  <2> QED BY <2>1, <2>2, <2>3
<1>6. r \in Words /\ outq'[c] = cat(r, Arrived(c))
  <2>1. r \in Words
    <3>1. (c \in take) \in BOOLEAN
      OBVIOUS
    <3> QED BY <1>1, <3>1, LeavesAtHead
  <2>2. outq'[c] = IF arrives(c) THEN Append(r, pipe[4].word) ELSE r
    BY DEF Output
  <2>3. arrives(c) \in BOOLEAN /\ pipe[4].word \in Cell
    BY DEF arrives, Inv, TypeOK
  <2> HIDE DEF r
  <2>4. (IF arrives(c) THEN Append(r, pipe[4].word) ELSE r) = cat(r, Arrived(c))
    BY <2>1, <2>3, EntersAtEnd DEF Arrived
  <2> QED BY <2>1, <2>2, <2>4
<1>7. Fetched(c, rs) \in Words /\ n \in Words
  <2>1. fetch(c, rs) \in BOOLEAN /\ (put = c) \in BOOLEAN
    BY DEF fetch
  <2>2. mem[c][rd_pointer[c]] \in Cell /\ (put = c => sent[c] \in Cell)
    BY <1>2 DEF Inv, TypeOK, Cell
  <2>3. <<>> \in Words
    BY DEF Words
  <2> QED BY <2>1, <2>2, <2>3, EntersAtEnd DEF Fetched
<1>8. /\ words[c] = cat(cat(cat(o, u), s), q)
      /\ words'[c] = cat(cat(cat(outq'[c], underWay(c)'), inSram(c)'), inq'[c])
  BY DEF words, cat
<1>9. u \in Words /\ s \in Words
  BY <1>3, <1>4, <1>7, CatWords
<1> HIDE DEF o, u, s, q, r, n
<1>10. words'[c] = cat(cat(cat(cat(r, u), s), q), n)
  <2> DEFINE a == Arrived(c)
             f == Fetched(c, rs)
             w == Written(c)
  <2>1. words'[c] = cat(cat(cat(cat(r, a), cat(p, f)), cat(m, w)), cat(i, n))
    BY <1>3, <1>4, <1>5, <1>6, <1>8
  <2>2. u = cat(a, p) /\ s = cat(f, m) /\ q = cat(w, i)
    BY <1>3, <1>4, <1>5
  <2>3. a \in Words /\ f \in Words /\ w \in Words
    BY <1>3, <1>5, <1>7
  <2> HIDE DEF a, f, w
  <2>4. cat(r, u) \in Words /\ cat(cat(r, u), s) \in Words
    <3>1. cat(r, u) \in Words
      BY <1>6, <1>9, CatWords
    <3> QED BY <1>9, <3>1, CatWords
  <2>5. cat(cat(r, a), cat(p, f)) = cat(cat(r, u), f)
    BY <1>6, <2>2, <2>3, Regroup
  <2>6. cat(cat(cat(r, u), f), cat(m, w)) = cat(cat(cat(r, u), s), w)
    BY <2>2, <2>3, <2>4, Regroup
  <2>7. cat(cat(cat(cat(r, u), s), w), cat(i, n)) = cat(cat(cat(cat(r, u), s), q), n)
    BY <1>7, <2>2, <2>3, <2>4, Regroup
  <2> QED BY <2>1, <2>5, <2>6, <2>7
<1>11. words[c] \in Words /\ cat(cat(cat(r, u), s), q) = rest /\ (c \in take => words[c] # <<>>)
  <2>1. cat(o, u) \in Words /\ cat(cat(o, u), s) \in Words /\ words[c] \in Words
    <3>1. cat(o, u) \in Words
      BY <1>1, <1>9, CatWords
    <3>2. cat(cat(o, u), s) \in Words
      BY <1>9, <3>1, CatWords
    <3>3. cat(cat(cat(o, u), s), q) \in Words
      BY <1>1, <3>2, CatWords
    <3> QED BY <1>8, <3>1, <3>2, <3>3
  <2>2. CASE c \in take
    <3>1. o # <<>> /\ r = Tail(o)
      BY <1>1, <2>2 DEF r
    <3>2. cat(o, u) # <<>> /\ Tail(cat(o, u)) = cat(Tail(o), u)
      BY <1>1, <1>9, <3>1, CatTail
    <3>3. cat(cat(o, u), s) # <<>> /\ Tail(cat(cat(o, u), s)) = cat(Tail(cat(o, u)), s)
      BY <1>9, <2>1, <3>2, CatTail
    <3>4. words[c] # <<>> /\ Tail(words[c]) = cat(Tail(cat(cat(o, u), s)), q)
      BY <1>1, <1>8, <2>1, <3>3, CatTail
    <3> QED BY <2>1, <2>2, <3>1, <3>2, <3>3, <3>4
  <2>3. CASE c \notin take
    BY <1>8, <2>1, <2>3 DEF r
  <2> QED BY <2>2, <2>3
<1>12. put = c => Len(words[c]) < OutSize + Full + InSize
  <2>2. Len(words[c]) = Len(o) + Len(u) + Len(s) + Len(q)
    <3>1. cat(o, u) \in Words /\ Len(cat(o, u)) = Len(o) + Len(u)
      BY <1>1, <1>9, CatWords
    <3>2. /\ cat(cat(o, u), s) \in Words
          /\ Len(cat(cat(o, u), s)) = Len(o) + Len(u) + Len(s)
      BY <1>9, <3>1, CatWords
    <3>3. Len(cat(cat(cat(o, u), s), q)) = Len(o) + Len(u) + Len(s) + Len(q)
      BY <1>1, <3>2, CatWords
    <3> QED BY <1>8, <3>3
  <2>3. Len(o) \in Nat /\ Len(u) \in Nat /\ Len(s) \in Nat /\ Len(q) \in Nat
    BY <1>1, <1>9 DEF Words
  <2>4. Len(o) + Len(u) <= OutSize
    BY <1>3 DEF Inv, OutputFits, o
  <2>5. Len(s) <= Full
    <3>1. capacity[c] \in Nat /\ capacity[c] + used(c) = Full
      BY DEF Inv, TypeOK, CountsAgree
    <3>2. wr_pointer[c] \in 0 .. Half - 1 /\ rd_pointer[c] \in 0 .. Half - 1
          /\ mem[c] \in [0 .. Half - 1 -> Cell]
      BY DEF Inv, TypeOK
    <3>3. /\ s = ring(mem[c], rd_pointer[c], distance(wr_pointer[c], rd_pointer[c]))
          /\ used(c) = distance(wr_pointer[c], rd_pointer[c])
      BY DEF inSram, used, ring, distance, s
    <3>4. Len(s) = used(c) /\ used(c) \in Nat
      BY <3>2, <3>3, RingWords
    <3> QED BY <3>1, <3>4, SizesAssumption DEF Full
  <2>6. put = c => Len(q) < InSize
    BY <1>2 DEF q
  <2> HIDE DEF o, u, s, q
  <2> QED BY <2>2, <2>3, <2>4, <2>5, <2>6, SizesAssumption DEF Full
<1>13. words'[c] = cat(rest, n)
  BY <1>10, <1>11
<1> HIDE DEF words, rest
<1> DEFINE left == {words[c]} \cup (IF words[c] = <<>> THEN {} ELSE {Tail(words[c])})
           room == Len(words[c]) < OutSize + Full + InSize
           new == {<<>>} \cup (IF room THEN {<<d>> : d \in Word} ELSE {})
<1>14. rest \in left
  BY <1>11 DEF rest
<1>15. n \in new
  <2>1. CASE put = c
    BY <1>2, <1>12, <2>1 DEF n, one
  <2>2. CASE put # c
    BY <2>2 DEF n, one
  <2> QED BY <2>1, <2>2
<1>16. words'[c] = rest \o n
  BY <1>13 DEF cat
<1>17. Plain!Outcomes(words[c]) = {x \o y : x \in left, y \in new}
  BY DEF Plain!Outcomes
<1> HIDE DEF left, new
<1>18. rest \o n \in {x \o y : x \in left, y \in new}
  BY <1>14, <1>15
<1> QED BY <1>16, <1>17, <1>18

\* The registers after a reset map to empty FIFOs.
LEMMA InitRefines == Init => Plain!Init
<1> SUFFICES ASSUME Init, NEW c \in Chans PROVE words[c] = <<>>
  BY DEF Plain!Init, words
<1>1. outq[c] = <<>> /\ inq[c] = <<>>
  BY DEF Init
<1>2. underWay(c) = <<>>
  BY DEF Init, underWay, Nothing, None, Chans
<1>3. inSram(c) = <<>>
  <2>1. used(c) = 0
    BY DEF Init, used
  <2> QED BY <2>1 DEF inSram
<1> QED BY <1>1, <1>2, <1>3 DEF words

\* So do they after a clear.
LEMMA ClearRefines == Clear => Plain!Clear
<1> SUFFICES ASSUME Clear, NEW c \in Chans PROVE words'[c] = <<>>
  BY DEF Plain!Clear, words
<1>1. outq'[c] = <<>> /\ inq'[c] = <<>>
  BY DEF Clear
<1>2. underWay(c)' = <<>>
  BY DEF Clear, underWay, Nothing, None, Chans
<1>3. inSram(c)' = <<>>
  <2>1. used(c)' = 0
    BY DEF Clear, used
  <2> QED BY <2>1 DEF inSram, cell
<1> QED BY <1>1, <1>2, <1>3 DEF words

\* A step of the hardware is a step of the plain FIFOs, or changes nothing in
\* them.
LEMMA NextRefines == Inv /\ Inv' /\ [Next]_vars => [Plain!Next]_words
<1> SUFFICES ASSUME Inv, Inv', [Next]_vars PROVE [Plain!Next]_words
  OBVIOUS
<1>1. CASE Cycle
  <2>1. PICK put \in Chans \cup {None}, rs \in [Chans -> BOOLEAN], take \in SUBSET Chans :
          /\ put # None => Len(inq[put]) < InSize /\ sent[0] + sent[1] < MaxWords
          /\ \A c \in take : outq[c] # <<>>
          /\ Pointers(rs) /\ Sram(rs) /\ Input(put) /\ Output(take)
    BY <1>1 DEF Cycle
  <2>2. put # None => Len(inq[put]) < InSize /\ sent[put] \in Word
    <3>1. sent[0] \in 0 .. MaxWords /\ sent[1] \in 0 .. MaxWords
      BY DEF Inv, TypeOK, Chans
    <3>2. put # None => put = 0 \/ put = 1
      BY DEF Chans
    <3> QED BY <2>1, <3>1, <3>2, SizesAssumption DEF Word
  <2>3. \A c \in Chans : words'[c] \in Plain!Outcomes(words[c])
    BY <2>1, <2>2, CycleRefines DEF Inv
  <2>4. DOMAIN words' = Chans
    BY DEF words
  <2> QED BY <2>3, <2>4 DEF Plain!Next, Plain!Cycle
<1>2. CASE Clear
  BY <1>2, ClearRefines DEF Plain!Next
<1>3. CASE UNCHANGED vars
  BY <1>3 DEF vars, words, underWay, inSram, used, cell
<1> QED BY <1>1, <1>2, <1>3 DEF Next

\* The two channels that share the SRAM (nobl_fifo.v, nobl_if.v, ext_fifo.v)
\* are two independent FIFOs: no word is lost, doubled, reordered or given to
\* the other channel, for every size of the memories.
THEOREM NoblRefines == Spec => ImplementsFifos
<1>1. Spec => []Inv
  BY InitInv, NextInv, PTL DEF Spec
<1>2. Spec => Plain!Init /\ [][Plain!Next]_words
  BY <1>1, InitRefines, NextRefines, PTL DEF Spec
<1> QED BY <1>2 DEF ImplementsFifos, Plain!Spec
=============================================================================
