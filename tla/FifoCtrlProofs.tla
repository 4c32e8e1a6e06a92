--------------------------- MODULE FifoCtrlProofs ---------------------------
(***************************************************************************)
(* Proofs about FifoCtrl for every window, FIFO depth, number width and    *)
(* set of control words.                                                   *)
(***************************************************************************)
EXTENDS FifoCtrl, TLAPS

-----------------------------------------------------------------------------
(* The inductive invariant.                                                *)

\* Ids n places apart in the pipeline differ by at least n, until the command
\* FIFO is wedged and repeats one command.
Steps(w, n) == IF w THEN 0 ELSE n

Sorted(w, q) ==
  \A i, j \in 1 .. Len(q) : i < j => q[i].id + Steps(w, j - i) <= q[j].id

Before(w, p, q) ==
  \A i \in 1 .. Len(p), j \in 1 .. Len(q) : p[i].id + Steps(w, 1) <= q[j].id

\* Everything in flight was sent and is not yet acknowledged, and its number
\* is as far behind _seq_out as its id is behind the last id sent.
Linked(q) ==
  \A i \in 1 .. Len(q) :
    /\ acked + Steps(wedged, 1) <= q[i].id
    /\ q[i].id <= sent
    /\ Ahead(q[i].seq, seq_out) = sent - q[i].id

PipeSorted ==
  /\ Sorted(wedged, toHost)
  /\ Sorted(wedged, resFifo)
  /\ Sorted(wedged, cmdFifo)
  /\ Sorted(wedged, toDev)

PipeOrdered ==
  /\ Before(wedged, toHost, resFifo)
  /\ Before(wedged, toHost, cmdFifo)
  /\ Before(wedged, toHost, toDev)
  /\ Before(wedged, resFifo, cmdFifo)
  /\ Before(wedged, resFifo, toDev)
  /\ Before(wedged, cmdFifo, toDev)

PipeLinked ==
  /\ Linked(toHost)
  /\ Linked(resFifo)
  /\ Linked(cmdFifo)
  /\ Linked(toDev)

\* What the waits leave unacknowledged: a window, one more while a call is in
\* progress, and one for each call that gave up.
WindowInv ==
  /\ acked <= sent
  /\ Ahead(seq_ack, seq_out) = sent - acked
  /\ sent - acked <= Window + timeouts + (IF pc = "idle" THEN 0 ELSE 1)
  /\ pc = "readback" => acked < sent

RetInv ==
  /\ ret.wanted <= sent
  /\ ret.wanted = sent => acked = sent

IInv ==
  /\ TypeOK
  /\ PipeSorted
  /\ PipeOrdered
  /\ PipeLinked
  /\ WindowInv
  /\ RetInv
  /\ CommandFifoNeverOverflows
  /\ ReadbackIsOwn

-----------------------------------------------------------------------------
(* Queues of numbered entries.                                             *)

\* Taking the head off a sorted queue leaves a sorted queue.
LEMMA SortedTail ==
  ASSUME NEW S, \A x \in S : x.id \in Nat,
         NEW w \in BOOLEAN, NEW q \in Seq(S), q # <<>>, Sorted(w, q)
  PROVE  Sorted(w, Tail(q))
<1>1. /\ Len(q) \in Nat /\ Len(q) >= 1
      /\ Len(Tail(q)) = Len(q) - 1
      /\ \A i \in 1 .. Len(Tail(q)) : Tail(q)[i] = q[i + 1]
  OBVIOUS
<1>2. ASSUME NEW i \in 1 .. Len(Tail(q)), NEW j \in 1 .. Len(Tail(q)), i < j
      PROVE  Tail(q)[i].id + Steps(w, j - i) <= Tail(q)[j].id
  <2>1. /\ i + 1 \in 1 .. Len(q)
        /\ j + 1 \in 1 .. Len(q)
        /\ i + 1 < j + 1
        /\ (j + 1) - (i + 1) = j - i
    BY <1>1, <1>2
  <2>2. q[i + 1].id + Steps(w, (j + 1) - (i + 1)) <= q[j + 1].id
    BY <2>1 DEF Sorted
  <2>. QED BY <1>1, <2>1, <2>2
<1>. QED BY <1>2 DEF Sorted

\* Appending an entry behind all others keeps a queue sorted.
LEMMA SortedAppend ==
  ASSUME NEW S, \A x \in S : x.id \in Nat,
         NEW w \in BOOLEAN, NEW q \in Seq(S), NEW e \in S, Sorted(w, q),
         \A i \in 1 .. Len(q) : q[i].id + Steps(w, 1) <= e.id
  PROVE  Sorted(w, Append(q, e))
<1>. DEFINE r == Append(q, e)
<1>1. /\ Len(q) \in Nat
      /\ Len(r) = Len(q) + 1
      /\ \A i \in 1 .. Len(q) : r[i] = q[i] /\ q[i] \in S
      /\ r[Len(q) + 1] = e
  OBVIOUS
<1>2. ASSUME NEW i \in 1 .. Len(r), NEW j \in 1 .. Len(r), i < j
      PROVE  r[i].id + Steps(w, j - i) <= r[j].id
  <2>1. CASE j \in 1 .. Len(q)
    <3>1. i \in 1 .. Len(q)
      BY <1>1, <1>2, <2>1
    <3>2. q[i].id + Steps(w, j - i) <= q[j].id
      BY <1>2, <2>1, <3>1 DEF Sorted
    <3>. QED BY <1>1, <2>1, <3>1, <3>2
  <2>2. CASE j = Len(q) + 1
    <3>1. /\ i \in 1 .. Len(q)
          /\ Len(q) \in 1 .. Len(q)
          /\ r[i] = q[i] /\ r[j] = e
          /\ q[i].id \in Nat /\ q[Len(q)].id \in Nat /\ e.id \in Nat
      BY <1>1, <1>2, <2>2
    <3>2. q[Len(q)].id + Steps(w, 1) <= e.id
      BY <3>1
    <3>3. CASE i = Len(q)
      <4>1. j - i = 1
        BY <2>2, <3>3, <1>1
      <4>. QED BY <3>1, <3>2, <3>3, <4>1
    <3>4. CASE i < Len(q)
      <4>1. q[i].id + Steps(w, Len(q) - i) <= q[Len(q)].id
        BY <3>1, <3>4 DEF Sorted
      <4>. QED BY <1>1, <2>2, <3>1, <3>2, <4>1 DEF Steps
    <3>. QED BY <1>1, <3>1, <3>3, <3>4
  <2>. QED BY <1>1, <2>1, <2>2
<1>. QED BY <1>2 DEF Sorted

\* Order between queues survives taking the head off either of them.
LEMMA BeforeTail ==
  ASSUME NEW S, NEW T, NEW w \in BOOLEAN,
         NEW p \in Seq(S), NEW q \in Seq(T), Before(w, p, q)
  PROVE  /\ p # <<>> => Before(w, Tail(p), q)
         /\ q # <<>> => Before(w, p, Tail(q))
<1>1. ASSUME p # <<>> PROVE Before(w, Tail(p), q)
  <2>1. /\ Len(p) \in Nat
        /\ Len(Tail(p)) = Len(p) - 1
        /\ \A i \in 1 .. Len(Tail(p)) : Tail(p)[i] = p[i + 1]
    BY <1>1
  <2>2. \A i \in 1 .. Len(Tail(p)) : i + 1 \in 1 .. Len(p)
    BY <2>1
  <2>. QED BY <2>1, <2>2 DEF Before
<1>2. ASSUME q # <<>> PROVE Before(w, p, Tail(q))
  <2>1. /\ Len(q) \in Nat
        /\ Len(Tail(q)) = Len(q) - 1
        /\ \A i \in 1 .. Len(Tail(q)) : Tail(q)[i] = q[i + 1]
    BY <1>2
  <2>2. \A i \in 1 .. Len(Tail(q)) : i + 1 \in 1 .. Len(q)
    BY <2>1
  <2>. QED BY <2>1, <2>2 DEF Before
<1>. QED BY <1>1, <1>2

\* Order between queues survives appending an entry that fits.
LEMMA BeforeAppend ==
  ASSUME NEW S, NEW T, NEW w \in BOOLEAN,
         NEW p \in Seq(S), NEW q \in Seq(T), Before(w, p, q)
  PROVE  /\ \A e \in S :
              (\A j \in 1 .. Len(q) : e.id + Steps(w, 1) <= q[j].id)
                => Before(w, Append(p, e), q)
         /\ \A e \in T :
              (\A i \in 1 .. Len(p) : p[i].id + Steps(w, 1) <= e.id)
                => Before(w, p, Append(q, e))
<1>1. ASSUME NEW e \in S,
             \A j \in 1 .. Len(q) : e.id + Steps(w, 1) <= q[j].id
      PROVE  Before(w, Append(p, e), q)
  <2>1. /\ Len(p) \in Nat
        /\ Len(Append(p, e)) = Len(p) + 1
        /\ \A i \in 1 .. Len(p) : Append(p, e)[i] = p[i]
        /\ Append(p, e)[Len(p) + 1] = e
    OBVIOUS
  <2>2. \A i \in 1 .. Len(Append(p, e)) : i \in 1 .. Len(p) \/ i = Len(p) + 1
    BY <2>1
  <2>. QED BY <1>1, <2>1, <2>2 DEF Before
<1>2. ASSUME NEW e \in T,
             \A i \in 1 .. Len(p) : p[i].id + Steps(w, 1) <= e.id
      PROVE  Before(w, p, Append(q, e))
  <2>1. /\ Len(q) \in Nat
        /\ Len(Append(q, e)) = Len(q) + 1
        /\ \A i \in 1 .. Len(q) : Append(q, e)[i] = q[i]
        /\ Append(q, e)[Len(q) + 1] = e
    OBVIOUS
  <2>2. \A i \in 1 .. Len(Append(q, e)) : i \in 1 .. Len(q) \/ i = Len(q) + 1
    BY <2>1
  <2>. QED BY <1>2, <2>1, <2>2 DEF Before
<1>. QED BY <1>1, <1>2

-----------------------------------------------------------------------------
(* Sixteen-bit numbers.                                                    *)

\* A sum or difference that leaves the range by less than its size wraps
\* back into it.
LEMMA WrapInRange ==
  ASSUME NEW n \in Int, -SeqMod <= n, n < 2 * SeqMod
  PROVE  Wrap(n) \in SeqNum
BY SeqModAssumption DEF Wrap, SeqNum

\* wraparound_lt16 compares by distance: i1 is after i0 when it is ahead by
\* less than half of the numbers.
LEMMA WraparoundLtIsAhead ==
  ASSUME NEW i0 \in SeqNum, NEW i1 \in SeqNum
  PROVE  WraparoundLt(i0, i1)
           <=> Ahead(i0, i1) # 0 /\ 2 * Ahead(i0, i1) < SeqMod
<1>1. SeqMod \in Nat /\ i0 \in Int /\ i1 \in Int
      /\ 0 <= i0 /\ i0 < SeqMod /\ 0 <= i1 /\ i1 < SeqMod
  BY SeqModAssumption DEF SeqNum
<1>. QED BY <1>1 DEF WraparoundLt, Ahead, SignBit, Wrap

\* Sending a command moves _seq_out one further ahead of every number that
\* is less than a full turn behind.
LEMMA AheadOfNext ==
  ASSUME NEW i \in SeqNum, NEW o \in SeqNum, Ahead(i, o) + 1 < SeqMod
  PROVE  Ahead(i, Wrap(o + 1)) = Ahead(i, o) + 1
<1>1. SeqMod \in Nat /\ i \in Int /\ o \in Int
      /\ 0 <= i /\ i < SeqMod /\ 0 <= o /\ o < SeqMod
  BY SeqModAssumption DEF SeqNum
<1>. QED BY <1>1 DEF Ahead, Wrap

\* The loop of wait_for_ack ends exactly when few enough commands are
\* unacknowledged: none for a readback, a window otherwise.
LEMMA WaitEnds ==
  ASSUME NEW a \in SeqNum, NEW o \in SeqNum,
         Ahead(a, o) <= Window + 1 + MaxTimeouts
  PROVE  /\ ~WraparoundLt(a, o) <=> Ahead(a, o) = 0
         /\ ~WraparoundLt(a, Wrap(o - Window)) <=> Ahead(a, o) <= Window
<1>1. /\ SeqMod \in Nat /\ Window \in Nat /\ MaxTimeouts \in Nat
      /\ 2 * (Window + 2 + MaxTimeouts) <= SeqMod
      /\ a \in Int /\ o \in Int
      /\ 0 <= a /\ a < SeqMod /\ 0 <= o /\ o < SeqMod
  BY SeqModAssumption, WindowAssumption, BoundAssumption DEF SeqNum
<1>2. Wrap(o - Window) \in SeqNum
  BY <1>1, WrapInRange
<1>3. ~WraparoundLt(a, o) <=> Ahead(a, o) = 0
  <2>1. 2 * Ahead(a, o) < SeqMod
    BY <1>1 DEF Ahead, Wrap
  <2>. QED BY <2>1, WraparoundLtIsAhead
<1>4. Ahead(a, Wrap(o - Window)) =
        IF Ahead(a, o) >= Window THEN Ahead(a, o) - Window
                                 ELSE Ahead(a, o) - Window + SeqMod
  BY <1>1 DEF Ahead, Wrap
<1>5. Ahead(a, o) \in Nat
  BY <1>1 DEF Ahead, Wrap
<1>6. ~WraparoundLt(a, Wrap(o - Window)) <=> Ahead(a, o) <= Window
  <2>1. WraparoundLt(a, Wrap(o - Window))
          <=> /\ Ahead(a, Wrap(o - Window)) # 0
              /\ 2 * Ahead(a, Wrap(o - Window)) < SeqMod
    BY <1>2, WraparoundLtIsAhead
  <2>. QED BY <1>1, <1>4, <1>5, <2>1
<1>. QED BY <1>3, <1>6

-----------------------------------------------------------------------------
(* Type correctness.                                                       *)

\* send_pkt keeps the types.
LEMMA SendPktType ==
  ASSUME TypeOK, NEW op \in Ops, NEW word \in CtrlWords \cup {0},
         SendPkt(op, word)
  PROVE  /\ seq_out' \in SeqNum
         /\ sent' \in Nat
         /\ toDev' \in Seq(Commands)
<1>1. Wrap(seq_out + 1) \in SeqNum
  BY WrapInRange, SeqModAssumption DEF TypeOK, SeqNum
<1>2. [id |-> sent + 1, seq |-> Wrap(seq_out + 1), op |-> op, want |-> word]
        \in Commands
  BY <1>1 DEF TypeOK, Commands
<1>. QED BY <1>1, <1>2 DEF SendPkt, TypeOK

\* Every step keeps the types.
LEMMA TypeStep == TypeOK /\ [Next]_vars => TypeOK'
<1>. SUFFICES ASSUME TypeOK, [Next]_vars PROVE TypeOK'
  OBVIOUS
<1>. USE BoundAssumption DEF vars, hostVars, devVars, histVars
<1>1. CASE Poke32
  BY <1>1, SendPktType DEF Poke32, TypeOK, Ops, Waits, Calls, NoCall
<1>2. CASE Peek32
  BY <1>2, SendPktType DEF Peek32, TypeOK, Ops, Waits, Calls, NoCall
<1>3. ASSUME NEW word \in CtrlWords, NEW readback \in BOOLEAN,
             TransactSpi(word, readback)
      PROVE  TypeOK'
  <2>1. /\ seq_out' \in SeqNum
        /\ sent' \in Nat
        /\ toDev' \in Seq(Commands)
    BY <1>3, SendPktType DEF TransactSpi, Ops
  <2>2. call' \in Calls /\ pc' \in Waits \cup {"idle"}
    BY <1>3 DEF TransactSpi, Calls, Waits
  <2>. QED BY <1>3, <2>1, <2>2 DEF TransactSpi, TypeOK
<1>4. CASE RecvAck
  <2>1. Head(toHost) \in Acks /\ toHost' \in Seq(Acks)
    BY <1>4 DEF RecvAck, TypeOK
  <2>2. seq_ack' \in SeqNum /\ acked' \in Nat
    BY <1>4, <2>1 DEF RecvAck, Acks
  <2>3. ret' \in [wanted : Nat, got : Nat] /\ pc' \in Waits \cup {"idle"}
    BY <1>4, <2>1 DEF RecvAck, Acks, TypeOK
  <2>. QED BY <1>4, <2>1, <2>2, <2>3 DEF RecvAck, TypeOK
<1>5. CASE AckTimeout
  BY <1>5 DEF AckTimeout, TypeOK
<1>6. CASE CtrlWordSent
  <2>1. call.word \in CtrlWords \cup {0}
    BY DEF TypeOK, Calls
  <2>2. /\ seq_out' \in SeqNum
        /\ sent' \in Nat
        /\ toDev' \in Seq(Commands)
    BY <1>6, <2>1, SendPktType DEF CtrlWordSent, Ops
  <2>. QED BY <1>6, <2>1, <2>2 DEF CtrlWordSent, TypeOK, Waits
<1>7. CASE CtrlWordSentNoBuff
  BY <1>7 DEF CtrlWordSentNoBuff, TypeOK, Calls
<1>8. CASE SpiReadback
  <2>1. /\ seq_out' \in SeqNum
        /\ sent' \in Nat
        /\ toDev' \in Seq(Commands)
    BY <1>8, SendPktType DEF SpiReadback, Ops, TypeOK
  <2>. QED BY <1>8, <2>1 DEF SpiReadback, TypeOK, Waits
<1>9. CASE CallOver
  BY <1>9 DEF CallOver, TypeOK
<1>10. CASE LoseCommand
  BY <1>10 DEF LoseCommand, TypeOK
<1>11. CASE LoseAck
  BY <1>11 DEF LoseAck, TypeOK
<1>12. CASE StoreCmd
  BY <1>12 DEF StoreCmd, TypeOK
<1>13. CASE StoreCmdFull
  <2>1. PICK n \in 1 .. 2 :
          cmdFifo' = Append(SubSeq(cmdFifo, 1, n), Head(toDev))
    BY <1>13 DEF StoreCmdFull
  <2>2. Head(toDev) \in Commands /\ toDev' \in Seq(Commands)
    BY <1>13 DEF StoreCmdFull, TypeOK
  <2>3. SubSeq(cmdFifo, 1, n) \in Seq(Commands)
    BY <1>13, FifoDepthAssumption DEF StoreCmdFull, TypeOK
  <2>. QED BY <1>13, <2>1, <2>2, <2>3 DEF StoreCmdFull, TypeOK
<1>14. CASE Action
  <2>1. Head(cmdFifo) \in Commands /\ cmdFifo' \in Seq(Commands)
    BY <1>14 DEF Action, TypeOK
  <2>2. [id |-> Head(cmdFifo).id, seq |-> Head(cmdFifo).seq] \in Acks
    BY <2>1 DEF Commands, Acks
  <2>3. Head(cmdFifo).want \in CtrlWords \cup {0}
    BY <2>1 DEF Commands
  <2>4. resFifo' \in Seq(Acks)
    BY <1>14, <2>2 DEF Action, TypeOK
  <2>5. /\ spi_ctrl' \in CtrlWords \cup {0}
        /\ lastSpi' \in [wanted : CtrlWords \cup {0}, used : CtrlWords \cup {0}]
    BY <1>14, <2>3 DEF Action, TypeOK
  <2>. QED BY <1>14, <2>1, <2>4, <2>5 DEF Action, TypeOK
<1>15. CASE WriteResult
  <2>1. Head(resFifo) \in Acks /\ resFifo' \in Seq(Acks)
    BY <1>15 DEF WriteResult, TypeOK
  <2>2. toHost' \in Seq(Acks)
    BY <1>15, <2>1 DEF WriteResult, TypeOK
  <2>. QED BY <1>15, <2>1, <2>2 DEF WriteResult, TypeOK
<1>16. CASE UNCHANGED vars
  BY <1>16 DEF TypeOK
<1>. QED BY <1>1, <1>2, <1>3, <1>4, <1>5, <1>6, <1>7, <1>8, <1>9, <1>10, <1>11,
            <1>12, <1>13, <1>14, <1>15, <1>16
     DEF Next, Call, CallStep, Network, Device, Done

\* The types hold at first.
LEMMA TypeInit == Init => TypeOK
<1>. SUFFICES ASSUME Init PROVE TypeOK
  OBVIOUS
<1>1. 0 \in SeqNum /\ 0 \in Nat /\ 0 \in 0 .. MaxTimeouts /\ 0 \in 0 .. MaxLost
  BY SeqModAssumption, BoundAssumption DEF SeqNum
<1>2. NoCall \in Calls
  BY DEF NoCall, Calls
<1>3. /\ ret \in [wanted : Nat, got : Nat]
      /\ lastSpi \in [wanted : CtrlWords \cup {0}, used : CtrlWords \cup {0}]
  BY <1>1 DEF Init
<1>4. <<>> \in Seq(Commands) /\ <<>> \in Seq(Acks)
  OBVIOUS
<1>. QED BY <1>1, <1>2, <1>3, <1>4 DEF Init, TypeOK

\* Every variable of the register path keeps its type: in particular the
\* sequence numbers stay within 16 bits.
THEOREM TypeCorrect == Spec => []TypeOK
<1>1. Init => TypeOK
  BY TypeInit
<1>2. TypeOK /\ [Next]_vars => TypeOK'
  BY TypeStep
<1>. QED BY <1>1, <1>2, PTL DEF Spec

-----------------------------------------------------------------------------
(* The pipeline.                                                           *)

\* Commands and acknowledgements carry an id and a number.
LEMMA EntriesNumbered ==
  /\ \A x \in Commands : x.id \in Nat /\ x.seq \in SeqNum
  /\ \A x \in Acks : x.id \in Nat /\ x.seq \in SeqNum
BY DEF Commands, Acks

\* Sending a command within the window extends the pipeline by one entry.
LEMMA SendPktPipe ==
  ASSUME IInv, NEW op \in Ops, NEW word \in CtrlWords \cup {0},
         SendPkt(op, word),
         UNCHANGED <<seq_ack, acked, wedged, toHost, resFifo, cmdFifo>>,
         sent - acked <= Window + timeouts
  PROVE  /\ PipeSorted'
         /\ PipeOrdered'
         /\ PipeLinked'
         /\ acked' < sent'
         /\ Ahead(seq_ack, seq_out)' = (sent - acked)'
         /\ sent' - acked' <= Window + timeouts + 1
         /\ ret.wanted < sent'
<1>. DEFINE e == [id |-> sent + 1, seq |-> Wrap(seq_out + 1),
                 op |-> op, want |-> word]
<1>1. /\ sent \in Nat /\ acked \in Nat /\ acked <= sent
      /\ timeouts \in Nat /\ timeouts <= MaxTimeouts
      /\ wedged \in BOOLEAN
      /\ seq_out \in SeqNum /\ seq_ack \in SeqNum
      /\ sent' = sent + 1 /\ seq_out' = Wrap(seq_out + 1)
      /\ toDev' = Append(toDev, e)
      /\ toDev \in Seq(Commands) /\ cmdFifo \in Seq(Commands)
      /\ resFifo \in Seq(Acks) /\ toHost \in Seq(Acks)
  BY BoundAssumption DEF IInv, TypeOK, WindowInv, SendPkt
<1>2. e \in Commands /\ e.id = sent + 1 /\ e.seq = seq_out'
  <2>1. Wrap(seq_out + 1) \in SeqNum
    BY <1>1, WrapInRange, SeqModAssumption DEF SeqNum
  <2>. QED BY <1>1, <2>1 DEF Commands
<1>3. /\ SeqMod \in Nat /\ Window \in Nat /\ MaxTimeouts \in Nat
      /\ sent - acked + 1 < SeqMod
  BY <1>1, SeqModAssumption, WindowAssumption, BoundAssumption
<1>4. \A n \in {0, 1} : sent + n <= e.id
  BY <1>1, <1>2
<1>5. Steps(wedged, 1) \in {0, 1}
  BY <1>1 DEF Steps
<1>6. ASSUME NEW q, q \in Seq(Commands) \/ q \in Seq(Acks), Linked(q)
      PROVE  \A i \in 1 .. Len(q) : q[i].id + Steps(wedged, 1) <= e.id
  <2>. SUFFICES ASSUME NEW i \in 1 .. Len(q)
                PROVE  q[i].id + Steps(wedged, 1) <= e.id
    OBVIOUS
  <2>1. q[i] \in Commands \/ q[i] \in Acks
    BY <1>6
  <2>2. q[i].id \in Nat /\ q[i].id <= sent
    BY <1>6, <2>1, EntriesNumbered DEF Linked
  <2>. QED BY <1>1, <1>2, <1>5, <2>2
<1>7. PipeSorted'
  <2>1. Sorted(wedged, Append(toDev, e))
    BY <1>1, <1>2, <1>6, SortedAppend, EntriesNumbered
       DEF IInv, PipeSorted, PipeLinked
  <2>. QED BY <1>1, <2>1 DEF IInv, PipeSorted
<1>8. PipeOrdered'
  <2>1. Before(wedged, toHost, Append(toDev, e))
    BY <1>1, <1>2, <1>6, BeforeAppend DEF IInv, PipeOrdered, PipeLinked
  <2>2. Before(wedged, resFifo, Append(toDev, e))
    BY <1>1, <1>2, <1>6, BeforeAppend DEF IInv, PipeOrdered, PipeLinked
  <2>3. Before(wedged, cmdFifo, Append(toDev, e))
    BY <1>1, <1>2, <1>6, BeforeAppend DEF IInv, PipeOrdered, PipeLinked
  <2>. QED BY <1>1, <2>1, <2>2, <2>3 DEF IInv, PipeOrdered
<1>9. ASSUME NEW q, q \in Seq(Commands) \/ q \in Seq(Acks), Linked(q)
      PROVE  \A i \in 1 .. Len(q) :
               /\ acked + Steps(wedged, 1) <= q[i].id
               /\ q[i].id <= sent'
               /\ Ahead(q[i].seq, seq_out') = sent' - q[i].id
  <2>. SUFFICES ASSUME NEW i \in 1 .. Len(q)
                PROVE  /\ acked + Steps(wedged, 1) <= q[i].id
                       /\ q[i].id <= sent'
                       /\ Ahead(q[i].seq, seq_out') = sent' - q[i].id
    OBVIOUS
  <2>1. q[i] \in Commands \/ q[i] \in Acks
    BY <1>9
  <2>2. /\ q[i].id \in Nat /\ q[i].seq \in SeqNum
        /\ acked + Steps(wedged, 1) <= q[i].id /\ q[i].id <= sent
        /\ Ahead(q[i].seq, seq_out) = sent - q[i].id
    BY <1>9, <2>1, EntriesNumbered DEF Linked
  <2>3. Ahead(q[i].seq, seq_out) + 1 < SeqMod
    BY <1>1, <1>3, <1>5, <2>2
  <2>4. Ahead(q[i].seq, Wrap(seq_out + 1)) = Ahead(q[i].seq, seq_out) + 1
    BY <1>1, <2>2, <2>3, AheadOfNext
  <2>. QED BY <1>1, <2>2, <2>4
<1>10. PipeLinked'
  <2>1. Linked(toHost)' /\ Linked(resFifo)' /\ Linked(cmdFifo)'
    BY <1>1, <1>9 DEF IInv, PipeLinked, Linked
  <2>2. Linked(toDev)'
    <3>. SUFFICES ASSUME NEW i \in 1 .. Len(Append(toDev, e))
                  PROVE  /\ acked + Steps(wedged, 1) <= Append(toDev, e)[i].id
                         /\ Append(toDev, e)[i].id <= sent'
                         /\ Ahead(Append(toDev, e)[i].seq, seq_out')
                              = sent' - Append(toDev, e)[i].id
      BY <1>1 DEF Linked
    <3>1. CASE i \in 1 .. Len(toDev)
      <4>1. Append(toDev, e)[i] = toDev[i]
        BY <1>1, <1>2, <3>1
      <4>. QED BY <1>1, <1>9, <3>1, <4>1 DEF IInv, PipeLinked
    <3>2. CASE i = Len(toDev) + 1
      <4>1. Append(toDev, e)[i] = e
        BY <1>1, <1>2, <3>2
      <4>2. Ahead(seq_out', seq_out') = 0
        BY <1>2, SeqModAssumption DEF Ahead, Wrap, Commands, SeqNum
      <4>. QED BY <1>1, <1>2, <1>5, <4>1, <4>2
    <3>. QED BY <1>1, <1>2, <3>1, <3>2
  <2>. QED BY <2>1, <2>2 DEF PipeLinked
<1>11. Ahead(seq_ack, seq_out)' = (sent - acked)'
  <2>1. Ahead(seq_ack, seq_out) = sent - acked
    BY DEF IInv, WindowInv
  <2>2. Ahead(seq_ack, Wrap(seq_out + 1)) = Ahead(seq_ack, seq_out) + 1
    BY <1>1, <1>3, <2>1, AheadOfNext
  <2>. QED BY <1>1, <2>1, <2>2
<1>12. acked' < sent' /\ sent' - acked' <= Window + timeouts + 1
  BY <1>1, <1>3
<1>13. ret.wanted < sent'
  BY <1>1 DEF IInv, RetInv, TypeOK
<1>. QED BY <1>7, <1>8, <1>10, <1>11, <1>12, <1>13

\* The head of a sorted queue comes before the rest of it.
LEMMA HeadFirst ==
  ASSUME NEW S, \A x \in S : x.id \in Nat,
         NEW w \in BOOLEAN, NEW q \in Seq(S), q # <<>>, Sorted(w, q)
  PROVE  /\ Head(q) = q[1] /\ Head(q) \in S /\ 1 \in 1 .. Len(q)
         /\ \A j \in 1 .. Len(Tail(q)) :
              Head(q).id + Steps(w, 1) <= Tail(q)[j].id
<1>1. /\ Len(q) \in Nat /\ Len(q) >= 1
      /\ Len(Tail(q)) = Len(q) - 1
      /\ \A i \in 1 .. Len(Tail(q)) : Tail(q)[i] = q[i + 1]
      /\ Head(q) = q[1] /\ Head(q) \in S /\ 1 \in 1 .. Len(q)
  OBVIOUS
<1>2. ASSUME NEW j \in 1 .. Len(Tail(q))
      PROVE  Head(q).id + Steps(w, 1) <= Tail(q)[j].id
  <2>1. /\ j + 1 \in 1 .. Len(q) /\ 1 < j + 1
        /\ (j + 1) - 1 = j
        /\ q[j + 1].id \in Nat /\ q[1].id \in Nat
        /\ j \in Nat /\ j >= 1
    BY <1>1
  <2>2. q[1].id + Steps(w, (j + 1) - 1) <= q[j + 1].id
    BY <1>1, <2>1 DEF Sorted
  <2>. QED BY <1>1, <2>1, <2>2 DEF Steps
<1>. QED BY <1>1, <1>2

\* What is linked stays linked when its queue loses its head or when an entry
\* moves on to the next queue.
LEMMA LinkedTail ==
  ASSUME NEW S, NEW q \in Seq(S), q # <<>>, Linked(q)
  PROVE  Linked(Tail(q))
<1>1. /\ Len(q) \in Nat
      /\ Len(Tail(q)) = Len(q) - 1
      /\ \A i \in 1 .. Len(Tail(q)) : Tail(q)[i] = q[i + 1]
  OBVIOUS
<1>2. \A i \in 1 .. Len(Tail(q)) : i + 1 \in 1 .. Len(q)
  BY <1>1
<1>. QED BY <1>1, <1>2 DEF Linked

\* An entry that moves on to the next queue keeps its link.
LEMMA LinkedMove ==
  ASSUME NEW S, NEW T, NEW p \in Seq(S), NEW q \in Seq(T), q # <<>>,
         NEW e \in S, e.id = Head(q).id, e.seq = Head(q).seq,
         Linked(p), Linked(q)
  PROVE  Linked(Append(p, e))
<1>1. /\ Len(p) \in Nat
      /\ Len(Append(p, e)) = Len(p) + 1
      /\ \A i \in 1 .. Len(p) : Append(p, e)[i] = p[i]
      /\ Append(p, e)[Len(p) + 1] = e
  OBVIOUS
<1>2. \A i \in 1 .. Len(Append(p, e)) : i \in 1 .. Len(p) \/ i = Len(p) + 1
  BY <1>1
<1>3. Head(q) = q[1] /\ 1 \in 1 .. Len(q)
  OBVIOUS
<1>4. /\ acked + Steps(wedged, 1) <= e.id
      /\ e.id <= sent
      /\ Ahead(e.seq, seq_out) = sent - e.id
  BY <1>3 DEF Linked
<1>. QED BY <1>1, <1>2, <1>4 DEF Linked

Pipe == PipeSorted /\ PipeOrdered /\ PipeLinked

Queues ==
  /\ toDev \in Seq(Commands) /\ cmdFifo \in Seq(Commands)
  /\ resFifo \in Seq(Acks) /\ toHost \in Seq(Acks)
  /\ wedged \in BOOLEAN
  /\ sent \in Nat /\ acked \in Nat
  /\ seq_out \in SeqNum /\ seq_ack \in SeqNum

\* A command is dropped by the network.
LEMMA LoseCommandPipe == IInv /\ LoseCommand => Pipe'
<1>. SUFFICES ASSUME IInv, LoseCommand PROVE Pipe'
  OBVIOUS
<1>1. Queues
  BY DEF IInv, TypeOK, Queues
<1>2. /\ toDev # <<>> /\ toDev' = Tail(toDev)
      /\ UNCHANGED <<toHost, resFifo, cmdFifo, wedged, sent, acked, seq_out>>
  BY DEF LoseCommand, hostVars, devVars
<1>3. Sorted(wedged, Tail(toDev))
  BY <1>1, <1>2, SortedTail, EntriesNumbered DEF IInv, PipeSorted, Queues
<1>4. /\ Before(wedged, toHost, Tail(toDev))
      /\ Before(wedged, resFifo, Tail(toDev))
      /\ Before(wedged, cmdFifo, Tail(toDev))
  BY <1>1, <1>2, BeforeTail DEF IInv, PipeOrdered, Queues
<1>5. Linked(Tail(toDev))
  BY <1>1, <1>2, LinkedTail DEF IInv, PipeLinked, Queues
<1>. QED BY <1>2, <1>3, <1>4, <1>5
         DEF IInv, Pipe, PipeSorted, PipeOrdered, PipeLinked, Linked

\* An acknowledgement is dropped by the network.
LEMMA LoseAckPipe == IInv /\ LoseAck => Pipe'
<1>. SUFFICES ASSUME IInv, LoseAck PROVE Pipe'
  OBVIOUS
<1>1. Queues
  BY DEF IInv, TypeOK, Queues
<1>2. /\ toHost # <<>> /\ toHost' = Tail(toHost)
      /\ UNCHANGED <<toDev, resFifo, cmdFifo, wedged, sent, acked, seq_out>>
  BY DEF LoseAck, hostVars, devVars
<1>3. Sorted(wedged, Tail(toHost))
  BY <1>1, <1>2, SortedTail, EntriesNumbered DEF IInv, PipeSorted, Queues
<1>4. /\ Before(wedged, Tail(toHost), resFifo)
      /\ Before(wedged, Tail(toHost), cmdFifo)
      /\ Before(wedged, Tail(toHost), toDev)
  BY <1>1, <1>2, BeforeTail DEF IInv, PipeOrdered, Queues
<1>5. Linked(Tail(toHost))
  BY <1>1, <1>2, LinkedTail DEF IInv, PipeLinked, Queues
<1>. QED BY <1>2, <1>3, <1>4, <1>5
         DEF IInv, Pipe, PipeSorted, PipeOrdered, PipeLinked, Linked

\* A command enters the command FIFO.
LEMMA StoreCmdPipe == IInv /\ StoreCmd => Pipe'
<1>. SUFFICES ASSUME IInv, StoreCmd PROVE Pipe'
  OBVIOUS
<1>. DEFINE e == Head(toDev)
<1>1. Queues
  BY DEF IInv, TypeOK, Queues
<1>2. /\ toDev # <<>> /\ toDev' = Tail(toDev)
      /\ cmdFifo' = Append(cmdFifo, e)
      /\ UNCHANGED <<toHost, resFifo, wedged, sent, acked, seq_out>>
  BY DEF StoreCmd, hostVars, histVars
<1>3. /\ e = toDev[1] /\ e \in Commands /\ 1 \in 1 .. Len(toDev)
      /\ \A j \in 1 .. Len(Tail(toDev)) :
           e.id + Steps(wedged, 1) <= Tail(toDev)[j].id
  BY <1>1, <1>2, HeadFirst, EntriesNumbered DEF IInv, PipeSorted, Queues
<1>4. PipeSorted'
  <2>1. Sorted(wedged, Tail(toDev))
    BY <1>1, <1>2, SortedTail, EntriesNumbered DEF IInv, PipeSorted, Queues
  <2>2. \A i \in 1 .. Len(cmdFifo) : cmdFifo[i].id + Steps(wedged, 1) <= e.id
    BY <1>3 DEF IInv, PipeOrdered, Before
  <2>3. Sorted(wedged, Append(cmdFifo, e))
    BY <1>1, <1>3, <2>2, SortedAppend, EntriesNumbered
       DEF IInv, PipeSorted, Queues
  <2>. QED BY <1>2, <2>1, <2>3 DEF IInv, PipeSorted
<1>5. PipeOrdered'
  <2>1. /\ Before(wedged, toHost, Tail(toDev))
        /\ Before(wedged, resFifo, Tail(toDev))
        /\ Before(wedged, cmdFifo, Tail(toDev))
    BY <1>1, <1>2, BeforeTail DEF IInv, PipeOrdered, Queues
  <2>2. Before(wedged, Append(cmdFifo, e), Tail(toDev))
    <3>1. cmdFifo \in Seq(Commands) /\ Tail(toDev) \in Seq(Commands)
      BY <1>1, <1>2 DEF Queues
    <3>. QED BY <1>1, <1>3, <2>1, <3>1, BeforeAppend DEF Queues
  <2>3. Before(wedged, toHost, Append(cmdFifo, e))
    <3>1. \A i \in 1 .. Len(toHost) : toHost[i].id + Steps(wedged, 1) <= e.id
      BY <1>3 DEF IInv, PipeOrdered, Before
    <3>. QED BY <1>1, <1>3, <3>1, BeforeAppend DEF IInv, PipeOrdered, Queues
  <2>4. Before(wedged, resFifo, Append(cmdFifo, e))
    <3>1. \A i \in 1 .. Len(resFifo) : resFifo[i].id + Steps(wedged, 1) <= e.id
      BY <1>3 DEF IInv, PipeOrdered, Before
    <3>. QED BY <1>1, <1>3, <3>1, BeforeAppend DEF IInv, PipeOrdered, Queues
  <2>. QED BY <1>2, <2>1, <2>2, <2>3, <2>4 DEF IInv, PipeOrdered
<1>6. PipeLinked'
  <2>1. Linked(Tail(toDev))
    BY <1>1, <1>2, LinkedTail DEF IInv, PipeLinked, Queues
  <2>2. Linked(Append(cmdFifo, e))
    BY <1>1, <1>2, <1>3, LinkedMove DEF IInv, PipeLinked, Queues
  <2>. QED BY <1>2, <2>1, <2>2 DEF IInv, PipeLinked, Linked
<1>. QED BY <1>4, <1>5, <1>6 DEF Pipe

\* A result leaves the FPGA.
LEMMA WriteResultPipe == IInv /\ WriteResult => Pipe'
<1>. SUFFICES ASSUME IInv, WriteResult PROVE Pipe'
  OBVIOUS
<1>. DEFINE e == Head(resFifo)
<1>1. Queues
  BY DEF IInv, TypeOK, Queues
<1>2. /\ resFifo # <<>> /\ resFifo' = Tail(resFifo)
      /\ toHost' = Append(toHost, e) \/ toHost' = toHost
      /\ UNCHANGED <<toDev, cmdFifo, wedged, sent, acked, seq_out>>
  BY DEF WriteResult, hostVars, histVars
<1>3. /\ e = resFifo[1] /\ e \in Acks /\ 1 \in 1 .. Len(resFifo)
      /\ \A j \in 1 .. Len(Tail(resFifo)) :
           e.id + Steps(wedged, 1) <= Tail(resFifo)[j].id
  BY <1>1, <1>2, HeadFirst, EntriesNumbered DEF IInv, PipeSorted, Queues
<1>4. PipeSorted'
  <2>1. Sorted(wedged, Tail(resFifo))
    BY <1>1, <1>2, SortedTail, EntriesNumbered DEF IInv, PipeSorted, Queues
  <2>2. \A i \in 1 .. Len(toHost) : toHost[i].id + Steps(wedged, 1) <= e.id
    BY <1>3 DEF IInv, PipeOrdered, Before
  <2>3. Sorted(wedged, Append(toHost, e))
    BY <1>1, <1>3, <2>2, SortedAppend, EntriesNumbered
       DEF IInv, PipeSorted, Queues
  <2>. QED BY <1>2, <2>1, <2>3 DEF IInv, PipeSorted
<1>5. PipeOrdered'
  <2>1. /\ Before(wedged, toHost, Tail(resFifo))
        /\ Before(wedged, Tail(resFifo), cmdFifo)
        /\ Before(wedged, Tail(resFifo), toDev)
    BY <1>1, <1>2, BeforeTail DEF IInv, PipeOrdered, Queues
  <2>2. Before(wedged, Append(toHost, e), Tail(resFifo))
    <3>1. toHost \in Seq(Acks) /\ Tail(resFifo) \in Seq(Acks)
      BY <1>1, <1>2 DEF Queues
    <3>. QED BY <1>1, <1>3, <2>1, <3>1, BeforeAppend DEF Queues
  <2>3. Before(wedged, Append(toHost, e), cmdFifo)
    <3>1. \A j \in 1 .. Len(cmdFifo) : e.id + Steps(wedged, 1) <= cmdFifo[j].id
      BY <1>3 DEF IInv, PipeOrdered, Before
    <3>. QED BY <1>1, <1>3, <3>1, BeforeAppend DEF IInv, PipeOrdered, Queues
  <2>4. Before(wedged, Append(toHost, e), toDev)
    <3>1. \A j \in 1 .. Len(toDev) : e.id + Steps(wedged, 1) <= toDev[j].id
      BY <1>3 DEF IInv, PipeOrdered, Before
    <3>. QED BY <1>1, <1>3, <3>1, BeforeAppend DEF IInv, PipeOrdered, Queues
  <2>. QED BY <1>2, <2>1, <2>2, <2>3, <2>4 DEF IInv, PipeOrdered
<1>6. PipeLinked'
  <2>1. Linked(Tail(resFifo))
    BY <1>1, <1>2, LinkedTail DEF IInv, PipeLinked, Queues
  <2>2. Linked(Append(toHost, e))
    BY <1>1, <1>2, <1>3, LinkedMove DEF IInv, PipeLinked, Queues
  <2>. QED BY <1>2, <2>1, <2>2 DEF IInv, PipeLinked, Linked
<1>. QED BY <1>4, <1>5, <1>6 DEF Pipe

\* A wedged FIFO hands out its last command without losing it: the copy may
\* follow itself, ids no longer grow.
LEMMA ActionPipe == IInv /\ Action => Pipe'
<1>. SUFFICES ASSUME IInv, Action PROVE Pipe'
  OBVIOUS
<1>. DEFINE c == Head(cmdFifo)
            e == [id |-> c.id, seq |-> c.seq]
<1>1. Queues
  BY DEF IInv, TypeOK, Queues
<1>2. /\ cmdFifo # <<>>
      /\ resFifo' = Append(resFifo, e)
      /\ UNCHANGED <<toDev, toHost, wedged, sent, acked, seq_out>>
      /\ \/ cmdFifo' = Tail(cmdFifo)
         \/ wedged /\ Len(cmdFifo) = 1 /\ cmdFifo' = cmdFifo
  BY DEF Action, hostVars
<1>3. /\ c = cmdFifo[1] /\ c \in Commands /\ 1 \in 1 .. Len(cmdFifo)
      /\ \A j \in 1 .. Len(Tail(cmdFifo)) :
           c.id + Steps(wedged, 1) <= Tail(cmdFifo)[j].id
  BY <1>1, <1>2, HeadFirst, EntriesNumbered DEF IInv, PipeSorted, Queues
<1>4. e \in Acks /\ e.id = c.id /\ e.seq = c.seq /\ c.id \in Nat
  <2>1. c.id \in Nat /\ c.seq \in SeqNum
    BY <1>3, EntriesNumbered
  <2>. QED BY <2>1 DEF Acks
<1>5. cmdFifo' \in Seq(Commands)
  <2>1. cmdFifo \in Seq(Commands) /\ Tail(cmdFifo) \in Seq(Commands)
    BY <1>1, <1>2 DEF Queues
  <2>. QED BY <1>2, <2>1
<1>6. \A j \in 1 .. Len(cmdFifo') : e.id + Steps(wedged, 1) <= cmdFifo'[j].id
  <2>1. CASE cmdFifo' = Tail(cmdFifo)
    BY <1>3, <1>4, <2>1
  <2>2. CASE wedged /\ Len(cmdFifo) = 1 /\ cmdFifo' = cmdFifo
    BY <1>3, <1>4, <2>2 DEF Steps
  <2>. QED BY <1>2, <2>1, <2>2
<1>7. PipeSorted'
  <2>1. Sorted(wedged, cmdFifo')
    BY <1>1, <1>2, SortedTail, EntriesNumbered DEF IInv, PipeSorted, Queues
  <2>2. \A i \in 1 .. Len(resFifo) : resFifo[i].id + Steps(wedged, 1) <= e.id
    BY <1>3, <1>4 DEF IInv, PipeOrdered, Before
  <2>3. Sorted(wedged, Append(resFifo, e))
    BY <1>1, <1>4, <2>2, SortedAppend, EntriesNumbered
       DEF IInv, PipeSorted, Queues
  <2>. QED BY <1>2, <2>1, <2>3 DEF IInv, PipeSorted
<1>8. PipeOrdered'
  <2>1. /\ Before(wedged, toHost, cmdFifo')
        /\ Before(wedged, resFifo, cmdFifo')
        /\ Before(wedged, cmdFifo', toDev)
    BY <1>1, <1>2, BeforeTail DEF IInv, PipeOrdered, Queues
  <2>2. Before(wedged, Append(resFifo, e), cmdFifo')
    BY <1>1, <1>4, <1>5, <1>6, <2>1, BeforeAppend DEF Queues
  <2>3. Before(wedged, toHost, Append(resFifo, e))
    <3>1. \A i \in 1 .. Len(toHost) : toHost[i].id + Steps(wedged, 1) <= e.id
      BY <1>3, <1>4 DEF IInv, PipeOrdered, Before
    <3>. QED BY <1>1, <1>4, <3>1, BeforeAppend DEF IInv, PipeOrdered, Queues
  <2>4. Before(wedged, Append(resFifo, e), toDev)
    <3>1. \A j \in 1 .. Len(toDev) : e.id + Steps(wedged, 1) <= toDev[j].id
      BY <1>3, <1>4 DEF IInv, PipeOrdered, Before
    <3>. QED BY <1>1, <1>4, <3>1, BeforeAppend DEF IInv, PipeOrdered, Queues
  <2>. QED BY <1>2, <2>1, <2>2, <2>3, <2>4 DEF IInv, PipeOrdered
<1>9. PipeLinked'
  <2>1. Linked(Tail(cmdFifo)) /\ Linked(cmdFifo)
    BY <1>1, <1>2, LinkedTail DEF IInv, PipeLinked, Queues
  <2>2. Linked(Append(resFifo, e))
    BY <1>1, <1>2, <1>3, <1>4, LinkedMove DEF IInv, PipeLinked, Queues
  <2>. QED BY <1>2, <2>1, <2>2 DEF IInv, PipeLinked, Linked
<1>. QED BY <1>7, <1>8, <1>9 DEF Pipe

\* Reading an acknowledgement: everything behind it in the pipeline is newer.
LEMMA RecvAckPipe == IInv /\ RecvAck => Pipe'
<1>. SUFFICES ASSUME IInv, RecvAck PROVE Pipe'
  OBVIOUS
<1>. DEFINE e == Head(toHost)
<1>1. Queues
  BY DEF IInv, TypeOK, Queues
<1>2. /\ toHost # <<>> /\ toHost' = Tail(toHost)
      /\ acked' = e.id
      /\ UNCHANGED <<toDev, cmdFifo, resFifo, wedged, sent, seq_out>>
  BY DEF RecvAck, devVars
<1>3. /\ e = toHost[1] /\ e \in Acks /\ 1 \in 1 .. Len(toHost)
      /\ \A j \in 1 .. Len(Tail(toHost)) :
           e.id + Steps(wedged, 1) <= Tail(toHost)[j].id
  BY <1>1, <1>2, HeadFirst, EntriesNumbered DEF IInv, PipeSorted, Queues
<1>4. PipeSorted'
  <2>1. Sorted(wedged, Tail(toHost))
    BY <1>1, <1>2, SortedTail, EntriesNumbered DEF IInv, PipeSorted, Queues
  <2>. QED BY <1>2, <2>1 DEF IInv, PipeSorted
<1>5. PipeOrdered'
  <2>1. /\ Before(wedged, Tail(toHost), resFifo)
        /\ Before(wedged, Tail(toHost), cmdFifo)
        /\ Before(wedged, Tail(toHost), toDev)
    BY <1>1, <1>2, BeforeTail DEF IInv, PipeOrdered, Queues
  <2>. QED BY <1>2, <2>1 DEF IInv, PipeOrdered
<1>6. PipeLinked'
  <2>1. Linked(Tail(toHost))
    BY <1>1, <1>2, LinkedTail DEF IInv, PipeLinked, Queues
  <2>2. Linked(toHost)'
    BY <1>2, <1>3, <2>1 DEF Linked
  <2>3. Linked(resFifo)'
    <3>1. \A j \in 1 .. Len(resFifo) : e.id + Steps(wedged, 1) <= resFifo[j].id
      BY <1>3 DEF IInv, PipeOrdered, Before
    <3>. QED BY <1>2, <3>1 DEF IInv, PipeLinked, Linked
  <2>4. Linked(cmdFifo)'
    <3>1. \A j \in 1 .. Len(cmdFifo) : e.id + Steps(wedged, 1) <= cmdFifo[j].id
      BY <1>3 DEF IInv, PipeOrdered, Before
    <3>. QED BY <1>2, <3>1 DEF IInv, PipeLinked, Linked
  <2>5. Linked(toDev)'
    <3>1. \A j \in 1 .. Len(toDev) : e.id + Steps(wedged, 1) <= toDev[j].id
      BY <1>3 DEF IInv, PipeOrdered, Before
    <3>. QED BY <1>2, <3>1 DEF IInv, PipeLinked, Linked
  <2>. QED BY <2>2, <2>3, <2>4, <2>5 DEF PipeLinked
<1>. QED BY <1>4, <1>5, <1>6 DEF Pipe

\* A queue that is strictly sorted is sorted.
LEMMA Weaken ==
  ASSUME NEW S, NEW T, \A x \in S : x.id \in Nat, \A x \in T : x.id \in Nat,
         NEW p \in Seq(S), NEW q \in Seq(T)
  PROVE  /\ Sorted(FALSE, p) => Sorted(TRUE, p)
         /\ Before(FALSE, p, q) => Before(TRUE, p, q)
<1>1. /\ \A i \in 1 .. Len(p) : p[i].id \in Nat
      /\ \A i \in 1 .. Len(q) : q[i].id \in Nat
  OBVIOUS
<1>2. ASSUME Sorted(FALSE, p) PROVE Sorted(TRUE, p)
  BY <1>1, <1>2 DEF Sorted, Steps
<1>3. ASSUME Before(FALSE, p, q) PROVE Before(TRUE, p, q)
  BY <1>1, <1>3 DEF Before, Steps
<1>. QED BY <1>2, <1>3

\* A write to the full command FIFO keeps the first command or two and puts
\* the new one behind them.
LEMMA StoreCmdFullPipe == IInv /\ StoreCmdFull => Pipe'
<1>. SUFFICES ASSUME IInv, StoreCmdFull PROVE Pipe'
  OBVIOUS
<1>. DEFINE e == Head(toDev)
<1>1. Queues
  BY DEF IInv, TypeOK, Queues
<1>2. /\ toDev # <<>> /\ toDev' = Tail(toDev)
      /\ wedged = FALSE /\ wedged' = TRUE
      /\ Len(cmdFifo) = FifoDepth
      /\ UNCHANGED <<toHost, resFifo, sent, acked, seq_out>>
  BY <1>1 DEF StoreCmdFull, hostVars, histVars, Queues
<1>3. PICK n \in 1 .. 2 : cmdFifo' = Append(SubSeq(cmdFifo, 1, n), e)
  BY DEF StoreCmdFull
<1>. DEFINE kept == SubSeq(cmdFifo, 1, n)
<1>4. /\ kept \in Seq(Commands)
      /\ Len(kept) = n
      /\ \A i \in 1 .. Len(kept) : kept[i] = cmdFifo[i] /\ i \in 1 .. Len(cmdFifo)
  BY <1>1, <1>2, <1>3, FifoDepthAssumption DEF Queues
<1>5. /\ e = toDev[1] /\ e \in Commands /\ 1 \in 1 .. Len(toDev)
      /\ \A j \in 1 .. Len(Tail(toDev)) :
           e.id + Steps(FALSE, 1) <= Tail(toDev)[j].id
  BY <1>1, <1>2, HeadFirst, EntriesNumbered DEF IInv, PipeSorted, Queues
<1>6. Tail(toDev) \in Seq(Commands)
  BY <1>1, <1>2 DEF Queues
<1>7. Sorted(TRUE, toHost) /\ Sorted(TRUE, resFifo)
  BY <1>1, <1>2, Weaken, EntriesNumbered DEF IInv, PipeSorted, Queues
<1>8. Sorted(TRUE, Tail(toDev))
  <2>1. Sorted(FALSE, Tail(toDev))
    BY <1>1, <1>2, SortedTail, EntriesNumbered DEF IInv, PipeSorted, Queues
  <2>. QED BY <1>6, <2>1, Weaken, EntriesNumbered
<1>9. Sorted(FALSE, kept)
  BY <1>2, <1>4 DEF IInv, PipeSorted, Sorted
<1>10. \A i \in 1 .. Len(kept) : kept[i].id + Steps(FALSE, 1) <= e.id
  BY <1>2, <1>4, <1>5 DEF IInv, PipeOrdered, Before
<1>11. Sorted(TRUE, Append(kept, e))
  <2>1. Sorted(FALSE, Append(kept, e))
    <3>. HIDE DEF kept, e
    <3>. QED BY <1>4, <1>5, <1>9, <1>10, SortedAppend, EntriesNumbered
  <2>2. Append(kept, e) \in Seq(Commands)
    BY <1>4, <1>5
  <2>. QED BY <2>1, <2>2, Weaken, EntriesNumbered
<1>12. Before(TRUE, toHost, resFifo)
  BY <1>1, <1>2, Weaken, EntriesNumbered DEF IInv, PipeOrdered, Queues
<1>13. /\ Before(FALSE, toHost, Tail(toDev))
       /\ Before(FALSE, resFifo, Tail(toDev))
       /\ Before(FALSE, cmdFifo, Tail(toDev))
  BY <1>1, <1>2, BeforeTail DEF IInv, PipeOrdered, Queues
<1>14. Before(TRUE, toHost, Tail(toDev)) /\ Before(TRUE, resFifo, Tail(toDev))
  BY <1>1, <1>6, <1>13, Weaken, EntriesNumbered DEF Queues
<1>15. ASSUME NEW q \in Seq(Acks), Before(FALSE, q, cmdFifo),
              Before(FALSE, q, toDev)
       PROVE  Before(TRUE, q, Append(kept, e))
  <2>1. Before(FALSE, q, kept)
    BY <1>4, <1>15 DEF Before
  <2>2. \A i \in 1 .. Len(q) : q[i].id + Steps(FALSE, 1) <= e.id
    BY <1>5, <1>15 DEF Before
  <2>3. Before(FALSE, q, Append(kept, e))
    <3>. HIDE DEF kept, e
    <3>. QED BY <1>4, <1>5, <2>1, <2>2, BeforeAppend
  <2>4. Append(kept, e) \in Seq(Commands)
    BY <1>4, <1>5
  <2>. QED BY <2>3, <2>4, Weaken, EntriesNumbered
<1>16. Before(TRUE, Append(kept, e), Tail(toDev))
  <2>1. Before(FALSE, kept, Tail(toDev))
    BY <1>4, <1>13 DEF Before
  <2>2. Before(FALSE, Append(kept, e), Tail(toDev))
    <3>. HIDE DEF kept
    <3>. QED BY <1>4, <1>5, <1>6, <2>1, BeforeAppend
  <2>3. Append(kept, e) \in Seq(Commands)
    BY <1>4, <1>5
  <2>. QED BY <1>6, <2>2, <2>3, Weaken, EntriesNumbered
<1>17. PipeSorted'
  BY <1>2, <1>3, <1>7, <1>8, <1>11 DEF PipeSorted
<1>18. PipeOrdered'
  <2>1. Before(TRUE, toHost, Append(kept, e))
    BY <1>1, <1>2, <1>15 DEF IInv, PipeOrdered, Queues
  <2>2. Before(TRUE, resFifo, Append(kept, e))
    BY <1>1, <1>2, <1>15 DEF IInv, PipeOrdered, Queues
  <2>. QED BY <1>2, <1>3, <1>12, <1>14, <1>16, <2>1, <2>2 DEF PipeOrdered
<1>19. PipeLinked'
  <2>1. Linked(kept)
    BY <1>4 DEF IInv, PipeLinked, Linked
  <2>2. Linked(Append(kept, e))
    <3>1. Linked(toDev) /\ toDev \in Seq(Commands)
      BY <1>1 DEF IInv, PipeLinked, Queues
    <3>. HIDE DEF kept
    <3>. QED BY <1>2, <1>4, <1>5, <2>1, <3>1, LinkedMove
  <2>3. Linked(Tail(toDev))
    BY <1>1, <1>2, LinkedTail DEF IInv, PipeLinked, Queues
  <2>4. ASSUME NEW q, q \in Seq(Commands) \/ q \in Seq(Acks), Linked(q)
        PROVE  \A i \in 1 .. Len(q) :
                 /\ acked + Steps(TRUE, 1) <= q[i].id
                 /\ q[i].id <= sent
                 /\ Ahead(q[i].seq, seq_out) = sent - q[i].id
    <3>. SUFFICES ASSUME NEW i \in 1 .. Len(q)
                  PROVE  acked + Steps(TRUE, 1) <= q[i].id
      BY <2>4 DEF Linked
    <3>1. q[i] \in Commands \/ q[i] \in Acks
      BY <2>4
    <3>2. q[i].id \in Nat
      BY <3>1, EntriesNumbered
    <3>3. acked + Steps(FALSE, 1) <= q[i].id
      BY <1>2, <2>4 DEF Linked
    <3>. QED BY <1>1, <3>2, <3>3 DEF Steps, Queues
  <2>5. Append(kept, e) \in Seq(Commands)
    BY <1>4, <1>5
  <2>6. Linked(toHost)' /\ Linked(resFifo)'
    BY <1>1, <1>2, <2>4 DEF IInv, PipeLinked, Queues, Linked
  <2>7. Linked(cmdFifo)'
    <3>. HIDE DEF kept
    <3>. QED BY <1>2, <1>3, <2>2, <2>4, <2>5 DEF Linked, kept
  <2>8. Linked(toDev)'
    BY <1>2, <1>6, <2>3, <2>4 DEF Linked
  <2>. QED BY <2>6, <2>7, <2>8 DEF PipeLinked
<1>. QED BY <1>17, <1>18, <1>19 DEF Pipe

-----------------------------------------------------------------------------
(* Safety.                                                                 *)

\* A poke or an SPI word whose wait is over leaves at most a window
\* unacknowledged.
LEMMA WindowOpen ==
  ASSUME IInv, pc \in {"ctrl", "data"}, ~Waiting
  PROVE  sent - acked <= Window + timeouts
<1>1. /\ ~WraparoundLt(seq_ack, Wrap(seq_out - Window))
      /\ seq_ack \in SeqNum /\ seq_out \in SeqNum
      /\ Ahead(seq_ack, seq_out) = sent - acked
      /\ timeouts \in Nat /\ timeouts <= MaxTimeouts
      /\ sent \in Nat /\ acked \in Nat
      /\ sent - acked <= Window + timeouts + 1
  BY BoundAssumption DEF Waiting, Waits, SeqToAck, IInv, TypeOK, WindowInv
<1>2. Ahead(seq_ack, seq_out) <= Window + 1 + MaxTimeouts
  BY <1>1, WindowAssumption, BoundAssumption
<1>3. Ahead(seq_ack, seq_out) <= Window
  BY <1>1, <1>2, WaitEnds
<1>. QED BY <1>1, <1>3, WindowAssumption

\* A readback never leaves wait_for_ack without a match.
LEMMA ReadbackWaits ==
  ASSUME IInv, pc = "readback"
  PROVE  Waiting
<1>1. /\ seq_ack \in SeqNum /\ seq_out \in SeqNum
      /\ Ahead(seq_ack, seq_out) = sent - acked
      /\ timeouts \in Nat /\ timeouts <= MaxTimeouts
      /\ sent \in Nat /\ acked \in Nat /\ acked < sent
      /\ sent - acked <= Window + timeouts + 1
  BY BoundAssumption DEF IInv, TypeOK, WindowInv
<1>2. /\ Ahead(seq_ack, seq_out) <= Window + 1 + MaxTimeouts
      /\ Ahead(seq_ack, seq_out) # 0
  BY <1>1, WindowAssumption, BoundAssumption
<1>3. WraparoundLt(seq_ack, seq_out)
  BY <1>1, <1>2, WaitEnds
<1>. QED BY <1>3 DEF Waiting, Waits, SeqToAck

\* The window invariant after reading an acknowledgement.
LEMMA RecvAckWindow ==
  IInv /\ RecvAck => WindowInv' /\ RetInv' /\ ReadbackIsOwn'
<1>. SUFFICES ASSUME IInv, RecvAck
              PROVE  WindowInv' /\ RetInv' /\ ReadbackIsOwn'
  OBVIOUS
<1>. DEFINE e == Head(toHost)
<1>1. /\ sent \in Nat /\ acked \in Nat /\ timeouts \in Nat /\ Window \in Nat
      /\ wedged \in BOOLEAN
      /\ seq_out \in SeqNum
      /\ toHost \in Seq(Acks) /\ toHost # <<>>
      /\ ret.wanted \in Nat
      /\ pc \in Waits
      /\ sent - acked <= Window + timeouts + 1
  <2>1. /\ sent \in Nat /\ acked \in Nat /\ timeouts \in Nat /\ Window \in Nat
        /\ wedged \in BOOLEAN
        /\ seq_out \in SeqNum
        /\ toHost \in Seq(Acks)
        /\ ret.wanted \in Nat
    BY BoundAssumption, WindowAssumption DEF IInv, TypeOK
  <2>2. pc \in Waits /\ toHost # <<>>
    BY DEF RecvAck, Waiting
  <2>3. sent - acked <= Window + timeouts + 1
    BY <2>1, <2>2 DEF IInv, WindowInv, Waits
  <2>. QED BY <2>1, <2>2, <2>3
<1>2. e = toHost[1] /\ 1 \in 1 .. Len(toHost) /\ e \in Acks
  BY <1>1
<1>3. e.id \in Nat /\ e.seq \in SeqNum
  BY <1>2, EntriesNumbered
<1>4. /\ acked + Steps(wedged, 1) <= e.id
      /\ e.id <= sent
      /\ Ahead(e.seq, seq_out) = sent - e.id
  BY <1>2 DEF IInv, PipeLinked, Linked
<1>5. acked <= e.id
  BY <1>1, <1>3, <1>4 DEF Steps
<1>6. /\ acked' = e.id /\ seq_ack' = e.seq
      /\ UNCHANGED <<sent, seq_out, timeouts>>
  BY DEF RecvAck
<1>7. e.seq = seq_out <=> e.id = sent
  BY <1>1, <1>3, <1>4, SeqModAssumption DEF Ahead, Wrap, SeqNum
<1>8. CASE pc = "readback" /\ e.seq = seq_out
  <2>1. pc' = "idle" /\ ret' = [wanted |-> sent, got |-> e.id]
    BY <1>8 DEF RecvAck, SeqToAck
  <2>. QED BY <1>1, <1>3, <1>4, <1>6, <1>7, <1>8, <2>1
           DEF WindowInv, RetInv, ReadbackIsOwn
<1>9. CASE ~(pc = "readback" /\ e.seq = seq_out)
  <2>1. pc' = pc /\ ret' = ret
    BY <1>9 DEF RecvAck, SeqToAck
  <2>2. WindowInv'
    BY <1>1, <1>3, <1>4, <1>5, <1>6, <1>7, <1>9, <2>1 DEF WindowInv, Waits
  <2>3. RetInv' /\ ReadbackIsOwn'
    BY <1>1, <1>3, <1>4, <1>5, <1>6, <2>1 DEF IInv, RetInv, ReadbackIsOwn
  <2>. QED BY <2>2, <2>3
<1>. QED BY <1>8, <1>9

\* A write to the full command FIFO takes more unacknowledged commands than
\* the window allows.
LEMMA OverflowNeedsTimeout ==
  IInv /\ StoreCmdFull => Window + 1 + timeouts > FifoDepth
<1>. SUFFICES ASSUME IInv, StoreCmdFull
              PROVE  Window + 1 + timeouts > FifoDepth
  OBVIOUS
<1>1. /\ sent \in Nat /\ acked \in Nat /\ timeouts \in Nat
      /\ Window \in Nat /\ FifoDepth \in Nat /\ FifoDepth >= 2
      /\ wedged = FALSE
      /\ cmdFifo \in Seq(Commands) /\ toDev \in Seq(Commands)
      /\ Len(cmdFifo) = FifoDepth /\ toDev # <<>>
      /\ sent - acked <= Window + timeouts + 1
  BY BoundAssumption, WindowAssumption, FifoDepthAssumption
     DEF IInv, TypeOK, WindowInv, StoreCmdFull
<1>2. /\ 1 \in 1 .. Len(cmdFifo) /\ FifoDepth \in 1 .. Len(cmdFifo)
      /\ 1 \in 1 .. Len(toDev)
      /\ cmdFifo[1] \in Commands /\ cmdFifo[FifoDepth] \in Commands
      /\ toDev[1] \in Commands
  BY <1>1
<1>3. /\ cmdFifo[1].id \in Nat /\ cmdFifo[FifoDepth].id \in Nat
      /\ toDev[1].id \in Nat
  BY <1>2, EntriesNumbered
<1>4. acked + Steps(wedged, 1) <= cmdFifo[1].id
  BY <1>2 DEF IInv, PipeLinked, Linked
<1>5. cmdFifo[1].id + Steps(wedged, FifoDepth - 1) <= cmdFifo[FifoDepth].id
  BY <1>1, <1>2 DEF IInv, PipeSorted, Sorted
<1>6. cmdFifo[FifoDepth].id + Steps(wedged, 1) <= toDev[1].id
  BY <1>2 DEF IInv, PipeOrdered, Before
<1>7. toDev[1].id <= sent
  BY <1>2 DEF IInv, PipeLinked, Linked
<1>8. Steps(wedged, 1) = 1 /\ Steps(wedged, FifoDepth - 1) = FifoDepth - 1
  BY <1>1 DEF Steps
<1>9. /\ sent \in Nat /\ acked \in Nat /\ timeouts \in Nat
      /\ Window \in Nat /\ FifoDepth \in Nat
      /\ sent - acked <= Window + timeouts + 1
  BY <1>1
<1>10. /\ acked + 1 <= cmdFifo[1].id
       /\ cmdFifo[1].id + (FifoDepth - 1) <= cmdFifo[FifoDepth].id
       /\ cmdFifo[FifoDepth].id + 1 <= toDev[1].id
  BY <1>4, <1>5, <1>6, <1>8
<1>. QED BY <1>3, <1>7, <1>9, <1>10

\* The inductive invariant holds at first.
LEMMA InitIInv == Init => IInv
<1>. SUFFICES ASSUME Init PROVE IInv
  OBVIOUS
<1>1. TypeOK
  BY TypeInit
<1>2. PipeSorted /\ PipeOrdered /\ PipeLinked
  BY DEF Init, PipeSorted, PipeOrdered, PipeLinked, Sorted, Before, Linked
<1>3. WindowInv /\ RetInv /\ ReadbackIsOwn
  BY WindowAssumption, SeqModAssumption
     DEF Init, WindowInv, RetInv, ReadbackIsOwn, Ahead, Wrap
<1>4. CommandFifoNeverOverflows
  BY DEF Init, CommandFifoNeverOverflows
<1>. QED BY <1>1, <1>2, <1>3, <1>4 DEF IInv

\* A step that sends a command and ends in a wait keeps the invariant.
LEMMA SendStep ==
  ASSUME IInv, TypeOK', NEW op \in Ops, NEW word \in CtrlWords \cup {0},
         SendPkt(op, word), sent - acked <= Window + timeouts,
         UNCHANGED <<seq_ack, acked, wedged, toHost, resFifo, cmdFifo, ret,
                     timeouts>>,
         pc' \in Waits
  PROVE  IInv'
<1>1. /\ PipeSorted' /\ PipeOrdered' /\ PipeLinked'
      /\ acked' < sent'
      /\ Ahead(seq_ack, seq_out)' = (sent - acked)'
      /\ sent' - acked' <= Window + timeouts + 1
      /\ ret.wanted < sent'
  BY SendPktPipe
<1>2. /\ sent' \in Nat /\ acked' \in Nat /\ ret'.wanted \in Nat
      /\ timeouts' \in Nat /\ Window \in Nat /\ timeouts' = timeouts
  BY BoundAssumption, WindowAssumption DEF TypeOK
<1>3. WindowInv'
  <2>1. pc' # "idle"
    BY DEF Waits
  <2>2. acked' <= sent' /\ acked' < sent'
    BY <1>1, <1>2
  <2>3. sent' - acked' <= Window + timeouts' + 1
    BY <1>1, <1>2
  <2>. QED BY <1>1, <2>1, <2>2, <2>3 DEF WindowInv
<1>4. RetInv'
  BY <1>1, <1>2 DEF RetInv
<1>5. CommandFifoNeverOverflows' /\ ReadbackIsOwn'
  BY DEF IInv, CommandFifoNeverOverflows, ReadbackIsOwn
<1>. QED BY <1>1, <1>3, <1>4, <1>5 DEF IInv

\* Every step keeps the inductive invariant.
LEMMA NextIInv == IInv /\ [Next]_vars => IInv'
<1>. SUFFICES ASSUME IInv, [Next]_vars PROVE IInv'
  OBVIOUS
<1>. USE DEF vars, hostVars, devVars, histVars
<1>1. TypeOK'
  BY TypeStep DEF IInv
<1>2. /\ sent \in Nat /\ acked \in Nat /\ timeouts \in Nat /\ Window \in Nat
      /\ FifoDepth \in Nat /\ acked <= sent
  BY BoundAssumption, WindowAssumption, FifoDepthAssumption
     DEF IInv, TypeOK, WindowInv
<1>3. pc = "idle" => sent - acked <= Window + timeouts
  BY <1>2 DEF IInv, WindowInv
<1>4. CASE Poke32
  <2>1. SendPkt("poke", 0) /\ "poke" \in Ops /\ pc' \in Waits
    BY <1>4 DEF Poke32, Ops, Waits
  <2>. QED BY <1>1, <1>3, <1>4, <2>1, SendStep DEF Poke32
<1>5. CASE Peek32
  <2>1. SendPkt("peek", 0) /\ "peek" \in Ops /\ pc' \in Waits
    BY <1>5 DEF Peek32, Ops, Waits
  <2>. QED BY <1>1, <1>3, <1>5, <2>1, SendStep DEF Peek32
<1>6. ASSUME NEW word \in CtrlWords, NEW readback \in BOOLEAN,
             TransactSpi(word, readback)
      PROVE  IInv'
  <2>1. PICK op \in Ops : SendPkt(op, word) /\ pc' \in Waits
    BY <1>6 DEF TransactSpi, Ops, Waits
  <2>. QED BY <1>1, <1>3, <1>6, <2>1, SendStep DEF TransactSpi
<1>7. CASE RecvAck
  <2>1. Pipe' /\ WindowInv' /\ RetInv' /\ ReadbackIsOwn'
    BY <1>7, RecvAckPipe, RecvAckWindow
  <2>2. CommandFifoNeverOverflows'
    BY <1>7 DEF RecvAck, IInv, CommandFifoNeverOverflows
  <2>. QED BY <1>1, <2>1, <2>2 DEF IInv, Pipe
<1>8. CASE AckTimeout
  <2>1. PipeSorted' /\ PipeOrdered' /\ PipeLinked'
    BY <1>8 DEF AckTimeout, IInv, PipeSorted, PipeOrdered, PipeLinked, Linked
  <2>2. WindowInv' /\ RetInv'
    BY <1>2, <1>8 DEF AckTimeout, Waiting, Waits, IInv, WindowInv, RetInv
  <2>3. CommandFifoNeverOverflows' /\ ReadbackIsOwn'
    BY <1>2, <1>8
       DEF AckTimeout, IInv, CommandFifoNeverOverflows, ReadbackIsOwn
  <2>. QED BY <1>1, <2>1, <2>2, <2>3 DEF IInv
<1>9. CASE CtrlWordSent
  <2>1. sent - acked <= Window + timeouts
    BY <1>9, WindowOpen DEF CtrlWordSent
  <2>2. /\ SendPkt("spi_data", call.word) /\ "spi_data" \in Ops
        /\ pc' \in Waits /\ call.word \in CtrlWords \cup {0}
    BY <1>9 DEF CtrlWordSent, Ops, Waits, IInv, TypeOK, Calls
  <2>. QED BY <1>1, <1>9, <2>1, <2>2, SendStep DEF CtrlWordSent
<1>10. CASE CtrlWordSentNoBuff
  <2>1. sent - acked <= Window + timeouts
    BY <1>10, WindowOpen DEF CtrlWordSentNoBuff
  <2>2. PipeSorted' /\ PipeOrdered' /\ PipeLinked'
    BY <1>10 DEF CtrlWordSentNoBuff, IInv, PipeSorted, PipeOrdered, PipeLinked,
                 Linked
  <2>3. WindowInv' /\ RetInv'
    BY <1>2, <1>10, <2>1 DEF CtrlWordSentNoBuff, IInv, WindowInv, RetInv
  <2>4. CommandFifoNeverOverflows' /\ ReadbackIsOwn'
    BY <1>10
       DEF CtrlWordSentNoBuff, IInv, CommandFifoNeverOverflows, ReadbackIsOwn
  <2>. QED BY <1>1, <2>2, <2>3, <2>4 DEF IInv
<1>11. CASE SpiReadback
  <2>1. sent - acked <= Window + timeouts
    BY <1>11, WindowOpen DEF SpiReadback
  <2>2. SendPkt("peek", 0) /\ "peek" \in Ops /\ pc' \in Waits
    BY <1>11 DEF SpiReadback, Ops, Waits
  <2>. QED BY <1>1, <1>11, <2>1, <2>2, SendStep DEF SpiReadback
<1>12. CASE CallOver
  <2>1. pc = "data"
    BY <1>12, ReadbackWaits DEF CallOver
  <2>2. sent - acked <= Window + timeouts
    BY <1>12, <2>1, WindowOpen DEF CallOver
  <2>3. PipeSorted' /\ PipeOrdered' /\ PipeLinked'
    BY <1>12 DEF CallOver, IInv, PipeSorted, PipeOrdered, PipeLinked, Linked
  <2>4. WindowInv' /\ RetInv'
    BY <1>2, <1>12, <2>1, <2>2 DEF CallOver, IInv, WindowInv, RetInv
  <2>5. CommandFifoNeverOverflows' /\ ReadbackIsOwn'
    BY <1>12, <2>1
       DEF CallOver, IInv, CommandFifoNeverOverflows, ReadbackIsOwn
  <2>. QED BY <1>1, <2>3, <2>4, <2>5 DEF IInv
<1>13. CASE LoseCommand
  <2>1. Pipe'
    BY <1>13, LoseCommandPipe
  <2>. QED BY <1>1, <1>13, <2>1 DEF LoseCommand, IInv, Pipe, WindowInv, RetInv,
               CommandFifoNeverOverflows, ReadbackIsOwn
<1>14. CASE LoseAck
  <2>1. Pipe'
    BY <1>14, LoseAckPipe
  <2>. QED BY <1>1, <1>14, <2>1 DEF LoseAck, IInv, Pipe, WindowInv, RetInv,
               CommandFifoNeverOverflows, ReadbackIsOwn
<1>15. CASE StoreCmd
  <2>1. Pipe'
    BY <1>15, StoreCmdPipe
  <2>. QED BY <1>1, <1>15, <2>1 DEF StoreCmd, IInv, Pipe, WindowInv, RetInv,
               CommandFifoNeverOverflows, ReadbackIsOwn
<1>16. CASE StoreCmdFull
  <2>1. Pipe'
    BY <1>16, StoreCmdFullPipe
  <2>2. CommandFifoNeverOverflows'
    BY <1>16, OverflowNeedsTimeout DEF StoreCmdFull, CommandFifoNeverOverflows
  <2>. QED BY <1>1, <1>16, <2>1, <2>2 DEF StoreCmdFull, IInv, Pipe, WindowInv,
               RetInv, ReadbackIsOwn
<1>17. CASE Action
  <2>1. Pipe'
    BY <1>17, ActionPipe
  <2>. QED BY <1>1, <1>17, <2>1 DEF Action, IInv, Pipe, WindowInv, RetInv,
               CommandFifoNeverOverflows, ReadbackIsOwn
<1>18. CASE WriteResult
  <2>1. Pipe'
    BY <1>18, WriteResultPipe
  <2>. QED BY <1>1, <1>18, <2>1 DEF WriteResult, IInv, Pipe, WindowInv, RetInv,
               CommandFifoNeverOverflows, ReadbackIsOwn
<1>19. CASE UNCHANGED vars
  BY <1>1, <1>19 DEF IInv, PipeSorted, PipeOrdered, PipeLinked, Linked,
               WindowInv, RetInv, CommandFifoNeverOverflows, ReadbackIsOwn
<1>. QED BY <1>4, <1>5, <1>6, <1>7, <1>8, <1>9, <1>10, <1>11, <1>12, <1>13,
            <1>14, <1>15, <1>16, <1>17, <1>18, <1>19
     DEF Next, Call, CallStep, Network, Device, Done

\* The inductive invariant holds in every reachable state.
THEOREM Safety == Spec => []IInv
<1>1. Init => IInv
  BY InitIInv
<1>2. IInv /\ [Next]_vars => IInv'
  BY NextIInv
<1>. QED BY <1>1, <1>2, PTL DEF Spec

\* For every window and FIFO depth: the FPGA's command FIFO is written while
\* full only after enough calls have thrown on a missing acknowledgement.
THEOREM NoOverflow == Spec => []CommandFifoNeverOverflows
<1>1. IInv => CommandFifoNeverOverflows
  BY DEF IInv
<1>. QED BY <1>1, Safety, PTL

\* For every number width that exceeds twice the window: a readback returns
\* the word of its own command.
THEOREM Readback == Spec => []ReadbackIsOwn
<1>1. IInv => ReadbackIsOwn
  BY DEF IInv
<1>. QED BY <1>1, Safety, PTL

\* A readback leaves nothing in flight behind it.
THEOREM Barrier == Spec => []ReadbackIsBarrier
<1>1. IInv => ReadbackIsBarrier
  <2>. SUFFICES ASSUME IInv, ret.wanted = sent, ~wedged
                PROVE  toDev = <<>> /\ cmdFifo = <<>> /\ resFifo = <<>>
                       /\ toHost = <<>>
    BY DEF ReadbackIsBarrier
  <2>1. acked = sent /\ sent \in Nat /\ Steps(wedged, 1) = 1
    BY DEF IInv, RetInv, TypeOK, Steps
  <2>2. ASSUME NEW q, q \in Seq(Commands) \/ q \in Seq(Acks), Linked(q)
        PROVE  q = <<>>
    <3>. SUFFICES ASSUME q # <<>> PROVE FALSE
      OBVIOUS
    <3>1. 1 \in 1 .. Len(q) /\ (q[1] \in Commands \/ q[1] \in Acks)
      BY <2>2
    <3>2. q[1].id \in Nat
      BY <3>1, EntriesNumbered
    <3>3. acked + 1 <= q[1].id /\ q[1].id <= sent
      BY <2>1, <2>2, <3>1 DEF Linked
    <3>. QED BY <2>1, <3>2, <3>3
  <2>. QED BY <2>2 DEF IInv, PipeLinked, TypeOK
<1>. QED BY <1>1, Safety, PTL

\* A due command finds room in the result FIFO unless a call has thrown.
THEOREM ResultSpace == Spec => []ResultFifoHasSpace
<1>1. IInv => ResultFifoHasSpace
  <2>. SUFFICES ASSUME IInv, cmdFifo # <<>>,
                       Window + 1 + timeouts <= FifoDepth,
                       ~(Len(resFifo) < FifoDepth)
                PROVE  FALSE
    BY DEF ResultFifoHasSpace
  <2>1. /\ sent \in Nat /\ acked \in Nat /\ timeouts \in Nat
        /\ Window \in Nat /\ FifoDepth \in Nat /\ FifoDepth >= 2
        /\ wedged \in BOOLEAN
        /\ cmdFifo \in Seq(Commands) /\ resFifo \in Seq(Acks)
        /\ sent - acked <= Window + timeouts + 1
    BY BoundAssumption, WindowAssumption, FifoDepthAssumption
       DEF IInv, TypeOK, WindowInv
  <2>2. wedged = FALSE
    BY <2>1 DEF IInv, CommandFifoNeverOverflows
  <2>3. /\ 1 \in 1 .. Len(cmdFifo) /\ cmdFifo[1] \in Commands
        /\ Len(resFifo) \in Nat
        /\ 1 \in 1 .. Len(resFifo) /\ Len(resFifo) \in 1 .. Len(resFifo)
        /\ resFifo[1] \in Acks /\ resFifo[Len(resFifo)] \in Acks
    BY <2>1
  <2>4. /\ cmdFifo[1].id \in Nat /\ resFifo[1].id \in Nat
        /\ resFifo[Len(resFifo)].id \in Nat
    BY <2>3, EntriesNumbered
  <2>5. acked + Steps(wedged, 1) <= resFifo[1].id
    BY <2>3 DEF IInv, PipeLinked, Linked
  <2>6. resFifo[1].id + Steps(wedged, Len(resFifo) - 1)
          <= resFifo[Len(resFifo)].id
    BY <2>1, <2>3 DEF IInv, PipeSorted, Sorted
  <2>7. resFifo[Len(resFifo)].id + Steps(wedged, 1) <= cmdFifo[1].id
    BY <2>3 DEF IInv, PipeOrdered, Before
  <2>8. cmdFifo[1].id <= sent
    BY <2>3 DEF IInv, PipeLinked, Linked
  <2>9. Steps(wedged, 1) = 1 /\ Steps(wedged, Len(resFifo) - 1) = Len(resFifo) - 1
    BY <2>2 DEF Steps
  <2>10. /\ sent \in Nat /\ acked \in Nat /\ timeouts \in Nat
         /\ Window \in Nat /\ FifoDepth \in Nat /\ Len(resFifo) \in Nat
         /\ sent - acked <= Window + timeouts + 1
    BY <2>1, <2>3
  <2>11. /\ acked + 1 <= resFifo[1].id
         /\ resFifo[1].id + (Len(resFifo) - 1) <= resFifo[Len(resFifo)].id
         /\ resFifo[Len(resFifo)].id + 1 <= cmdFifo[1].id
    BY <2>5, <2>6, <2>7, <2>9
  <2>. QED BY <2>4, <2>8, <2>10, <2>11
<1>. QED BY <1>1, Safety, PTL

-----------------------------------------------------------------------------
(* SPI control words.                                                      *)

Members(q) == {q[i] : i \in 1 .. Len(q)}

\* The commands that the FPGA has still to execute, and the control words
\* among them.
Pending == Members(cmdFifo) \cup Members(toDev)
PendingCtrl == {c \in Pending : c.op = "spi_ctrl"}

\* word is the control word for a transfer that follows command n: that of the
\* last control command up to n, or what the register holds when there is none.
InForce(n, word) ==
  \/ \E c \in PendingCtrl :
       /\ c.id <= n /\ c.want = word
       /\ \A d \in PendingCtrl : d.id <= n => d.id <= c.id
  \/ spi_ctrl = word /\ \A d \in PendingCtrl : d.id > n

\* The control word that the host takes to be in force, 0 if none.
Believed == IF pc = "ctrl" THEN call.word ELSE ctrl_cache

\* Every transfer on its way meets its word, and the next one will.
SpiInv ==
  /\ pc = "ctrl" => call.word # 0
  /\ ~ctrlLost /\ ~torn /\ ~wedged =>
       /\ lastSpi.used = lastSpi.wanted
       /\ \A d \in Pending : d.op = "spi_data" => InForce(d.id, d.want)
       /\ Believed # 0 => InForce(sent, Believed)

\* The members of a queue with one entry more.
LEMMA MembersAppend ==
  ASSUME NEW S, NEW q \in Seq(S), NEW e \in S
  PROVE  Members(Append(q, e)) = Members(q) \cup {e}
<1>1. /\ Len(q) \in Nat /\ Len(Append(q, e)) = Len(q) + 1
      /\ \A i \in 1 .. Len(q) : Append(q, e)[i] = q[i]
      /\ Append(q, e)[Len(q) + 1] = e
  OBVIOUS
<1>2. \A i \in 1 .. Len(q) + 1 : i \in 1 .. Len(q) \/ i = Len(q) + 1
  BY <1>1
<1>3. \A i \in 1 .. Len(q) : i \in 1 .. Len(q) + 1
  BY <1>1
<1>4. Len(q) + 1 \in 1 .. Len(q) + 1
  BY <1>1
<1>5. ASSUME NEW x \in Members(Append(q, e)) PROVE x \in Members(q) \cup {e}
  BY <1>1, <1>2, <1>5 DEF Members
<1>6. ASSUME NEW x \in Members(q) PROVE x \in Members(Append(q, e))
  BY <1>1, <1>3, <1>6 DEF Members
<1>7. e \in Members(Append(q, e))
  BY <1>1, <1>4 DEF Members
<1>. QED BY <1>5, <1>6, <1>7

\* The members of a queue: its head and the rest.
LEMMA MembersTail ==
  ASSUME NEW S, NEW q \in Seq(S), q # <<>>
  PROVE  Members(q) = {Head(q)} \cup Members(Tail(q))
<1>1. /\ Len(q) \in Nat /\ Len(q) >= 1 /\ Len(Tail(q)) = Len(q) - 1 /\ Head(q) = q[1]
      /\ \A i \in 1 .. Len(q) - 1 : Tail(q)[i] = q[i + 1]
  OBVIOUS
<1>2. \A i \in 1 .. Len(q) : i = 1 \/ (i - 1 \in 1 .. Len(q) - 1 /\ (i - 1) + 1 = i)
  BY <1>1
<1>3. \A i \in 1 .. Len(q) - 1 : i + 1 \in 1 .. Len(q)
  BY <1>1
<1>4. 1 \in 1 .. Len(q)
  BY <1>1
<1>5. ASSUME NEW i \in 1 .. Len(q) PROVE q[i] \in {Head(q)} \cup Members(Tail(q))
  <2>1. CASE i = 1
    BY <2>1, <1>1
  <2>2. CASE i - 1 \in 1 .. Len(q) - 1 /\ (i - 1) + 1 = i
    <3>1. Tail(q)[i - 1] = q[i]
      BY <2>2, <1>1
    <3>. QED BY <3>1, <2>2, <1>1 DEF Members
  <2>. QED BY <2>1, <2>2, <1>2
<1>6. ASSUME NEW i \in 1 .. Len(Tail(q)) PROVE Tail(q)[i] \in Members(q)
  BY <1>1, <1>3, <1>6 DEF Members
<1>7. Head(q) \in Members(q)
  BY <1>1, <1>4 DEF Members
<1>8. Members(q) \subseteq {Head(q)} \cup Members(Tail(q))
  BY <1>5 DEF Members
<1>9. Members(Tail(q)) \subseteq Members(q)
  BY <1>6 DEF Members
<1>. QED BY <1>7, <1>8, <1>9

\* What is pending was sent.
LEMMA PendingSent ==
  ASSUME IInv
  PROVE  \A d \in Pending : d \in Commands /\ d.id \in Nat /\ d.id <= sent
<1>1. cmdFifo \in Seq(Commands) /\ toDev \in Seq(Commands)
  BY DEF IInv, TypeOK
<1>2. ASSUME NEW q \in Seq(Commands), Linked(q), NEW d \in Members(q)
      PROVE  d \in Commands /\ d.id \in Nat /\ d.id <= sent
  <2>1. PICK i \in 1 .. Len(q) : d = q[i]
    BY DEF Members
  <2>2. q[i] \in Commands /\ q[i].id <= sent
    BY <1>2 DEF Linked
  <2>. QED BY <2>1, <2>2, EntriesNumbered
<1>. QED BY <1>1, <1>2 DEF Pending, IInv, PipeLinked

\* A step that sends nothing and executes nothing.
LEMMA SpiSame ==
  ASSUME SpiInv, Pending' = Pending, spi_ctrl' = spi_ctrl, sent' = sent,
         Believed' = Believed, lastSpi' = lastSpi,
         ~ctrlLost' /\ ~torn' /\ ~wedged' => ~ctrlLost /\ ~torn /\ ~wedged,
         pc' = "ctrl" => call'.word # 0
  PROVE  SpiInv'
<1>1. PendingCtrl' = PendingCtrl
  BY DEF PendingCtrl
<1>2. \A n, w : InForce(n, w) => (\/ \E c \in PendingCtrl' :
                                        /\ c.id <= n /\ c.want = w
                                        /\ \A d \in PendingCtrl' : d.id <= n => d.id <= c.id
                                  \/ spi_ctrl' = w /\ \A d \in PendingCtrl' : d.id > n)
  BY <1>1 DEF InForce
<1>3. /\ \A d \in Pending : InForce(d.id, d.want) => InForce(d.id, d.want)'
      /\ InForce(sent, Believed) => InForce(sent, Believed)'
  BY <1>2 DEF InForce
<1>. QED BY <1>3 DEF SpiInv

\* A command is sent.  A control word becomes the one in force; a transfer
\* relies on the word that the host takes to be in force.
LEMMA SpiSend ==
  ASSUME IInv, SpiInv, NEW op \in Ops, NEW word \in CtrlWords \cup {0}, SendPkt(op, word),
         UNCHANGED <<devVars, lastSpi, torn, ctrlLost>>,
         op = "spi_data" => word # 0 /\ word = Believed,
         op = "spi_ctrl" => Believed' = word,
         op # "spi_ctrl" => Believed' = Believed,
         pc' = "ctrl" => call'.word # 0
  PROVE  SpiInv'
<1>. DEFINE e == [id |-> sent + 1, seq |-> Wrap(seq_out + 1), op |-> op, want |-> word]
<1>1. /\ toDev' = Append(toDev, e) /\ sent' = sent + 1 /\ cmdFifo' = cmdFifo
      /\ spi_ctrl' = spi_ctrl /\ wedged' = wedged
  BY DEF SendPkt, devVars
<1>2. /\ e.id = sent + 1 /\ e.op = op /\ e.want = word /\ sent \in Nat
      /\ toDev \in Seq(Commands)
  BY DEF IInv, TypeOK
<1>3. e \in Commands
  <2>1. Wrap(seq_out + 1) \in SeqNum
    BY WrapInRange, SeqModAssumption DEF IInv, TypeOK, SeqNum
  <2>. QED BY <2>1, <1>2 DEF Commands
<1>. HIDE DEF e
<1>4. Pending' = Pending \cup {e}
  BY <1>1, <1>2, <1>3, MembersAppend DEF Pending
<1>5. \A d \in Pending : d.id \in Nat /\ d.id <= sent
  BY PendingSent
<1>6. PendingCtrl' = PendingCtrl \cup (IF op = "spi_ctrl" THEN {e} ELSE {})
  BY <1>2, <1>4 DEF PendingCtrl
<1>7. \A d \in PendingCtrl : d.id \in Nat /\ d.id <= sent
  BY <1>5 DEF PendingCtrl
<1>8. ASSUME NEW n \in Nat, NEW w, n <= sent, InForce(n, w)
      PROVE  \/ \E c \in PendingCtrl' :
                  /\ c.id <= n /\ c.want = w
                  /\ \A d \in PendingCtrl' : d.id <= n => d.id <= c.id
             \/ spi_ctrl' = w /\ \A d \in PendingCtrl' : d.id > n
  <2>1. e.id > n
    BY <1>2, <1>8
  <2>2. ~(e.id <= n)
    BY <1>2, <1>8
  <2>. QED BY <2>1, <2>2, <1>1, <1>6, <1>8 DEF InForce
<1>9. ASSUME op # "spi_ctrl", NEW w, InForce(sent, w)
      PROVE  \/ \E c \in PendingCtrl' :
                  /\ c.id <= sent + 1 /\ c.want = w
                  /\ \A d \in PendingCtrl' : d.id <= sent + 1 => d.id <= c.id
             \/ spi_ctrl' = w /\ \A d \in PendingCtrl' : d.id > sent + 1
  <2>1. PendingCtrl' = PendingCtrl
    BY <1>6, <1>9
  <2>2. \A d \in PendingCtrl : d.id <= sent /\ d.id <= sent + 1 /\ ~(d.id > sent)
    BY <1>2, <1>7
  <2>. QED BY <2>1, <2>2, <1>1, <1>9 DEF InForce
<1>10. ASSUME op = "spi_ctrl"
       PROVE  \E c \in PendingCtrl' :
                /\ c.id <= sent + 1 /\ c.want = word
                /\ \A d \in PendingCtrl' : d.id <= sent + 1 => d.id <= c.id
  <2>1. e \in PendingCtrl' /\ e.id <= sent + 1 /\ e.want = word
    BY <1>2, <1>6, <1>10
  <2>2. \A d \in PendingCtrl' : d.id <= e.id
    BY <1>2, <1>6, <1>7, <1>10
  <2>. QED BY <2>1, <2>2
<1>11. SUFFICES ASSUME ~ctrlLost, ~torn, ~wedged
                PROVE  /\ \A d \in Pending' : d.op = "spi_data" => InForce(d.id, d.want)'
                       /\ Believed' # 0 => InForce(sent, Believed)'
  BY <1>1 DEF SpiInv
<1>12. /\ \A d \in Pending : d.op = "spi_data" => InForce(d.id, d.want)
       /\ Believed # 0 => InForce(sent, Believed)
  BY <1>11 DEF SpiInv
<1>13. ASSUME NEW d \in Pending', d.op = "spi_data" PROVE InForce(d.id, d.want)'
  <2>1. CASE d \in Pending
    BY <2>1, <1>5, <1>8, <1>12, <1>13 DEF InForce
  <2>2. CASE d = e
    <3>1. op = "spi_data" /\ InForce(sent, word)
      BY <2>2, <1>2, <1>12, <1>13
    <3>2. d.id = sent + 1 /\ d.want = word
      BY <2>2, <1>2
    <3>3. \/ \E c \in PendingCtrl' :
               /\ c.id <= d.id /\ c.want = d.want
               /\ \A x \in PendingCtrl' : x.id <= d.id => x.id <= c.id
          \/ spi_ctrl' = d.want /\ \A x \in PendingCtrl' : x.id > d.id
      BY <3>1, <3>2, <1>9
    <3>. QED BY <3>3 DEF InForce
  <2>. QED BY <2>1, <2>2, <1>4
<1>14. ASSUME Believed' # 0 PROVE InForce(sent, Believed)'
  <2>1. CASE op = "spi_ctrl"
    BY <2>1, <1>1, <1>10 DEF InForce
  <2>2. CASE op # "spi_ctrl"
    BY <2>2, <1>1, <1>9, <1>12, <1>14 DEF InForce
  <2>. QED BY <2>1, <2>2
<1>. QED BY <1>13, <1>14

\* The next command is executed: it is the oldest pending one.
LEMMA SpiAction == IInv /\ SpiInv /\ Action => SpiInv'
<1>. SUFFICES ASSUME IInv, SpiInv, Action PROVE SpiInv'
  OBVIOUS
<1>. DEFINE e == Head(cmdFifo)
<1>1. /\ cmdFifo # <<>> /\ toDev' = toDev /\ wedged' = wedged /\ torn' = torn
      /\ ctrlLost' = ctrlLost /\ sent' = sent /\ pc' = pc /\ call' = call
      /\ ctrl_cache' = ctrl_cache
      /\ cmdFifo' = IF wedged /\ Len(cmdFifo) = 1 THEN cmdFifo ELSE Tail(cmdFifo)
      /\ spi_ctrl' = IF e.op = "spi_ctrl" THEN e.want ELSE spi_ctrl
      /\ lastSpi' = IF e.op = "spi_data" THEN [wanted |-> e.want, used |-> spi_ctrl] ELSE lastSpi
  BY DEF Action, hostVars
<1>2. Believed' = Believed
  BY <1>1 DEF Believed
<1>3. SUFFICES ASSUME ~ctrlLost, ~torn, ~wedged
               PROVE  /\ lastSpi'.used = lastSpi'.wanted
                      /\ \A d \in Pending' : d.op = "spi_data" => InForce(d.id, d.want)'
                      /\ Believed' # 0 => InForce(sent, Believed)'
  BY <1>1 DEF SpiInv
<1>4. /\ cmdFifo \in Seq(Commands) /\ toDev \in Seq(Commands) /\ wedged = FALSE
      /\ cmdFifo' = Tail(cmdFifo) /\ Sorted(wedged, cmdFifo) /\ Before(wedged, cmdFifo, toDev)
      /\ sent \in Nat /\ \A x \in Commands : x.id \in Nat
  BY <1>1, <1>3, EntriesNumbered DEF IInv, TypeOK, PipeSorted, PipeOrdered
<1>5. /\ e = cmdFifo[1] /\ 1 \in 1 .. Len(cmdFifo)
      /\ \A j \in 1 .. Len(Tail(cmdFifo)) : e.id + Steps(wedged, 1) <= Tail(cmdFifo)[j].id
  BY <1>1, <1>4, HeadFirst
<1>6. \A j \in 1 .. Len(toDev) : e.id + Steps(wedged, 1) <= toDev[j].id
  BY <1>4, <1>5 DEF Before
<1>7. Members(cmdFifo) = {e} \cup Members(cmdFifo')
  BY <1>1, <1>4, MembersTail
<1>. HIDE DEF e
<1>8. Pending = {e} \cup Pending'
  BY <1>1, <1>7 DEF Pending
<1>9. \A d \in Pending : d.id \in Nat /\ d.id <= sent
  BY PendingSent
<1>10. e.id \in Nat /\ e.id <= sent
  BY <1>8, <1>9
<1>11. ASSUME NEW d \in Pending' PROVE d.id \in Nat /\ d.id > e.id
  <2>1. e.id + 1 <= d.id
    <3>1. Steps(wedged, 1) = 1
      BY <1>4 DEF Steps
    <3>2. d \in Members(Tail(cmdFifo)) \/ d \in Members(toDev)
      BY <1>1, <1>4 DEF Pending
    <3>. QED BY <3>1, <3>2, <1>5, <1>6 DEF Members
  <2>. QED BY <2>1, <1>8, <1>9, <1>10
<1>12. /\ PendingCtrl' \subseteq PendingCtrl
       /\ \A c \in PendingCtrl : c \in PendingCtrl' \/ c = e
       /\ e.op = "spi_ctrl" => e \in PendingCtrl
       /\ \A c \in PendingCtrl' : c.id \in Nat /\ c.id > e.id /\ c \in Pending'
  BY <1>8, <1>11 DEF PendingCtrl
<1>13. ASSUME NEW n \in Nat, NEW w, n >= e.id, InForce(n, w)
       PROVE  \/ \E c \in PendingCtrl' :
                   /\ c.id <= n /\ c.want = w
                   /\ \A d \in PendingCtrl' : d.id <= n => d.id <= c.id
              \/ spi_ctrl' = w /\ \A d \in PendingCtrl' : d.id > n
  <2>1. ASSUME NEW c \in PendingCtrl, c.id <= n, c.want = w,
               \A d \in PendingCtrl : d.id <= n => d.id <= c.id
        PROVE  \/ \E x \in PendingCtrl' :
                    /\ x.id <= n /\ x.want = w
                    /\ \A d \in PendingCtrl' : d.id <= n => d.id <= x.id
               \/ spi_ctrl' = w /\ \A d \in PendingCtrl' : d.id > n
    <3>1. CASE c \in PendingCtrl'
      BY <3>1, <2>1, <1>12
    <3>2. CASE c = e
      <4>1. e.op = "spi_ctrl"
        BY <3>2 DEF PendingCtrl
      <4>2. spi_ctrl' = w
        BY <4>1, <3>2, <2>1, <1>1
      <4>3. \A d \in PendingCtrl' : d.id > n
        <5>1. ASSUME NEW d \in PendingCtrl', d.id <= n PROVE FALSE
          <6>1. d.id <= e.id
            BY <5>1, <3>2, <2>1, <1>12
          <6>. QED BY <6>1, <1>10, <1>12
        <5>. QED BY <5>1, <1>12
      <4>. QED BY <4>2, <4>3
    <3>. QED BY <3>1, <3>2, <1>12
  <2>2. ASSUME spi_ctrl = w, \A d \in PendingCtrl : d.id > n
        PROVE  spi_ctrl' = w /\ \A d \in PendingCtrl' : d.id > n
    <3>1. e \notin PendingCtrl
      BY <2>2, <1>10, <1>13
    <3>. QED BY <3>1, <2>2, <1>1, <1>12
  <2>. QED BY <2>1, <2>2, <1>13 DEF InForce
<1>14. /\ \A d \in Pending : d.op = "spi_data" => InForce(d.id, d.want)
       /\ Believed # 0 => InForce(sent, Believed)
       /\ lastSpi.used = lastSpi.wanted
  BY <1>3 DEF SpiInv
<1>15. lastSpi'.used = lastSpi'.wanted
  <2>1. CASE e.op = "spi_data"
    <3>1. InForce(e.id, e.want)
      BY <2>1, <1>8, <1>14
    <3>2. \A c \in PendingCtrl : c.id > e.id /\ ~(c.id <= e.id)
      <4>1. e \notin PendingCtrl
        BY <2>1 DEF PendingCtrl
      <4>. QED BY <4>1, <1>10, <1>12
    <3>3. spi_ctrl = e.want
      BY <3>1, <3>2 DEF InForce
    <3>. QED BY <2>1, <3>3, <1>1
  <2>2. CASE e.op # "spi_data"
    BY <2>2, <1>1, <1>14
  <2>. QED BY <2>1, <2>2
<1>16. ASSUME NEW d \in Pending', d.op = "spi_data" PROVE InForce(d.id, d.want)'
  <2>1. d.id \in Nat /\ d.id >= e.id /\ InForce(d.id, d.want)
    BY <1>8, <1>10, <1>11, <1>14, <1>16
  <2>. QED BY <2>1, <1>13 DEF InForce
<1>17. ASSUME Believed' # 0 PROVE InForce(sent, Believed)'
  <2>1. sent \in Nat /\ sent >= e.id /\ InForce(sent, Believed)
    BY <1>2, <1>4, <1>10, <1>14, <1>17
  <2>. QED BY <2>1, <1>1, <1>2, <1>13 DEF InForce
<1>. QED BY <1>15, <1>16, <1>17

\* Every step keeps the words in force.
LEMMA SpiNext == IInv /\ SpiInv /\ [Next]_vars => SpiInv'
<1>. SUFFICES ASSUME IInv, SpiInv, [Next]_vars PROVE SpiInv'
  OBVIOUS
<1>1. /\ 0 \notin CtrlWords /\ TypeOK /\ call \in Calls
      /\ cmdFifo \in Seq(Commands) /\ toDev \in Seq(Commands)
  BY CtrlWordsAssumption DEF IInv, TypeOK
<1>2. CASE Poke32
  BY <1>2, SpiSend DEF Poke32, Believed, Ops
<1>3. CASE Peek32
  BY <1>3, SpiSend DEF Peek32, Believed, Ops
<1>4. ASSUME NEW word \in CtrlWords, NEW readback \in BOOLEAN, TransactSpi(word, readback)
      PROVE  SpiInv'
  <2>1. /\ pc = "idle" /\ call'.word = word /\ word # 0 /\ ctrl_cache' = ctrl_cache
        /\ UNCHANGED <<devVars, lastSpi, torn, ctrlLost>>
    BY <1>1, <1>4 DEF TransactSpi
  <2>2. CASE ctrl_cache # word
    <3>1. SendPkt("spi_ctrl", word) /\ Believed' = word
      BY <2>1, <2>2, <1>4 DEF TransactSpi, Believed
    <3>. QED BY <3>1, <2>1, SpiSend DEF Ops
  <2>3. CASE ctrl_cache = word
    <3>1. SendPkt("spi_data", word) /\ Believed' = Believed /\ Believed = word /\ pc' = "data"
      BY <2>1, <2>3, <1>4 DEF TransactSpi, Believed
    <3>. QED BY <3>1, <2>1, SpiSend DEF Ops
  <2>. QED BY <2>2, <2>3
<1>5. CASE RecvAck
  <2>1. /\ cmdFifo' = cmdFifo /\ toDev' = toDev /\ spi_ctrl' = spi_ctrl /\ sent' = sent
        /\ lastSpi' = lastSpi /\ ctrlLost' = ctrlLost /\ torn' = torn /\ wedged' = wedged
        /\ call' = call /\ ctrl_cache' = ctrl_cache
        /\ pc' = pc \/ (pc = "readback" /\ pc' = "idle")
    BY <1>5 DEF RecvAck, devVars
  <2>. QED BY <2>1, SpiSame DEF Pending, Believed, SpiInv
<1>6. CASE AckTimeout
  <2>1. /\ cmdFifo' = cmdFifo /\ toDev' = toDev /\ spi_ctrl' = spi_ctrl /\ sent' = sent
        /\ lastSpi' = lastSpi /\ ctrlLost' = ctrlLost /\ wedged' = wedged
        /\ call' = call /\ ctrl_cache' = ctrl_cache /\ pc' = "idle"
        /\ torn' = (torn \/ pc = "ctrl")
    BY <1>6 DEF AckTimeout, devVars
  <2>2. CASE pc = "ctrl"
    BY <2>1, <2>2 DEF SpiInv
  <2>3. CASE pc # "ctrl"
    BY <2>1, <2>3, SpiSame DEF Pending, Believed
  <2>. QED BY <2>2, <2>3
<1>7. CASE CtrlWordSent
  <2>1. /\ pc = "ctrl" /\ ctrl_cache' = call.word /\ SendPkt("spi_data", call.word)
        /\ pc' = "data" /\ UNCHANGED <<devVars, lastSpi, torn, ctrlLost>>
    BY <1>7 DEF CtrlWordSent
  <2>2. /\ call.word \in CtrlWords \cup {0} /\ call.word # 0
        /\ Believed = call.word /\ Believed' = call.word
    BY <2>1, <1>1 DEF Calls, SpiInv, Believed
  <2>. QED BY <2>1, <2>2, SpiSend DEF Ops
<1>8. CASE CtrlWordSentNoBuff
  <2>1. /\ cmdFifo' = cmdFifo /\ toDev' = toDev /\ spi_ctrl' = spi_ctrl /\ sent' = sent
        /\ lastSpi' = lastSpi /\ ctrlLost' = ctrlLost /\ torn' = torn /\ wedged' = wedged
        /\ call' = call /\ ctrl_cache' = call.word /\ pc = "ctrl" /\ pc' = "idle"
    BY <1>8 DEF CtrlWordSentNoBuff, devVars
  <2>. QED BY <2>1, SpiSame DEF Pending, Believed
<1>9. CASE SpiReadback
  <2>1. /\ pc = "data" /\ SendPkt("peek", 0) /\ pc' = "readback"
        /\ ctrl_cache' = ctrl_cache /\ UNCHANGED <<devVars, lastSpi, torn, ctrlLost>>
    BY <1>9 DEF SpiReadback
  <2>. QED BY <2>1, SpiSend DEF Believed, Ops
<1>10. CASE CallOver
  <2>1. /\ cmdFifo' = cmdFifo /\ toDev' = toDev /\ spi_ctrl' = spi_ctrl /\ sent' = sent
        /\ lastSpi' = lastSpi /\ ctrlLost' = ctrlLost /\ torn' = torn /\ wedged' = wedged
        /\ call' = call /\ ctrl_cache' = ctrl_cache /\ pc # "ctrl" /\ pc' = "idle"
    BY <1>10 DEF CallOver, devVars
  <2>. QED BY <2>1, SpiSame DEF Pending, Believed
<1>11. CASE LoseCommand
  <2>1. /\ cmdFifo' = cmdFifo /\ toDev # <<>> /\ toDev' = Tail(toDev) /\ spi_ctrl' = spi_ctrl
        /\ sent' = sent /\ lastSpi' = lastSpi /\ torn' = torn /\ wedged' = wedged
        /\ call' = call /\ ctrl_cache' = ctrl_cache /\ pc' = pc
        /\ ctrlLost' = (ctrlLost \/ Head(toDev).op = "spi_ctrl")
    BY <1>11 DEF LoseCommand, devVars, hostVars
  <2>2. Members(toDev) = {Head(toDev)} \cup Members(toDev')
    BY <2>1, <1>1, MembersTail
  <2>3. Pending = {Head(toDev)} \cup Pending'
    BY <2>1, <2>2 DEF Pending
  <2>4. CASE Head(toDev).op = "spi_ctrl"
    BY <2>1, <2>4 DEF SpiInv
  <2>5. CASE Head(toDev).op # "spi_ctrl"
    <3>1. PendingCtrl' = PendingCtrl
      BY <2>3, <2>5 DEF PendingCtrl
    <3>2. Believed' = Believed
      BY <2>1 DEF Believed
    <3>3. \A n, w : InForce(n, w) => (\/ \E c \in PendingCtrl' :
                                            /\ c.id <= n /\ c.want = w
                                            /\ \A d \in PendingCtrl' : d.id <= n => d.id <= c.id
                                      \/ spi_ctrl' = w /\ \A d \in PendingCtrl' : d.id > n)
      BY <3>1, <2>1 DEF InForce
    <3>4. /\ \A d \in Pending' : InForce(d.id, d.want) => InForce(d.id, d.want)'
          /\ InForce(sent, Believed) => InForce(sent, Believed)'
      BY <3>2, <3>3, <2>1 DEF InForce
    <3>. QED BY <3>2, <3>4, <2>1, <2>3 DEF SpiInv
  <2>. QED BY <2>4, <2>5
<1>12. CASE LoseAck \/ WriteResult \/ Done \/ UNCHANGED vars
  <2>1. /\ cmdFifo' = cmdFifo /\ toDev' = toDev /\ spi_ctrl' = spi_ctrl /\ sent' = sent
        /\ lastSpi' = lastSpi /\ ctrlLost' = ctrlLost /\ torn' = torn /\ wedged' = wedged
        /\ call' = call /\ ctrl_cache' = ctrl_cache /\ pc' = pc
    BY <1>12 DEF LoseAck, WriteResult, Done, vars, hostVars, devVars, histVars
  <2>. QED BY <2>1, SpiSame DEF Pending, Believed, SpiInv
<1>13. CASE StoreCmd
  <2>1. /\ toDev # <<>> /\ cmdFifo' = Append(cmdFifo, Head(toDev)) /\ toDev' = Tail(toDev)
        /\ spi_ctrl' = spi_ctrl /\ sent' = sent
        /\ lastSpi' = lastSpi /\ ctrlLost' = ctrlLost /\ torn' = torn /\ wedged' = wedged
        /\ call' = call /\ ctrl_cache' = ctrl_cache /\ pc' = pc
    BY <1>13 DEF StoreCmd, hostVars, histVars
  <2>2. Head(toDev) \in Commands
    BY <2>1, <1>1
  <2>3. /\ Members(toDev) = {Head(toDev)} \cup Members(toDev')
        /\ Members(cmdFifo') = Members(cmdFifo) \cup {Head(toDev)}
    BY <2>1, <2>2, <1>1, MembersTail, MembersAppend
  <2>4. Pending' = Pending
    BY <2>3 DEF Pending
  <2>. QED BY <2>1, <2>4, SpiSame DEF Believed, SpiInv
<1>14. CASE StoreCmdFull
  BY <1>14 DEF StoreCmdFull, SpiInv, hostVars
<1>15. CASE Action
  BY <1>15, SpiAction
<1>. QED BY <1>2, <1>3, <1>4, <1>5, <1>6, <1>7, <1>8, <1>9, <1>10, <1>11, <1>12, <1>13,
            <1>14, <1>15
     DEF Next, Call, CallStep, Network, Device

\* An SPI transfer uses the control word that its caller asked for, unless the
\* network lost a control word, transact_spi threw between sending and caching
\* one, or the command FIFO was written while full.
THEOREM SpiWord == Spec => []SpiUsesWantedWord
<1>1. Init => SpiInv
  <2>. SUFFICES ASSUME Init PROVE SpiInv
    OBVIOUS
  <2>1. cmdFifo = <<>> /\ toDev = <<>> /\ pc = "idle" /\ ctrl_cache = 0
        /\ lastSpi = [wanted |-> 0, used |-> 0]
    BY DEF Init
  <2>2. Pending = {}
    <3>1. 1 .. Len(<<>>) = {}
      OBVIOUS
    <3>. QED BY <3>1, <2>1 DEF Pending, Members
  <2>. QED BY <2>1, <2>2 DEF SpiInv, Believed
<1>2. IInv /\ SpiInv /\ [Next]_vars => SpiInv'
  BY SpiNext
<1>3. SpiInv => SpiUsesWantedWord
  BY DEF SpiInv, SpiUsesWantedWord
<1>. QED BY <1>1, <1>2, <1>3, Safety, PTL DEF Spec

=============================================================================
