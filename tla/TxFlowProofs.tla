----------------------------- MODULE TxFlowProofs -----------------------------
(***************************************************************************)
(* Proofs about TxFlow for every number of channels and streamers, every   *)
(* window, every width of the packet numbers that is above the window, and *)
(* any number of lost packets, lost reports and crashes.                   *)
(***************************************************************************)
EXTENDS TxFlow, TLAPS

-----------------------------------------------------------------------------
(* The inductive invariant.                                                *)

ReportSet == [seq : SeqNum, about : Sessions \cup {0}]

\* How far the number n is behind out, the number of the next packet.
Behind(out, n) == (out - n) % SeqMod

\* What the numbers of session s tell of the packets q in the SRAM and of the
\* reports rs that are on their way to it: seen from the next packet, the
\* packets lie behind one another, the last one consumed, num, behind all of
\* them, each report behind those made later, and the number the host acts on
\* behind every report.  A fresh monitor counts its first packet as consumed:
\* it is one ahead.
Chain(s, out, ack, num, q, rs) ==
  /\ Behind(out, num) <= Behind(out, ack) + 1
  /\ Behind(out, num) >= Len(q) + 1
  /\ Behind(out, num) <= Window + 1
  /\ Behind(out, ack) <= Window + 1
  /\ \A i \in 1 .. Len(q) :
       Behind(out, q[i]) >= Len(q) - i + 1 /\ Behind(out, q[i]) <= Behind(out, num)
  /\ \A i, j \in 1 .. Len(q) : i < j => Behind(out, q[j]) <= Behind(out, q[i])
  /\ \A i \in 1 .. Len(rs) : rs[i].about = s =>
       /\ Behind(out, rs[i].seq) >= Behind(out, num)
       /\ Behind(out, rs[i].seq) <= Behind(out, ack) + 1
       /\ Behind(out, rs[i].seq) <= Window + 1
  /\ \A i, j \in 1 .. Len(rs) :
       i < j /\ rs[i].about = s /\ rs[j].about = s =>
         Behind(out, rs[j].seq) <= Behind(out, rs[i].seq)

\* No session of channel c took a report from before its channel was cleared.
Clean(c) == \A s \in stale : chan[s] # c

\* The session that owns a channel's framer, once the channel is cleared for it.
Owned(c) == dest[c] \in Sessions /\ st[dest[c]] \in {"cleared", "open"}

InWindow(c) ==
  Clean(c) =>
    /\ Len(sram[c]) <= Window
    /\ Owned(c) => Chain(dest[c], last_seq_out[dest[c]], last_seq_ack[dest[c]],
                         seqnum[c], sram[c], reports[dest[c]])

\* The framer of a channel sends to the newest session of the channel.
DestNewest ==
  /\ \A c \in Chans : dest[c] \in Sessions =>
       st[dest[c]] # "unused" /\ chan[dest[c]] = c
  /\ \A s \in Sessions : st[s] # "unused" =>
       chan[s] \in Chans /\ dest[chan[s]] >= s

\* Sessions are made in order and one at a time.
InOrder ==
  \A s, t \in Sessions :
    t > s /\ st[s] \in {"unused", "xport", "cleared"} => st[t] = "unused"

\* A crash ends every session.
Dead == ~device => \A s \in Sessions : st[s] \in {"unused", "closed"}

\* A session that is not open yet has sent and acknowledged nothing, and the
\* reports in its socket are not about it until its channel is cleared.
Fresh ==
  \A s \in Sessions :
    /\ st[s] \in {"unused", "xport", "cleared"} =>
         last_seq_out[s] = 0 /\ last_seq_ack[s] = 0
    /\ st[s] = "unused" => reports[s] = <<>> /\ s \notin stale
    /\ st[s] = "xport" => \A i \in 1 .. Len(reports[s]) : reports[s][i].about = 0

IInv ==
  /\ TypeOK
  /\ DestNewest
  /\ InOrder
  /\ Dead
  /\ Fresh
  /\ \A c \in Chans : InWindow(c)

-----------------------------------------------------------------------------
(* Numbers that wrap around.                                               *)

\* The distance of two packet numbers.
LEMMA BehindOf ==
  ASSUME NEW a \in SeqNum, NEW b \in SeqNum
  PROVE  /\ Behind(a, b) = IF a >= b THEN a - b ELSE a - b + SeqMod
         /\ Behind(a, b) \in 0 .. SeqMod - 1
         /\ Behind(a, b) \in Nat
BY SeqModAssumption, WindowAssumption DEF SeqNum, Behind

\* The number after a packet number.
LEMMA NextSeqOf ==
  ASSUME NEW n \in SeqNum
  PROVE  /\ NextSeq(n) \in SeqNum
         /\ NextSeq(n) = IF n = SeqMod - 1 THEN 0 ELSE n + 1
BY SeqModAssumption, WindowAssumption DEF SeqNum, NextSeq

\* A packet more: every number is one further behind, unless it is a whole
\* round behind.
LEMMA BehindNext ==
  ASSUME NEW a \in SeqNum, NEW b \in SeqNum, Behind(a, b) <= Window
  PROVE  Behind(NextSeq(a), b) = Behind(a, b) + 1
<1>1. NextSeq(a) \in SeqNum /\ NextSeq(a) = IF a = SeqMod - 1 THEN 0 ELSE a + 1
  BY NextSeqOf
<1>2. Behind(a, b) = IF a >= b THEN a - b ELSE a - b + SeqMod
  BY BehindOf
<1>3. Behind(NextSeq(a), b)
        = IF NextSeq(a) >= b THEN NextSeq(a) - b ELSE NextSeq(a) - b + SeqMod
  BY <1>1, BehindOf
<1>4. /\ SeqMod \in Nat /\ Window \in Nat /\ SeqMod > Window + 1
      /\ a \in Int /\ b \in Int
      /\ a >= 0 /\ b >= 0 /\ a <= SeqMod - 1 /\ b <= SeqMod - 1
  BY SeqModAssumption, WindowAssumption DEF SeqNum
<1>. QED BY <1>1, <1>2, <1>3, <1>4

\* The packet just sent is one behind, and the last number before the first
\* packet as well.
LEMMA BehindOne ==
  /\ \A a \in SeqNum : Behind(NextSeq(a), a) = 1
  /\ Behind(0, SeqMod - 1) = 1 /\ Behind(0, 0) = 0
  /\ 0 \in SeqNum /\ SeqMod - 1 \in SeqNum
<1>1. 0 \in SeqNum /\ SeqMod - 1 \in SeqNum /\ SeqMod \in Nat /\ SeqMod > 1
  BY SeqModAssumption, WindowAssumption DEF SeqNum
<1>2. ASSUME NEW a \in SeqNum PROVE Behind(NextSeq(a), a) = 1
  <2>1. Behind(a, a) = 0
    BY BehindOf, <1>1 DEF SeqNum
  <2>. QED BY <2>1, BehindNext, WindowAssumption
<1>. QED BY <1>1, <1>2, BehindOf

-----------------------------------------------------------------------------
(* The chain of packets and reports.                                       *)

\* The numbers in a queue of reports and in a queue of packets.
LEMMA ReportNumbers ==
  ASSUME NEW rs \in Seq(ReportSet), NEW i \in 1 .. Len(rs)
  PROVE  rs[i] \in ReportSet /\ rs[i].seq \in SeqNum
<1>1. rs[i] \in ReportSet
  OBVIOUS
<1>2. \A r \in ReportSet : r.seq \in SeqNum
  BY DEF ReportSet
<1>. QED BY <1>1, <1>2

\* A packet is sent within the window, arrived or lost.
LEMMA ChainSend ==
  ASSUME NEW s, NEW out \in SeqNum, NEW ack \in SeqNum, NEW num \in SeqNum,
         NEW q \in Seq(SeqNum), NEW rs \in Seq(ReportSet),
         Chain(s, out, ack, num, q, rs), Behind(out, ack) < Window
  PROVE  /\ Chain(s, NextSeq(out), ack, num, Append(q, out), rs)
         /\ Chain(s, NextSeq(out), ack, num, q, rs)
         /\ Len(Append(q, out)) <= Window /\ Len(q) <= Window
<1>. DEFINE o == NextSeq(out)
            p == Append(q, out)
<1>1. /\ Window \in Nat /\ Len(q) \in Nat /\ Len(rs) \in Nat
      /\ Len(p) = Len(q) + 1 /\ p[Len(q) + 1] = out
      /\ \A i \in 1 .. Len(q) : p[i] = q[i]
  BY WindowAssumption
<1>2. /\ \A i \in 1 .. Len(q) : q[i] \in SeqNum
      /\ \A i \in 1 .. Len(rs) : rs[i].seq \in SeqNum
  BY ReportNumbers
<1>3. \A n \in SeqNum : /\ Behind(out, n) \in Nat
                        /\ Behind(out, n) <= Window => Behind(o, n) = Behind(out, n) + 1
  BY BehindNext, BehindOf, SeqModAssumption
<1>4. Behind(o, out) = 1
  BY BehindOne
<1>. HIDE DEF o, p
<1>5. /\ Behind(o, num) = Behind(out, num) + 1 /\ Behind(out, num) \in Nat
      /\ Behind(o, ack) = Behind(out, ack) + 1 /\ Behind(out, ack) \in Nat
      /\ Behind(out, num) <= Window
      /\ Behind(out, num) <= Behind(out, ack) + 1 /\ Behind(out, num) >= Len(q) + 1
  BY <1>1, <1>3 DEF Chain
<1>6. ASSUME NEW i \in 1 .. Len(q)
      PROVE  /\ Behind(o, q[i]) = Behind(out, q[i]) + 1 /\ Behind(out, q[i]) \in Nat
             /\ Behind(out, q[i]) >= Len(q) - i + 1
             /\ Behind(out, q[i]) <= Behind(out, num)
  <2>1. Behind(out, q[i]) >= Len(q) - i + 1 /\ Behind(out, q[i]) <= Behind(out, num)
    BY DEF Chain
  <2>. QED BY <2>1, <1>2, <1>3, <1>5, <1>1
<1>7. ASSUME NEW i \in 1 .. Len(rs), rs[i].about = s
      PROVE  /\ Behind(o, rs[i].seq) = Behind(out, rs[i].seq) + 1
             /\ Behind(out, rs[i].seq) \in Nat
             /\ Behind(out, rs[i].seq) >= Behind(out, num)
             /\ Behind(out, rs[i].seq) <= Behind(out, ack) + 1
  <2>1. /\ Behind(out, rs[i].seq) >= Behind(out, num)
        /\ Behind(out, rs[i].seq) <= Behind(out, ack) + 1
    BY <1>7 DEF Chain
  <2>. QED BY <2>1, <1>2, <1>3, <1>5, <1>1
<1>8. ASSUME NEW i \in 1 .. Len(q), NEW j \in 1 .. Len(q), i < j
      PROVE  Behind(o, q[j]) <= Behind(o, q[i])
  <2>1. Behind(out, q[j]) <= Behind(out, q[i])
    BY <1>8 DEF Chain
  <2>. QED BY <2>1, <1>6
<1>9. ASSUME NEW i \in 1 .. Len(rs), NEW j \in 1 .. Len(rs), i < j,
             rs[i].about = s, rs[j].about = s
      PROVE  Behind(o, rs[j].seq) <= Behind(o, rs[i].seq)
  <2>1. Behind(out, rs[j].seq) <= Behind(out, rs[i].seq)
    BY <1>9 DEF Chain
  <2>. QED BY <2>1, <1>7, <1>9
<1>10. ASSUME NEW i \in 1 .. Len(rs), rs[i].about = s
       PROVE  /\ Behind(o, rs[i].seq) >= Behind(o, num)
              /\ Behind(o, rs[i].seq) <= Behind(o, ack) + 1
              /\ Behind(o, rs[i].seq) <= Window + 1
  BY <1>1, <1>5, <1>7, <1>10
<1>11. /\ Behind(o, num) <= Behind(o, ack) + 1
       /\ Behind(o, num) >= Len(p) + 1 /\ Behind(o, num) >= Len(q) + 1
       /\ Behind(o, num) <= Window + 1 /\ Behind(o, ack) <= Window + 1
       /\ Len(p) <= Window /\ Len(q) <= Window
  BY <1>1, <1>5
<1>12. Chain(s, o, ack, num, q, rs)
  <2>1. \A i \in 1 .. Len(q) :
          Behind(o, q[i]) >= Len(q) - i + 1 /\ Behind(o, q[i]) <= Behind(o, num)
    BY <1>1, <1>5, <1>6
  <2>. QED BY <1>8, <1>9, <1>10, <1>11, <2>1 DEF Chain
<1>13. Chain(s, o, ack, num, p, rs)
  <2>1. ASSUME NEW i \in 1 .. Len(p)
        PROVE  Behind(o, p[i]) >= Len(p) - i + 1 /\ Behind(o, p[i]) <= Behind(o, num)
    <3>1. CASE i \in 1 .. Len(q)
      BY <1>1, <1>5, <1>6, <3>1
    <3>2. CASE i = Len(q) + 1
      BY <1>1, <1>4, <1>5, <3>2
    <3>. QED BY <1>1, <3>1, <3>2
  <2>2. ASSUME NEW i \in 1 .. Len(p), NEW j \in 1 .. Len(p), i < j
        PROVE  Behind(o, p[j]) <= Behind(o, p[i])
    <3>1. i \in 1 .. Len(q)
      BY <1>1, <2>2
    <3>2. CASE j \in 1 .. Len(q)
      BY <1>1, <1>8, <2>2, <3>1, <3>2
    <3>3. CASE j = Len(q) + 1
      BY <1>1, <1>4, <1>6, <3>1, <3>3
    <3>. QED BY <1>1, <3>2, <3>3
  <2>. QED BY <1>9, <1>10, <1>11, <2>1, <2>2 DEF Chain
<1>. QED BY <1>11, <1>12, <1>13 DEF o, p

\* The host takes a report about its own session.
LEMMA ChainRecv ==
  ASSUME NEW s, NEW out \in SeqNum, NEW ack \in SeqNum, NEW num \in SeqNum,
         NEW q \in Seq(SeqNum), NEW rs \in Seq(ReportSet),
         Chain(s, out, ack, num, q, rs), rs # <<>>, Head(rs).about = s
  PROVE  Chain(s, out, Head(rs).seq, num, q, Tail(rs))
<1>1. /\ 1 \in 1 .. Len(rs) /\ Head(rs) = rs[1] /\ Len(Tail(rs)) = Len(rs) - 1
      /\ Len(rs) \in Nat
      /\ \A i \in 1 .. Len(Tail(rs)) : i + 1 \in 1 .. Len(rs) /\ Tail(rs)[i] = rs[i + 1]
  OBVIOUS
<1>2. \A i \in 1 .. Len(rs) : Behind(out, rs[i].seq) \in Nat
  <2>1. \A i \in 1 .. Len(rs) : rs[i].seq \in SeqNum
    BY ReportNumbers
  <2>. QED BY <2>1, BehindOf
<1>3. Behind(out, num) \in Nat /\ Window \in Nat
  BY BehindOf, WindowAssumption
<1>4. ASSUME NEW i \in 1 .. Len(rs), rs[i].about = s
      PROVE  /\ Behind(out, rs[i].seq) >= Behind(out, num)
             /\ Behind(out, rs[i].seq) <= Window + 1
             /\ i > 1 => Behind(out, rs[i].seq) <= Behind(out, rs[1].seq)
  BY <1>1, <1>4 DEF Chain
<1>5. \A i \in 1 .. Len(Tail(rs)) : Tail(rs)[i].about = s =>
       /\ Behind(out, Tail(rs)[i].seq) >= Behind(out, num)
       /\ Behind(out, Tail(rs)[i].seq) <= Behind(out, Head(rs).seq) + 1
       /\ Behind(out, Tail(rs)[i].seq) <= Window + 1
  BY <1>1, <1>2, <1>4
<1>6. \A i, j \in 1 .. Len(Tail(rs)) :
       i < j /\ Tail(rs)[i].about = s /\ Tail(rs)[j].about = s =>
         Behind(out, Tail(rs)[j].seq) <= Behind(out, Tail(rs)[i].seq)
  BY <1>1 DEF Chain
<1>7. /\ Behind(out, num) <= Behind(out, Head(rs).seq) + 1
      /\ Behind(out, Head(rs).seq) <= Window + 1
  BY <1>1, <1>2, <1>3, <1>4
<1>. QED BY <1>5, <1>6, <1>7 DEF Chain

\* A report is lost.
LEMMA ChainLose ==
  ASSUME NEW s, NEW out \in SeqNum, NEW ack \in SeqNum, NEW num \in SeqNum,
         NEW q \in Seq(SeqNum), NEW rs \in Seq(ReportSet),
         Chain(s, out, ack, num, q, rs), rs # <<>>
  PROVE  Chain(s, out, ack, num, q, Tail(rs))
<1>1. /\ Len(Tail(rs)) = Len(rs) - 1 /\ Len(rs) \in Nat
      /\ \A i \in 1 .. Len(Tail(rs)) : i + 1 \in 1 .. Len(rs) /\ Tail(rs)[i] = rs[i + 1]
  OBVIOUS
<1>2. \A i \in 1 .. Len(Tail(rs)) : Tail(rs)[i].about = s =>
       /\ Behind(out, Tail(rs)[i].seq) >= Behind(out, num)
       /\ Behind(out, Tail(rs)[i].seq) <= Behind(out, ack) + 1
       /\ Behind(out, Tail(rs)[i].seq) <= Window + 1
  BY <1>1 DEF Chain
<1>3. \A i, j \in 1 .. Len(Tail(rs)) :
       i < j /\ Tail(rs)[i].about = s /\ Tail(rs)[j].about = s =>
         Behind(out, Tail(rs)[j].seq) <= Behind(out, Tail(rs)[i].seq)
  BY <1>1 DEF Chain
<1>. QED BY <1>2, <1>3 DEF Chain

\* The deframer takes the next packet.
LEMMA ChainConsume ==
  ASSUME NEW s, NEW out \in SeqNum, NEW ack \in SeqNum, NEW num \in SeqNum,
         NEW q \in Seq(SeqNum), NEW rs \in Seq(ReportSet),
         Chain(s, out, ack, num, q, rs), q # <<>>
  PROVE  Chain(s, out, ack, Head(q), Tail(q), rs)
<1>1. /\ 1 \in 1 .. Len(q) /\ Head(q) = q[1] /\ Len(Tail(q)) = Len(q) - 1
      /\ Len(q) \in Nat /\ Len(rs) \in Nat
      /\ \A i \in 1 .. Len(Tail(q)) : i + 1 \in 1 .. Len(q) /\ Tail(q)[i] = q[i + 1]
  OBVIOUS
<1>2. /\ \A i \in 1 .. Len(rs) : Behind(out, rs[i].seq) \in Nat
      /\ \A i \in 1 .. Len(q) : Behind(out, q[i]) \in Nat
      /\ Behind(out, num) \in Nat /\ Behind(out, ack) \in Nat /\ Window \in Nat
  <2>1. /\ \A i \in 1 .. Len(rs) : rs[i].seq \in SeqNum
        /\ \A i \in 1 .. Len(q) : q[i] \in SeqNum
    BY ReportNumbers
  <2>. QED BY <2>1, BehindOf, WindowAssumption
<1>3. /\ Behind(out, q[1]) >= Len(q) /\ Behind(out, q[1]) <= Behind(out, num)
      /\ Behind(out, num) <= Behind(out, ack) + 1 /\ Behind(out, num) <= Window + 1
      /\ Behind(out, ack) <= Window + 1
  <2>1. /\ Behind(out, q[1]) >= Len(q) - 1 + 1 /\ Behind(out, q[1]) <= Behind(out, num)
        /\ Behind(out, num) <= Behind(out, ack) + 1 /\ Behind(out, num) <= Window + 1
        /\ Behind(out, ack) <= Window + 1
    BY <1>1 DEF Chain
  <2>. QED BY <1>1, <1>2, <2>1
<1>4. /\ Behind(out, Head(q)) <= Behind(out, ack) + 1
      /\ Behind(out, Head(q)) >= Len(Tail(q)) + 1
      /\ Behind(out, Head(q)) <= Window + 1
  BY <1>1, <1>2, <1>3
<1>5. ASSUME NEW i \in 1 .. Len(Tail(q))
      PROVE  /\ Behind(out, Tail(q)[i]) >= Len(Tail(q)) - i + 1
             /\ Behind(out, Tail(q)[i]) <= Behind(out, Head(q))
  <2>1. /\ Behind(out, q[i + 1]) >= Len(q) - (i + 1) + 1
        /\ Behind(out, q[i + 1]) <= Behind(out, q[1])
    BY <1>1 DEF Chain
  <2>. QED BY <1>1, <1>2, <2>1
<1>6. \A i, j \in 1 .. Len(Tail(q)) :
        i < j => Behind(out, Tail(q)[j]) <= Behind(out, Tail(q)[i])
  BY <1>1 DEF Chain
<1>7. ASSUME NEW i \in 1 .. Len(rs), rs[i].about = s
      PROVE  /\ Behind(out, rs[i].seq) >= Behind(out, Head(q))
             /\ Behind(out, rs[i].seq) <= Behind(out, ack) + 1
             /\ Behind(out, rs[i].seq) <= Window + 1
  <2>1. /\ Behind(out, rs[i].seq) >= Behind(out, num)
        /\ Behind(out, rs[i].seq) <= Behind(out, ack) + 1
        /\ Behind(out, rs[i].seq) <= Window + 1
    BY <1>7 DEF Chain
  <2>. QED BY <1>1, <1>2, <1>3, <2>1
<1>8. \A i, j \in 1 .. Len(rs) :
       i < j /\ rs[i].about = s /\ rs[j].about = s =>
         Behind(out, rs[j].seq) <= Behind(out, rs[i].seq)
  BY DEF Chain
<1>. QED BY <1>3, <1>4, <1>5, <1>6, <1>7, <1>8 DEF Chain

\* The FPGA reports the number of the last packet consumed.
LEMMA ChainReport ==
  ASSUME NEW s, NEW out \in SeqNum, NEW ack \in SeqNum, NEW num \in SeqNum,
         NEW q \in Seq(SeqNum), NEW rs \in Seq(ReportSet), NEW r \in ReportSet,
         Chain(s, out, ack, num, q, rs), r.seq = num
  PROVE  Chain(s, out, ack, num, q, Append(rs, r))
<1>. DEFINE p == Append(rs, r)
<1>1. /\ Len(p) = Len(rs) + 1 /\ Len(rs) \in Nat /\ p[Len(rs) + 1] = r
      /\ \A i \in 1 .. Len(rs) : p[i] = rs[i]
  OBVIOUS
<1>. HIDE DEF p
<1>2. Behind(out, num) \in Nat
  BY BehindOf
<1>3. ASSUME NEW i \in 1 .. Len(p), p[i].about = s
      PROVE  /\ Behind(out, p[i].seq) >= Behind(out, num)
             /\ Behind(out, p[i].seq) <= Behind(out, ack) + 1
             /\ Behind(out, p[i].seq) <= Window + 1
  <2>1. CASE i \in 1 .. Len(rs)
    BY <1>1, <1>3, <2>1 DEF Chain
  <2>2. CASE i = Len(rs) + 1
    BY <1>1, <1>2, <2>2 DEF Chain
  <2>. QED BY <1>1, <2>1, <2>2
<1>4. ASSUME NEW i \in 1 .. Len(p), NEW j \in 1 .. Len(p), i < j,
             p[i].about = s, p[j].about = s
      PROVE  Behind(out, p[j].seq) <= Behind(out, p[i].seq)
  <2>1. i \in 1 .. Len(rs)
    BY <1>1, <1>4
  <2>2. CASE j \in 1 .. Len(rs)
    BY <1>1, <1>4, <2>1, <2>2 DEF Chain
  <2>3. CASE j = Len(rs) + 1
    BY <1>1, <1>4, <2>1, <2>3 DEF Chain
  <2>. QED BY <1>1, <2>2, <2>3
<1>5. Chain(s, out, ack, num, q, p)
  BY <1>3, <1>4 DEF Chain
<1>. QED BY <1>5 DEF p

\* The SRAM is emptied under a session that is sending.
LEMMA ChainDrop ==
  ASSUME NEW s, NEW out \in SeqNum, NEW ack, NEW num \in SeqNum,
         NEW q \in Seq(SeqNum), NEW rs, Chain(s, out, ack, num, q, rs)
  PROVE  Chain(s, out, ack, num, <<>>, rs)
<1>1. Len(<<>>) = 0 /\ Len(q) \in Nat /\ Behind(out, num) \in Nat
  BY BehindOf
<1>2. Behind(out, num) >= Len(<<>>) + 1
  BY <1>1 DEF Chain
<1>. QED BY <1>1, <1>2 DEF Chain

\* A channel that was cleared, for a session nothing is reported about.
LEMMA ChainStart ==
  ASSUME NEW s, NEW rs, \A i \in 1 .. Len(rs) : rs[i].about # s
  PROVE  Chain(s, 0, 0, SeqMod - 1, <<>>, rs)
BY BehindOne, WindowAssumption DEF Chain

-----------------------------------------------------------------------------
(* Types.                                                                  *)

\* What is left of the reports to a socket that closes.
LEMMA OnTheWayType ==
  ASSUME NEW S, NEW rs \in Seq(S), NEW n \in Nat
  PROVE  OnTheWay(rs, n) \in Seq(S)
BY DEF OnTheWay

\* The variables start with values of their types.
LEMMA InitType == Init => TypeOK
<1>. SUFFICES ASSUME Init PROVE TypeOK
  OBVIOUS
<1>1. /\ reports \in [Sessions -> Seq([seq : SeqNum, about : Sessions \cup {0}])]
      /\ sram \in [Chans -> Seq(SeqNum)]
  BY DEF Init
<1>2. /\ last_seq_out \in [Sessions -> SeqNum] /\ last_seq_ack \in [Sessions -> SeqNum]
      /\ seqnum \in [Chans -> SeqNum]
  BY BehindOne DEF Init
<1>3. /\ icmp \in 0 .. MaxReports /\ {sent, lost, crashes} \subseteq Nat
      /\ st \in [Sessions -> Phases]
  BY BoundAssumption DEF Init, Phases
<1>. QED BY <1>1, <1>2, <1>3 DEF Init, TypeOK

\* Every step of host, radio and network keeps the types.
LEMMA TypeStep == TypeOK /\ [Next]_vars => TypeOK'
<1>. SUFFICES ASSUME TypeOK, [Next]_vars PROVE TypeOK'
  OBVIOUS
<1>. USE DEF TypeOK, sessVars, fpgaVars, histVars
<1>1. ASSUME NEW s \in Sessions, NEW c \in Chans, MakeXport(s, c) PROVE TypeOK'
  BY <1>1 DEF MakeXport, Phases
<1>2. ASSUME NEW s \in Sessions, Clear(s) PROVE TypeOK'
  <2>1. sram' \in [Chans -> Seq(SeqNum)]
    <3>. DEFINE e == <<>>
    <3>1. e \in Seq(SeqNum)
      OBVIOUS
    <3>2. sram' = [sram EXCEPT ![chan[s]] = e]
      BY <1>2 DEF Clear
    <3>. HIDE DEF e
    <3>. QED BY <3>1, <3>2
  <2>2. seqnum' \in [Chans -> SeqNum]
    BY <1>2, BehindOne DEF Clear
  <2>. QED BY <1>2, <2>1, <2>2 DEF Clear, Phases
<1>3. ASSUME NEW s \in Sessions, Open(s) PROVE TypeOK'
  BY <1>3, BehindOne DEF Open, Phases
<1>4. ASSUME NEW s \in Sessions, Send(s) PROVE TypeOK'
  <2>1. NextSeq(last_seq_out[s]) \in SeqNum /\ last_seq_out[s] \in SeqNum
    BY NextSeqOf
  <2>2. last_seq_out' \in [Sessions -> SeqNum]
    BY <1>4, <2>1 DEF Send
  <2>3. sram' \in [Chans -> Seq(SeqNum)]
    <3>. DEFINE q == Append(sram[chan[s]], last_seq_out[s])
    <3>1. CASE chan[s] \in Chans
      <4>1. q \in Seq(SeqNum)
        BY <2>1, <3>1
      <4>2. sram' = [sram EXCEPT ![chan[s]] = q]
        BY <1>4 DEF Send
      <4>. HIDE DEF q
      <4>. QED BY <3>1, <4>1, <4>2
    <3>2. CASE chan[s] \notin Chans
      BY <1>4, <3>2 DEF Send
    <3>. QED BY <3>1, <3>2
  <2>4. {sent, lost, crashes}' \subseteq Nat
    <3>1. sent \in Nat /\ lost \in Nat /\ crashes \in Nat
      OBVIOUS
    <3>. QED BY <1>4, <3>1 DEF Send
  <2>. QED BY <1>4, <2>2, <2>3, <2>4 DEF Send
<1>5. ASSUME NEW s \in Sessions, SendLost(s) PROVE TypeOK'
  <2>1. NextSeq(last_seq_out[s]) \in SeqNum
    BY NextSeqOf
  <2>4. {sent, lost, crashes}' \subseteq Nat
    <3>1. sent \in Nat /\ lost \in Nat /\ crashes \in Nat
      OBVIOUS
    <3>. QED BY <1>5, <3>1 DEF SendLost
  <2>. QED BY <1>5, <2>1, <2>4 DEF SendLost
<1>6. ASSUME NEW s \in Sessions, RecvReport(s) PROVE TypeOK'
  <2>1. /\ reports[s] \in Seq(ReportSet) /\ reports[s] # <<>>
    BY <1>6 DEF RecvReport, ReportSet
  <2>2. 1 \in 1 .. Len(reports[s]) /\ Head(reports[s]) = reports[s][1]
        /\ Tail(reports[s]) \in Seq(ReportSet)
    BY <2>1
  <2>3. Head(reports[s]).seq \in SeqNum
    BY <2>1, <2>2, ReportNumbers
  <2>. QED BY <1>6, <2>2, <2>3 DEF RecvReport, ReportSet
<1>7. ASSUME NEW s \in Sessions, StopFlowControl(s) PROVE TypeOK'
  BY <1>7 DEF StopFlowControl, Phases
<1>8. ASSUME NEW s \in Sessions, Flush(s) PROVE TypeOK'
  <2>1. PICK n \in 0 .. Len(reports[s]) : reports' = [reports EXCEPT ![s] = OnTheWay(@, n)]
    BY <1>8 DEF Flush
  <2>2. OnTheWay(reports[s], n) \in Seq(ReportSet)
    <3>1. reports[s] \in Seq(ReportSet)
      BY DEF ReportSet
    <3>. QED BY <3>1, OnTheWayType
  <2>3. reports' \in [Sessions -> Seq(ReportSet)]
    BY <2>1, <2>2 DEF ReportSet
  <2>. QED BY <1>8, <2>3 DEF Flush, Phases, ReportSet
<1>9. ASSUME NEW s \in Sessions, LoseReport(s) PROVE TypeOK'
  <2>1. reports' \in [Sessions -> Seq([seq : SeqNum, about : Sessions \cup {0}])]
    <3>1. reports[s] \in Seq([seq : SeqNum, about : Sessions \cup {0}]) /\ reports[s] # <<>>
      BY <1>9 DEF LoseReport
    <3>2. Tail(reports[s]) \in Seq([seq : SeqNum, about : Sessions \cup {0}])
      BY <3>1
    <3>. QED BY <1>9, <3>2 DEF LoseReport
  <2>4. {sent, lost, crashes}' \subseteq Nat
    <3>1. sent \in Nat /\ lost \in Nat /\ crashes \in Nat
      OBVIOUS
    <3>. QED BY <1>9, <3>1 DEF LoseReport
  <2>. QED BY <1>9, <2>1, <2>4 DEF LoseReport
<1>10. ASSUME NEW s \in Sessions, StrayReport(s) PROVE TypeOK'
  <2>1. reports' \in [Sessions -> Seq([seq : SeqNum, about : Sessions \cup {0}])]
    <3>1. reports[s] \in Seq([seq : SeqNum, about : Sessions \cup {0}]) /\ reports[s] # <<>>
      BY <1>10 DEF StrayReport
    <3>2. Tail(reports[s]) \in Seq([seq : SeqNum, about : Sessions \cup {0}])
      BY <3>1
    <3>. QED BY <1>10, <3>2 DEF StrayReport
  <2>2. icmp' \in 0 .. MaxReports
    BY <1>10, BoundAssumption DEF StrayReport
  <2>. QED BY <1>10, <2>1, <2>2 DEF StrayReport
<1>11. ASSUME NEW c \in Chans, Consume(c) PROVE TypeOK'
  <2>1. /\ sram[c] \in Seq(SeqNum) /\ sram[c] # <<>>
    BY <1>11 DEF Consume
  <2>2. Head(sram[c]) \in SeqNum /\ Tail(sram[c]) \in Seq(SeqNum)
    BY <2>1
  <2>. QED BY <1>11, <2>2 DEF Consume
<1>12. ASSUME NEW c \in Chans, Report(c) PROVE TypeOK'
  <2>. DEFINE r == [seq |-> seqnum[c], about |-> IF st[dest[c]] = "xport" THEN 0 ELSE dest[c]]
  <2>1. r \in ReportSet /\ dest[c] \in Sessions
    BY <1>12 DEF Report, ReportSet
  <2>2. reports' = [reports EXCEPT ![dest[c]] = Append(@, r)]
    BY <1>12 DEF Report
  <2>. HIDE DEF r
  <2>3. reports' \in [Sessions -> Seq(ReportSet)]
    <3>1. Append(reports[dest[c]], r) \in Seq(ReportSet)
      <4>1. reports[dest[c]] \in Seq(ReportSet)
        BY <2>1 DEF ReportSet
      <4>. QED BY <2>1, <4>1
    <3>. QED BY <2>1, <2>2, <3>1 DEF ReportSet
  <2>. QED BY <1>12, <2>3 DEF Report, ReportSet
<1>13. CASE HandleIcmp
  <2>1. icmp' \in 0 .. MaxReports
    BY <1>13, BoundAssumption DEF HandleIcmp
  <2>2. killed' \in BOOLEAN
    BY <1>13 DEF HandleIcmp
  <2>3. sram' \in [Chans -> Seq(SeqNum)]
    BY <1>13 DEF HandleIcmp
  <2>. QED BY <1>13, <2>1, <2>2, <2>3 DEF HandleIcmp
<1>14. CASE Crash
  <2>1. PICK n \in [Sessions -> 0 .. MaxReports] :
          reports' = [s \in Sessions |-> OnTheWay(reports[s], n[s])]
    BY <1>14 DEF Crash
  <2>2. \A s \in Sessions : OnTheWay(reports[s], n[s]) \in Seq(ReportSet)
    <3>1. \A s \in Sessions : reports[s] \in Seq(ReportSet) /\ n[s] \in Nat
      <4>1. \A s \in Sessions : reports[s] \in Seq(ReportSet)
        BY DEF ReportSet
      <4>2. \A s \in Sessions : n[s] \in Nat
        BY BoundAssumption
      <4>. QED BY <4>1, <4>2
    <3>. QED BY <3>1, OnTheWayType
  <2>3. reports' \in [Sessions -> Seq(ReportSet)]
    BY <2>1, <2>2
  <2>4. st' \in [Sessions -> Phases]
    BY <1>14 DEF Crash, Phases
  <2>5. {sent, lost, crashes}' \subseteq Nat
    <3>1. sent \in Nat /\ lost \in Nat /\ crashes \in Nat
      OBVIOUS
    <3>. QED BY <1>14, <3>1 DEF Crash
  <2>. QED BY <1>14, <2>3, <2>4, <2>5 DEF Crash, ReportSet
<1>15. CASE Reopen
  <2>1. sram' \in [Chans -> Seq(SeqNum)]
    BY <1>15 DEF Reopen
  <2>2. seqnum' \in [Chans -> SeqNum]
    BY <1>15, BehindOne DEF Reopen
  <2>. QED BY <1>15, <2>1, <2>2 DEF Reopen
<1>16. CASE UNCHANGED vars
  BY <1>16 DEF vars
<1>. QED BY <1>1, <1>2, <1>3, <1>4, <1>5, <1>6, <1>7, <1>8, <1>9, <1>10, <1>11, <1>12,
            <1>13, <1>14, <1>15, <1>16 DEF Next, Host

-----------------------------------------------------------------------------
(* Every step keeps the invariant.                                         *)

\* The numbers and queues of a channel and of a session.
LEMMA Parts ==
  ASSUME TypeOK
  PROVE  /\ \A s \in Sessions : /\ s \in Nat /\ s >= 1
                                /\ last_seq_out[s] \in SeqNum /\ last_seq_ack[s] \in SeqNum
                                /\ reports[s] \in Seq(ReportSet)
         /\ \A c \in Chans : /\ seqnum[c] \in SeqNum /\ sram[c] \in Seq(SeqNum)
                             /\ dest[c] \in Nat /\ dest[c] \in Sessions \cup {0}
  <1>1. \A s \in Sessions : s \in Nat /\ s >= 1
    BY SessionsAssumption DEF Sessions
  <1>2. \A s \in Sessions : /\ last_seq_out[s] \in SeqNum /\ last_seq_ack[s] \in SeqNum
                            /\ reports[s] \in Seq(ReportSet)
    BY DEF TypeOK, ReportSet
  <1>3. \A c \in Chans : /\ seqnum[c] \in SeqNum /\ sram[c] \in Seq(SeqNum)
                         /\ dest[c] \in Sessions \cup {0}
    BY DEF TypeOK
  <1>. QED BY <1>1, <1>2, <1>3

\* The application sends on the session that the framer of its channel answers.
LEMMA SenderOwns ==
  ASSUME IInv, NEW s \in Sessions, st[s] # "unused", Newest(s)
  PROVE  chan[s] \in Chans /\ dest[chan[s]] = s
<1>1. chan[s] \in Chans /\ dest[chan[s]] >= s /\ s \in Nat /\ s >= 1
  BY Parts DEF IInv, DestNewest
<1>2. dest[chan[s]] \in Sessions /\ dest[chan[s]] \in Nat
  <2>1. dest[chan[s]] \in Nat /\ dest[chan[s]] \in Sessions \cup {0}
    BY <1>1, Parts DEF IInv
  <2>. QED BY <1>1, <2>1
<1>3. st[dest[chan[s]]] # "unused" /\ chan[dest[chan[s]]] = chan[s]
  BY <1>1, <1>2 DEF IInv, DestNewest
<1>. QED BY <1>1, <1>2, <1>3 DEF Newest

\* A step that does not concern a channel.
LEMMA Untouched ==
  ASSUME NEW c \in Chans, InWindow(c), Clean(c)' => Clean(c),
         sram'[c] = sram[c], dest'[c] = dest[c],
         Owned(c)' => /\ Owned(c)
                      /\ seqnum'[c] = seqnum[c]
                      /\ last_seq_out'[dest[c]] = last_seq_out[dest[c]]
                      /\ last_seq_ack'[dest[c]] = last_seq_ack[dest[c]]
                      /\ reports'[dest[c]] = reports[dest[c]]
  PROVE  InWindow(c)'
BY DEF InWindow

\* A new session becomes the owner of its channel.
LEMMA MakeXportStep ==
  ASSUME IInv, TypeOK', NEW s \in Sessions, NEW c \in Chans, MakeXport(s, c)
  PROVE  IInv'
<1>. USE DEF IInv
<1>1. /\ st[s] = "unused" /\ \A t \in Sessions : t < s => st[t] \notin {"unused", "xport", "cleared"}
      /\ st' = [st EXCEPT ![s] = "xport"] /\ chan' = [chan EXCEPT ![s] = c]
      /\ dest' = [dest EXCEPT ![c] = s]
      /\ UNCHANGED <<device, last_seq_out, last_seq_ack, sram, seqnum, updates, reports,
                     icmp, stale, killed, sent, lost, crashes>>
  BY DEF MakeXport, NextSession, histVars
<1>2. /\ st \in [Sessions -> Phases] /\ chan \in [Sessions -> Chans \cup {None}]
      /\ dest \in [Chans -> Sessions \cup {0}]
      /\ stale \subseteq Sessions
  BY DEF TypeOK
<1>3. \A t \in Sessions : t \in Nat /\ t >= 1
  BY Parts
<1>4. \A t \in Sessions : t > s => st[t] = "unused"
  BY <1>1 DEF InOrder
<1>5. DestNewest'
  <2>1. ASSUME NEW d \in Chans, dest'[d] \in Sessions
        PROVE  st'[dest'[d]] # "unused" /\ chan'[dest'[d]] = d
    <3>1. CASE d = c
      BY <1>1, <1>2, <3>1
    <3>2. CASE d # c
      <4>1. dest'[d] = dest[d] /\ st[dest[d]] # "unused" /\ chan[dest[d]] = d /\ dest[d] # s
        BY <1>1, <1>2, <2>1, <3>2 DEF DestNewest
      <4>. QED BY <1>1, <1>2, <2>1, <4>1
    <3>. QED BY <3>1, <3>2
  <2>2. ASSUME NEW t \in Sessions, st'[t] # "unused"
        PROVE  chan'[t] \in Chans /\ dest'[chan'[t]] >= t
    <3>1. CASE t = s
      BY <1>1, <1>2, <1>3, <3>1
    <3>2. CASE t # s
      <4>1. /\ st[t] # "unused" /\ chan'[t] = chan[t] /\ chan[t] \in Chans
            /\ dest[chan[t]] >= t
        BY <1>1, <1>2, <2>2, <3>2 DEF DestNewest
      <4>2. t < s
        BY <1>3, <1>4, <3>2, <4>1
      <4>. QED BY <1>1, <1>2, <1>3, <4>1, <4>2
    <3>. QED BY <3>1, <3>2
  <2>. QED BY <2>1, <2>2 DEF DestNewest
<1>6. InOrder'
  BY <1>1, <1>2, <1>3, <1>4 DEF InOrder
<1>7. Fresh'
  BY <1>1, <1>2 DEF Fresh
<1>8. ASSUME NEW d \in Chans PROVE InWindow(d)'
  <2>1. Clean(d)' => Clean(d)
    <3>1. s \notin stale
      BY <1>1 DEF Fresh
    <3>. QED BY <1>1, <1>2, <3>1 DEF Clean
  <2>2. CASE d = c
    <3>1. ~Owned(d)'
      BY <1>1, <1>2, <2>2 DEF Owned
    <3>. QED BY <1>1, <2>1, <3>1 DEF InWindow
  <2>3. CASE d # c
    <3>1. dest'[d] = dest[d]
      BY <1>1, <1>2, <2>3
    <3>2. Owned(d)' => Owned(d)
      BY <1>1, <1>2, <3>1 DEF Owned
    <3>. QED BY <1>1, <2>1, <3>1, <3>2, Untouched
  <2>. QED BY <2>2, <2>3
<1>9. Dead'
  BY DEF MakeXport, NextSession, Dead
<1>. QED BY <1>5, <1>6, <1>7, <1>8, <1>9

\* A step of session s from one phase to a later one leaves the owners and the
\* order of the sessions as they are.
LEMMA PhaseStep ==
  ASSUME IInv, NEW s \in Sessions, NEW phase \in Phases \ {"unused", "xport"},
         st[s] # "unused", st' = [st EXCEPT ![s] = phase],
         phase = "cleared" => st[s] = "xport",
         UNCHANGED <<chan, dest, device>>, st[s] # "closed"
  PROVE  DestNewest' /\ InOrder' /\ Dead'
<1>1. st \in [Sessions -> Phases]
  BY DEF IInv, TypeOK
<1>2. \A t \in Sessions : /\ st'[t] = "unused" <=> st[t] = "unused"
                          /\ st'[t] \in {"unused", "xport", "cleared"} =>
                               st[t] \in {"unused", "xport", "cleared"}
  BY <1>1
<1>3. DestNewest'
  BY <1>2 DEF IInv, DestNewest
<1>4. InOrder'
  BY <1>2 DEF IInv, InOrder
<1>5. Dead'
  BY DEF IInv, Dead
<1>. QED BY <1>3, <1>4, <1>5

\* A session that is being made is the owner of its channel.
LEMMA MadeOwns ==
  ASSUME IInv, NEW s \in Sessions, st[s] \in {"xport", "cleared"}
  PROVE  chan[s] \in Chans /\ dest[chan[s]] = s
<1>1. Newest(s)
  BY DEF Newest, IInv, InOrder
<1>. QED BY <1>1, SenderOwns

\* The channel is cleared: the chain of its owner begins.
LEMMA ClearStep ==
  ASSUME IInv, TypeOK', NEW s \in Sessions, Clear(s)
  PROVE  IInv'
<1>. DEFINE c == chan[s]
<1>1. /\ st[s] = "xport" /\ st' = [st EXCEPT ![s] = "cleared"]
      /\ sram' = [sram EXCEPT ![c] = <<>>]
      /\ seqnum' = [seqnum EXCEPT ![c] = SeqMod - 1]
      /\ UNCHANGED <<device, chan, last_seq_out, last_seq_ack, updates, dest, reports,
                     icmp, stale, killed, sent, lost, crashes>>
  BY DEF Clear, histVars
<1>2. /\ st \in [Sessions -> Phases] /\ sram \in [Chans -> Seq(SeqNum)]
      /\ seqnum \in [Chans -> SeqNum]
  BY DEF IInv, TypeOK
<1>3. c \in Chans /\ dest[c] = s
  BY <1>1, MadeOwns
<1>. HIDE DEF c
<1>4. DestNewest' /\ InOrder' /\ Dead'
  BY <1>1, PhaseStep DEF Phases
<1>5. Fresh'
  BY <1>1, <1>2 DEF IInv, Fresh
<1>6. ASSUME NEW d \in Chans PROVE InWindow(d)'
  <2>1. Clean(d)' => Clean(d)
    BY <1>1 DEF Clean
  <2>2. CASE d = c
    <3>1. last_seq_out[s] = 0 /\ last_seq_ack[s] = 0 /\ s >= 1 /\ s \in Nat
      BY <1>1, Parts DEF IInv, Fresh
    <3>2. \A i \in 1 .. Len(reports[s]) : reports[s][i].about # s
      BY <1>1, <3>1 DEF IInv, Fresh
    <3>3. Chain(s, 0, 0, SeqMod - 1, <<>>, reports[s])
      BY <3>2, ChainStart
    <3>4. sram'[d] = <<>> /\ seqnum'[d] = SeqMod - 1 /\ dest'[d] = s
      BY <1>1, <1>2, <1>3, <2>2
    <3>5. Len(sram'[d]) <= Window
      BY <3>4, WindowAssumption
    <3>. QED BY <1>1, <3>1, <3>3, <3>4, <3>5 DEF InWindow
  <2>3. CASE d # c
    <3>1. dest[d] # s
      BY <1>1, <1>3, <2>3 DEF IInv, DestNewest, c
    <3>2. Owned(d)' => Owned(d)
      BY <1>1, <1>2, <3>1 DEF Owned
    <3>3. sram'[d] = sram[d] /\ seqnum'[d] = seqnum[d]
      BY <1>1, <1>2, <1>3, <2>3
    <3>. QED BY <1>1, <2>1, <3>2, <3>3, Untouched DEF IInv
  <2>. QED BY <2>2, <2>3
<1>. QED BY <1>4, <1>5, <1>6 DEF IInv

\* A fresh monitor: its numbers are those that the chain began with.
LEMMA OpenStep ==
  ASSUME IInv, TypeOK', NEW s \in Sessions, Open(s)
  PROVE  IInv'
<1>1. /\ st[s] = "cleared" /\ st' = [st EXCEPT ![s] = "open"]
      /\ last_seq_out' = [last_seq_out EXCEPT ![s] = 0]
      /\ last_seq_ack' = [last_seq_ack EXCEPT ![s] = 0]
      /\ UNCHANGED <<device, chan, sram, seqnum, dest, reports, icmp, stale, killed,
                     sent, lost, crashes>>
  BY DEF Open, histVars
<1>2. /\ st \in [Sessions -> Phases] /\ last_seq_out \in [Sessions -> SeqNum]
      /\ last_seq_ack \in [Sessions -> SeqNum]
      /\ last_seq_out[s] = 0 /\ last_seq_ack[s] = 0
  BY <1>1 DEF IInv, TypeOK, Fresh
<1>3. DestNewest' /\ InOrder' /\ Dead'
  BY <1>1, PhaseStep DEF Phases
<1>4. Fresh'
  BY <1>1, <1>2 DEF IInv, Fresh
<1>5. last_seq_out' = last_seq_out /\ last_seq_ack' = last_seq_ack
  BY <1>1, <1>2
<1>6. ASSUME NEW d \in Chans PROVE InWindow(d)'
  <2>1. Clean(d)' => Clean(d)
    BY <1>1 DEF Clean
  <2>2. Owned(d)' => Owned(d)
    BY <1>1, <1>2 DEF Owned
  <2>. QED BY <1>1, <1>5, <2>1, <2>2, Untouched DEF IInv
<1>. QED BY <1>3, <1>4, <1>6 DEF IInv

\* A streamer ends, or its socket closes: the channel has no owner left.
LEMMA EndStep ==
  ASSUME IInv, TypeOK', NEW s \in Sessions, StopFlowControl(s) \/ Flush(s)
  PROVE  IInv'
<1>. DEFINE phase == IF StopFlowControl(s) THEN "flush" ELSE "closed"
<1>1. /\ st[s] \in {"open", "flush"} /\ st' = [st EXCEPT ![s] = phase]
      /\ \A t \in Sessions \ {s} : reports'[t] = reports[t]
      /\ UNCHANGED <<device, chan, last_seq_out, last_seq_ack, sram, seqnum, dest, icmp,
                     stale, killed, sent, lost, crashes>>
  <2>1. reports \in [Sessions -> Seq(ReportSet)]
    BY DEF IInv, TypeOK, ReportSet
  <2>. QED BY <2>1 DEF StopFlowControl, Flush, histVars, fpgaVars
<1>2. st \in [Sessions -> Phases] /\ phase \in {"flush", "closed"}
  BY DEF IInv, TypeOK
<1>. HIDE DEF phase
<1>3. DestNewest' /\ InOrder' /\ Dead'
  BY <1>1, <1>2, PhaseStep DEF Phases
<1>4. Fresh'
  <2>1. ASSUME NEW t \in Sessions, st'[t] \in {"unused", "xport", "cleared"}
        PROVE  t # s /\ st[t] = st'[t] /\ reports'[t] = reports[t]
    BY <1>1, <1>2, <2>1
  <2>. QED BY <1>1, <2>1 DEF IInv, Fresh
<1>5. ASSUME NEW d \in Chans PROVE InWindow(d)'
  <2>1. Clean(d)' => Clean(d)
    BY <1>1 DEF Clean
  <2>2. Owned(d)' => Owned(d) /\ dest[d] # s
    BY <1>1, <1>2 DEF Owned
  <2>3. Owned(d)' => reports'[dest[d]] = reports[dest[d]]
    BY <1>1, <2>2 DEF Owned
  <2>. QED BY <1>1, <2>1, <2>2, <2>3, Untouched DEF IInv
<1>. QED BY <1>3, <1>4, <1>5 DEF IInv

\* A packet is sent, arrived or lost.
LEMMA SendStep ==
  ASSUME IInv, TypeOK', NEW s \in Sessions, Send(s) \/ SendLost(s)
  PROVE  IInv'
<1>. DEFINE c == chan[s]
            out == last_seq_out[s]
<1>1. /\ st[s] = "open" /\ Newest(s) /\ Ready(s)
      /\ last_seq_out' = [last_seq_out EXCEPT ![s] = NextSeq(out)]
      /\ sram' = [sram EXCEPT ![c] = Append(@, out)] \/ sram' = sram
      /\ UNCHANGED <<device, st, chan, last_seq_ack, seqnum, dest, reports, stale>>
  BY DEF Send, SendLost, Sending, histVars, fpgaVars
<1>2. c \in Chans /\ dest[c] = s
  BY <1>1, SenderOwns
<1>3. /\ last_seq_out \in [Sessions -> SeqNum] /\ sram \in [Chans -> Seq(SeqNum)]
      /\ seqnum[c] \in SeqNum /\ last_seq_ack[s] \in SeqNum /\ out \in SeqNum
      /\ reports[s] \in Seq(ReportSet) /\ sram[c] \in Seq(SeqNum)
  BY <1>2, Parts DEF IInv, TypeOK
<1>4. Behind(out, last_seq_ack[s]) < Window
  BY <1>1 DEF Ready, Behind
<1>5. last_seq_out'[s] = NextSeq(out)
      /\ \A t \in Sessions \ {s} : last_seq_out'[t] = last_seq_out[t]
  BY <1>1, <1>3
<1>6. sram'[c] \in {Append(sram[c], out), sram[c]}
      /\ \A d \in Chans \ {c} : sram'[d] = sram[d]
  BY <1>1, <1>2, <1>3
<1>. HIDE DEF c, out
<1>7. DestNewest' /\ InOrder' /\ Dead'
  BY <1>1 DEF IInv, DestNewest, InOrder, Dead
<1>8. Fresh'
  BY <1>1, <1>5 DEF IInv, Fresh
<1>9. ASSUME NEW d \in Chans PROVE InWindow(d)'
  <2>1. Clean(d)' => Clean(d)
    BY <1>1 DEF Clean
  <2>2. CASE d = c
    <3>1. Owned(c)
      BY <1>1, <1>2 DEF Owned
    <3>2. ASSUME Clean(c)
          PROVE  /\ Chain(s, NextSeq(out), last_seq_ack[s], seqnum[c], sram'[c], reports[s])
                 /\ Len(sram'[c]) <= Window
      <4>1. Chain(s, out, last_seq_ack[s], seqnum[c], sram[c], reports[s])
        BY <1>2, <3>1, <3>2 DEF IInv, InWindow, out
      <4>2. /\ Chain(s, NextSeq(out), last_seq_ack[s], seqnum[c], Append(sram[c], out), reports[s])
            /\ Chain(s, NextSeq(out), last_seq_ack[s], seqnum[c], sram[c], reports[s])
            /\ Len(Append(sram[c], out)) <= Window /\ Len(sram[c]) <= Window
        BY <1>3, <1>4, <4>1, ChainSend
      <4>. QED BY <1>6, <4>2
    <3>. QED BY <1>1, <1>2, <1>5, <2>1, <2>2, <3>2 DEF InWindow
  <2>3. CASE d # c
    <3>1. Owned(d)' => Owned(d) /\ dest[d] \in Sessions \ {s}
      BY <1>1, <1>2, <2>3 DEF Owned, IInv, DestNewest, c
    <3>. QED BY <1>1, <1>5, <1>6, <2>1, <2>3, <3>1, Untouched DEF IInv
  <2>. QED BY <2>2, <2>3
<1>. QED BY <1>7, <1>8, <1>9 DEF IInv

\* A report is taken by the host or is lost or bounces off a closed socket.
LEMMA ReportGoneStep ==
  ASSUME IInv, TypeOK', NEW s \in Sessions,
         RecvReport(s) \/ LoseReport(s) \/ StrayReport(s)
  PROVE  IInv'
<1>. DEFINE r == Head(reports[s])
            c == chan[s]
<1>1. /\ reports[s] # <<>>
      /\ reports' = [reports EXCEPT ![s] = Tail(@)]
      /\ \/ last_seq_ack' = last_seq_ack /\ stale' = stale
         \/ /\ last_seq_ack' = [last_seq_ack EXCEPT ![s] = r.seq]
            /\ stale' = IF r.about = s THEN stale ELSE stale \cup {s}
            /\ st[s] = "open"
      /\ UNCHANGED <<device, st, chan, last_seq_out, sram, seqnum, dest>>
  BY DEF RecvReport, LoseReport, StrayReport, histVars, fpgaVars, sessVars
<1>2. /\ last_seq_ack \in [Sessions -> SeqNum] /\ reports \in [Sessions -> Seq(ReportSet)]
      /\ reports[s] \in Seq(ReportSet) /\ stale \subseteq Sessions
  BY DEF IInv, TypeOK, ReportSet
<1>3. st[s] # "unused"
  BY <1>1 DEF IInv, Fresh
<1>4. /\ reports'[s] = Tail(reports[s])
      /\ \A t \in Sessions \ {s} : /\ reports'[t] = reports[t]
                                   /\ last_seq_ack'[t] = last_seq_ack[t]
  BY <1>1, <1>2
<1>. HIDE DEF r, c
<1>5. DestNewest' /\ InOrder' /\ Dead'
  BY <1>1 DEF IInv, DestNewest, InOrder, Dead
<1>6. Fresh'
  <2>1. ASSUME NEW t \in Sessions, st'[t] \in {"unused", "xport", "cleared"}
        PROVE  last_seq_ack'[t] = last_seq_ack[t]
    BY <1>1, <1>2, <2>1
  <2>2. ASSUME NEW t \in Sessions, st'[t] = "unused"
        PROVE  t # s /\ reports'[t] = reports[t] /\ (t \in stale' => t \in stale)
    BY <1>1, <1>3, <1>4, <2>2
  <2>3. ASSUME NEW t \in Sessions, st'[t] = "xport", NEW i \in 1 .. Len(reports'[t])
        PROVE  reports'[t][i].about = 0
    <3>1. CASE t = s
      <4>1. i + 1 \in 1 .. Len(reports[s]) /\ Tail(reports[s])[i] = reports[s][i + 1]
        BY <1>1, <1>2, <1>4, <2>3, <3>1
      <4>. QED BY <1>1, <1>4, <2>3, <3>1, <4>1 DEF IInv, Fresh
    <3>2. CASE t # s
      BY <1>1, <1>4, <2>3, <3>2 DEF IInv, Fresh
    <3>. QED BY <3>1, <3>2
  <2>. QED BY <1>1, <2>1, <2>2, <2>3 DEF IInv, Fresh
<1>7. ASSUME NEW d \in Chans PROVE InWindow(d)'
  <2>1. Clean(d)' => Clean(d)
    BY <1>1, <1>2 DEF Clean
  <2>2. CASE dest[d] = s /\ Clean(d)' /\ Owned(d)'
    <3>1. Owned(d) /\ chan[s] = d
      BY <1>1, <2>2 DEF Owned, IInv, DestNewest
    <3>2. /\ last_seq_out[s] \in SeqNum /\ last_seq_ack[s] \in SeqNum
          /\ seqnum[d] \in SeqNum /\ sram[d] \in Seq(SeqNum)
      BY Parts DEF IInv
    <3>3. /\ Chain(s, last_seq_out[s], last_seq_ack[s], seqnum[d], sram[d], reports[s])
          /\ Len(sram[d]) <= Window
      BY <2>1, <2>2, <3>1 DEF IInv, InWindow
    <3>4. CASE last_seq_ack' = last_seq_ack
      <4>1. Chain(s, last_seq_out[s], last_seq_ack[s], seqnum[d], sram[d], Tail(reports[s]))
        BY <1>1, <1>2, <3>2, <3>3, ChainLose
      <4>. QED BY <1>1, <1>4, <2>2, <3>3, <3>4, <4>1 DEF InWindow
    <3>5. CASE /\ last_seq_ack' = [last_seq_ack EXCEPT ![s] = r.seq]
               /\ stale' = IF r.about = s THEN stale ELSE stale \cup {s}
      <4>1. r.about = s
        BY <1>1, <2>2, <3>1, <3>5 DEF Clean
      <4>2. Chain(s, last_seq_out[s], r.seq, seqnum[d], sram[d], Tail(reports[s]))
        BY <1>1, <1>2, <3>2, <3>3, <4>1, ChainRecv DEF r
      <4>3. last_seq_ack'[s] = r.seq
        BY <1>2, <3>5
      <4>. QED BY <1>1, <1>4, <2>2, <3>3, <4>2, <4>3 DEF InWindow
    <3>. QED BY <1>1, <3>4, <3>5
  <2>3. CASE ~Clean(d)'
    BY <2>3 DEF InWindow
  <2>4. CASE ~Owned(d)' \/ dest[d] # s
    <3>1. Owned(d)' => Owned(d) /\ dest[d] \in Sessions \ {s}
      BY <1>1, <2>4 DEF Owned
    <3>. QED BY <1>1, <1>4, <2>1, <3>1, Untouched DEF IInv
  <2>. QED BY <2>2, <2>3, <2>4
<1>. QED BY <1>5, <1>6, <1>7 DEF IInv

\* The deframer takes a packet.
LEMMA ConsumeStep ==
  ASSUME IInv, TypeOK', NEW c \in Chans, Consume(c)
  PROVE  IInv'
<1>1. /\ sram[c] # <<>> /\ sram' = [sram EXCEPT ![c] = Tail(@)]
      /\ seqnum' = [seqnum EXCEPT ![c] = Head(sram[c])]
      /\ UNCHANGED <<device, st, chan, last_seq_out, last_seq_ack, dest, reports, stale>>
  BY DEF Consume, histVars, sessVars
<1>2. /\ sram \in [Chans -> Seq(SeqNum)] /\ seqnum \in [Chans -> SeqNum]
  BY DEF IInv, TypeOK
<1>3. DestNewest' /\ InOrder' /\ Dead' /\ Fresh'
  BY <1>1 DEF IInv, DestNewest, InOrder, Fresh, Dead
<1>4. ASSUME NEW d \in Chans PROVE InWindow(d)'
  <2>1. Clean(d)' = Clean(d) /\ Owned(d)' = Owned(d)
    BY <1>1 DEF Clean, Owned
  <2>2. CASE d = c /\ Clean(c)
    <3>1. sram'[c] = Tail(sram[c]) /\ seqnum'[c] = Head(sram[c])
      BY <1>1, <1>2
    <3>2. Len(sram'[c]) <= Window
      <4>1. Len(sram[c]) <= Window /\ sram[c] \in Seq(SeqNum)
        BY <1>2, <2>2 DEF IInv, InWindow
      <4>2. Len(Tail(sram[c])) = Len(sram[c]) - 1 /\ Len(sram[c]) \in Nat
        BY <1>1, <4>1
      <4>. QED BY <3>1, <4>1, <4>2, WindowAssumption
    <3>3. ASSUME Owned(c)
          PROVE  Chain(dest[c], last_seq_out[dest[c]], last_seq_ack[dest[c]],
                       Head(sram[c]), Tail(sram[c]), reports[dest[c]])
      <4>1. Chain(dest[c], last_seq_out[dest[c]], last_seq_ack[dest[c]],
                  seqnum[c], sram[c], reports[dest[c]])
        BY <2>2, <3>3 DEF IInv, InWindow
      <4>2. dest[c] \in Sessions
        BY <3>3 DEF Owned
      <4>3. /\ last_seq_out[dest[c]] \in SeqNum /\ last_seq_ack[dest[c]] \in SeqNum
            /\ reports[dest[c]] \in Seq(ReportSet)
            /\ seqnum[c] \in SeqNum /\ sram[c] \in Seq(SeqNum)
        BY <4>2, Parts DEF IInv
      <4>. QED BY <1>1, <4>1, <4>3, ChainConsume
    <3>. QED BY <1>1, <2>1, <2>2, <3>1, <3>2, <3>3 DEF InWindow
  <2>3. CASE ~Clean(d)
    BY <2>1, <2>3 DEF InWindow
  <2>4. CASE d # c
    <3>1. sram'[d] = sram[d] /\ seqnum'[d] = seqnum[d]
      BY <1>1, <1>2, <2>4
    <3>. QED BY <1>1, <2>1, <3>1, Untouched DEF IInv
  <2>. QED BY <2>2, <2>3, <2>4
<1>. QED BY <1>3, <1>4 DEF IInv

\* The FPGA makes a report for the owner of a channel.
LEMMA ReportStep ==
  ASSUME IInv, TypeOK', NEW c \in Chans, Report(c)
  PROVE  IInv'
<1>. DEFINE s == dest[c]
            r == [seq |-> seqnum[c], about |-> IF st[dest[c]] = "xport" THEN 0 ELSE dest[c]]
<1>1. /\ s \in Sessions /\ reports' = [reports EXCEPT ![s] = Append(@, r)]
      /\ UNCHANGED <<device, st, chan, last_seq_out, last_seq_ack, sram, seqnum, dest, stale>>
  BY DEF Report, histVars, sessVars, fpgaVars
<1>2. /\ reports \in [Sessions -> Seq(ReportSet)] /\ seqnum[c] \in SeqNum
  BY DEF IInv, TypeOK, ReportSet
<1>3. /\ r \in ReportSet /\ r.seq = seqnum[c] /\ (st[s] = "xport" => r.about = 0)
  BY <1>1, <1>2 DEF ReportSet
<1>. HIDE DEF r, s
<1>4. /\ reports'[s] = Append(reports[s], r)
      /\ \A t \in Sessions \ {s} : reports'[t] = reports[t]
  BY <1>1, <1>2
<1>5. st[s] # "unused" /\ chan[s] = c
  BY <1>1 DEF IInv, DestNewest, s
<1>6. DestNewest' /\ InOrder' /\ Dead'
  BY <1>1 DEF IInv, DestNewest, InOrder, Dead
<1>7. Fresh'
  <2>1. ASSUME NEW t \in Sessions, st'[t] = "unused"
        PROVE  reports'[t] = reports[t]
    BY <1>1, <1>4, <1>5, <2>1
  <2>2. ASSUME NEW t \in Sessions, st'[t] = "xport", NEW i \in 1 .. Len(reports'[t])
        PROVE  reports'[t][i].about = 0
    <3>1. CASE t = s
      <4>1. reports[s] \in Seq(ReportSet)
        BY <1>1, <1>2
      <4>2. \/ i \in 1 .. Len(reports[s]) /\ Append(reports[s], r)[i] = reports[s][i]
            \/ Append(reports[s], r)[i] = r
        BY <1>3, <1>4, <2>2, <3>1, <4>1
      <4>. QED BY <1>1, <1>3, <1>4, <2>2, <3>1, <4>2 DEF IInv, Fresh
    <3>2. CASE t # s
      BY <1>1, <1>4, <2>2, <3>2 DEF IInv, Fresh
    <3>. QED BY <3>1, <3>2
  <2>. QED BY <1>1, <2>1, <2>2 DEF IInv, Fresh
<1>8. ASSUME NEW d \in Chans PROVE InWindow(d)'
  <2>1. Clean(d)' = Clean(d) /\ Owned(d)' = Owned(d)
    BY <1>1 DEF Clean, Owned
  <2>2. CASE d = c /\ Clean(c) /\ Owned(c)
    <3>1. Chain(s, last_seq_out[s], last_seq_ack[s], seqnum[c], sram[c], reports[s])
          /\ Len(sram[c]) <= Window
      BY <2>2 DEF IInv, InWindow, s
    <3>2. /\ last_seq_out[s] \in SeqNum /\ last_seq_ack[s] \in SeqNum
          /\ reports[s] \in Seq(ReportSet)
          /\ seqnum[c] \in SeqNum /\ sram[c] \in Seq(SeqNum)
      BY <1>1, Parts DEF IInv
    <3>3. Chain(s, last_seq_out[s], last_seq_ack[s], seqnum[c], sram[c], Append(reports[s], r))
      BY <1>3, <3>1, <3>2, ChainReport
    <3>. QED BY <1>1, <1>4, <2>1, <2>2, <3>1, <3>3 DEF InWindow, s
  <2>3. CASE d = c /\ ~(Clean(c) /\ Owned(c))
    BY <1>1, <2>1, <2>3 DEF IInv, InWindow
  <2>4. CASE d # c
    <3>1. Owned(d) => dest[d] \in Sessions \ {s}
      BY <1>5, <2>4 DEF Owned, IInv, DestNewest
    <3>. QED BY <1>1, <1>4, <2>1, <3>1, Untouched DEF IInv
  <2>. QED BY <2>2, <2>3, <2>4
<1>. QED BY <1>6, <1>7, <1>8 DEF IInv

\* The ZPU shuts the streams down: the packets in the SRAM are gone.
LEMMA HandleIcmpStep ==
  ASSUME IInv, TypeOK', HandleIcmp
  PROVE  IInv'
<1>1. /\ sram' = [c \in Chans |-> <<>>]
      /\ UNCHANGED <<device, st, chan, last_seq_out, last_seq_ack, seqnum, dest, reports, stale>>
  BY DEF HandleIcmp, sessVars
<1>2. DestNewest' /\ InOrder' /\ Dead' /\ Fresh'
  BY <1>1 DEF IInv, DestNewest, InOrder, Fresh, Dead
<1>3. ASSUME NEW d \in Chans PROVE InWindow(d)'
  <2>1. Clean(d)' = Clean(d) /\ Owned(d)' = Owned(d) /\ sram'[d] = <<>>
    BY <1>1 DEF Clean, Owned
  <2>2. ASSUME Clean(d), Owned(d)
        PROVE  Chain(dest[d], last_seq_out[dest[d]], last_seq_ack[dest[d]],
                     seqnum[d], <<>>, reports[dest[d]])
    <3>1. Chain(dest[d], last_seq_out[dest[d]], last_seq_ack[dest[d]],
                seqnum[d], sram[d], reports[dest[d]])
      BY <2>2 DEF IInv, InWindow
    <3>2. dest[d] \in Sessions
      BY <2>2 DEF Owned
    <3>3. last_seq_out[dest[d]] \in SeqNum /\ seqnum[d] \in SeqNum /\ sram[d] \in Seq(SeqNum)
      BY <3>2, Parts DEF IInv
    <3>. QED BY <3>1, <3>3, ChainDrop
  <2>3. Len(<<>>) <= Window
    BY WindowAssumption
  <2>. QED BY <1>1, <2>1, <2>2, <2>3 DEF InWindow
<1>. QED BY <1>2, <1>3 DEF IInv

\* The application dies: no channel has an owner.
LEMMA CrashStep ==
  ASSUME IInv, TypeOK', Crash
  PROVE  IInv'
<1>1. /\ st' = [s \in Sessions |-> IF st[s] = "unused" THEN "unused" ELSE "closed"]
      /\ UNCHANGED <<chan, last_seq_out, last_seq_ack, sram, seqnum, dest, stale>>
  BY DEF Crash, fpgaVars
<1>2. \A s \in Sessions : /\ st'[s] \in {"unused", "closed"}
                          /\ st'[s] = "unused" <=> st[s] = "unused"
  BY <1>1
<1>3. ASSUME NEW s \in Sessions, st[s] = "unused" PROVE reports'[s] = <<>>
  <2>1. PICK n \in [Sessions -> 0 .. MaxReports] :
          /\ n[s] <= IF st[s] = "closed" THEN 0 ELSE Len(reports[s])
          /\ reports' = [t \in Sessions |-> OnTheWay(reports[t], n[t])]
    BY DEF Crash
  <2>2. reports[s] = <<>>
    BY <1>3 DEF IInv, Fresh
  <2>3. Len(reports[s]) = 0 /\ n[s] = 0
    BY <1>3, <2>1, <2>2, BoundAssumption
  <2>4. SubSeq(<<>>, 1, 0) = <<>>
    OBVIOUS
  <2>. QED BY <2>1, <2>2, <2>3, <2>4 DEF OnTheWay
<1>4. DestNewest'
  BY <1>1, <1>2 DEF IInv, DestNewest
<1>5. InOrder'
  BY <1>1, <1>2 DEF IInv, InOrder
<1>6. Fresh'
  BY <1>1, <1>2, <1>3 DEF IInv, Fresh
<1>7. ASSUME NEW d \in Chans PROVE InWindow(d)'
  <2>1. Clean(d)' = Clean(d)
    BY <1>1 DEF Clean
  <2>2. ~Owned(d)'
    BY <1>2 DEF Owned
  <2>. QED BY <1>1, <2>1, <2>2 DEF IInv, InWindow
<1>8. Dead'
  BY <1>2 DEF Dead
<1>. QED BY <1>4, <1>5, <1>6, <1>7, <1>8 DEF IInv

\* The device is opened again after a crash, when nobody owns a channel.
LEMMA ReopenStep ==
  ASSUME IInv, TypeOK', Reopen
  PROVE  IInv'
<1>1. /\ ~device /\ device' = TRUE /\ sram' = [c \in Chans |-> <<>>]
      /\ UNCHANGED <<st, chan, last_seq_out, last_seq_ack, dest, reports, stale>>
  BY DEF Reopen, histVars
<1>2. DestNewest' /\ InOrder' /\ Fresh' /\ Dead'
  BY <1>1 DEF IInv, DestNewest, InOrder, Fresh, Dead
<1>3. ASSUME NEW d \in Chans PROVE InWindow(d)'
  <2>1. ~Owned(d)'
    BY <1>1 DEF IInv, Dead, Owned
  <2>2. sram'[d] = <<>> /\ Len(<<>>) <= Window
    BY <1>1, WindowAssumption
  <2>. QED BY <2>1, <2>2 DEF InWindow
<1>. QED BY <1>2, <1>3 DEF IInv

-----------------------------------------------------------------------------
(* The theorems.                                                           *)

\* Nothing is in the SRAM or on its way at first.
LEMMA InitIInv == Init => IInv
<1>. SUFFICES ASSUME Init PROVE IInv
  OBVIOUS
<1>1. TypeOK
  BY InitType
<1>2. 0 \notin Sessions
  BY SessionsAssumption DEF Sessions
<1>3. DestNewest /\ InOrder /\ Dead
  BY <1>2 DEF Init, DestNewest, InOrder, Dead
<1>4. Fresh
  BY DEF Init, Fresh
<1>5. ASSUME NEW c \in Chans PROVE InWindow(c)
  <2>1. ~Owned(c)
    BY <1>2 DEF Init, Owned
  <2>2. sram[c] = <<>> /\ Len(<<>>) <= Window
    BY WindowAssumption DEF Init
  <2>. QED BY <2>1, <2>2 DEF InWindow
<1>. QED BY <1>1, <1>3, <1>4, <1>5 DEF IInv

\* One case per action of Next.
LEMMA NextIInv == IInv /\ [Next]_vars => IInv'
<1>. SUFFICES ASSUME IInv, [Next]_vars PROVE IInv'
  OBVIOUS
<1>1. TypeOK'
  BY TypeStep DEF IInv
<1>2. ASSUME NEW s \in Sessions, Host(s) \/ LoseReport(s) \/ StrayReport(s)
      PROVE  IInv'
  BY <1>1, <1>2, MakeXportStep, ClearStep, OpenStep, SendStep, ReportGoneStep, EndStep
     DEF Host
<1>3. ASSUME NEW c \in Chans, Consume(c) \/ Report(c) PROVE IInv'
  BY <1>1, <1>3, ConsumeStep, ReportStep
<1>4. CASE HandleIcmp \/ Crash \/ Reopen
  BY <1>1, <1>4, HandleIcmpStep, CrashStep, ReopenStep
<1>5. CASE UNCHANGED vars
  <2>1. UNCHANGED <<device, st, chan, last_seq_out, last_seq_ack, sram, seqnum, dest,
                    reports, stale>>
    BY <1>5 DEF vars, sessVars, fpgaVars, histVars
  <2>2. DestNewest' /\ InOrder' /\ Fresh' /\ Dead'
    BY <2>1 DEF IInv, DestNewest, InOrder, Fresh, Dead
  <2>3. ASSUME NEW d \in Chans PROVE InWindow(d)'
    <3>1. Clean(d)' = Clean(d) /\ Owned(d)' = Owned(d)
      BY <2>1 DEF Clean, Owned
    <3>. QED BY <2>1, <3>1, Untouched DEF IInv
  <2>. QED BY <1>1, <2>2, <2>3 DEF IInv
<1>. QED BY <1>2, <1>3, <1>4, <1>5 DEF Next

\* The inductive invariant of the transmit flow control: the packets and the
\* reports of a channel's owner form a chain of numbers.
THEOREM FlowInvariant == Spec => []IInv
BY InitIInv, NextIInv, PTL DEF Spec

\* Every variable of the transmit flow control keeps its type; the packet
\* numbers stay within seq_type.
THEOREM FlowTypeCorrect == Spec => []TypeOK
<1>1. IInv => TypeOK
  BY DEF IInv
<1>. QED BY FlowInvariant, <1>1, PTL

\* get_send_buff never commits more packets than the SRAM can hold, for every
\* window and every width of the numbers above it, whichever packets and
\* reports are lost and however often the application dies, in channels that
\* took no report from before they were cleared.
THEOREM WindowKept == Spec => []CommitWithinWindow
<1>1. IInv => CommitWithinWindow
  BY DEF IInv, InWindow, Clean, CommitWithinWindow
<1>. QED BY FlowInvariant, <1>1, PTL

===============================================================================
