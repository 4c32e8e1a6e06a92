-------------------------- MODULE RecvHandlerProofs --------------------------
(***************************************************************************)
(* Proofs about RecvHandler for any number of channels, samples per packet *)
(* and faults, and every alignment threshold.                              *)
(***************************************************************************)
EXTENDS RecvHandler, FiniteSetTheorems, WellFoundedInduction, TLAPS

-----------------------------------------------------------------------------
(* The inductive invariant.                                                *)

Kinds == {"data", "overflow", "zerolen", "bad"}
Errs == {"none", "overflow", "zerolen", "bad_packet", "gap", "alignment", "timeout"}

Packets == [kind : Kinds, pos : Nat, time : Int, len : Nat \ {0}, count : Nat,
            eob : BOOLEAN, burst : Nat]
Buffers == [held : BOOLEAN, pos : Int, time : Int, len : Nat, eob : BOOLEAN,
            burst : Nat, kind : Kinds]
Metas == [err : Errs, has_time : BOOLEAN, time : Int, eob : BOOLEAN]
Infos == [todo : SUBSET Chans, valid : BOOLEAN, time : Int, left : Nat, offset : Nat,
          meta : Metas, ch : [Chans -> Buffers]]
Calls == [st : {"idle", "get", "copy"}, want : Nat, got : Nat, first : BOOLEAN,
          one : BOOLEAN, iter : Nat]

FpgaTypes ==
  /\ running \in [Chans -> BOOLEAN] /\ pos \in [Chans -> 0 .. MaxPos]
  /\ pkt_count \in [Chans -> Nat] /\ setAt \in 0 .. MaxPos + 1 /\ burst \in Nat
SockTypes == sock \in [Chans -> Seq(Packets)]
HostTypes ==
  /\ infos \in [0 .. 3 -> Infos] /\ idx \in 0 .. 3
  /\ queued \in Errs /\ call \in Calls
  /\ call.st # "idle" => call.got < call.want

HeldData(b) == b.held /\ b.kind = "data"

\* An info as reset leaves it, one in which a set is being collected, and one
\* that has a whole set.  The samples of a set are those of one of its packets.
Fresh(info) ==
  /\ info.todo = Chans /\ ~info.valid /\ info.left = 0 /\ info.offset = 0
  /\ \A c \in Chans : ~info.ch[c].held /\ info.ch[c].time = 0

Collecting(info) ==
  /\ info.offset = 0
  /\ info.valid => info.left > 0 /\ \E c \in Chans \ info.todo : info.left = info.ch[c].len
  /\ ~info.valid => info.todo = Chans
  /\ \A c \in Chans \ info.todo : HeldData(info.ch[c]) /\ info.ch[c].time = info.time

Complete(info) ==
  /\ info.todo = {}
  /\ \E c \in Chans : info.left + info.offset = info.ch[c].len
  /\ \A c \in Chans : HeldData(info.ch[c]) /\ info.ch[c].time = info.time
  /\ info.meta.err = "none" /\ info.meta.has_time /\ info.meta.time = info.ch[0].time

\* The ring of infos: the one after the next is always fresh; the next is fresh
\* while a set is being collected in the current one or delivered from it, and
\* holds what an early end has parked otherwise.
Ring ==
  /\ Fresh(infos[Slot(2)])
  /\ call.st = "get" => Fresh(infos[Slot(1)]) /\ Collecting(infos[Slot(0)])
  /\ call.st # "get" =>
       /\ Collecting(infos[Slot(1)])
       /\ infos[Slot(0)].left > 0 => Complete(infos[Slot(0)]) /\ Fresh(infos[Slot(1)])
  /\ call.st = "copy" /\ infos[Slot(0)].meta.err = "none" => infos[Slot(0)].left > 0

\* A data packet that channel c has sent has the time of its place: the clock
\* was set at the place "at", the channel has come to the place "to".
Sent(p, to, at) ==
  /\ p.pos \in Nat /\ p.pos < to
  /\ p.time = IF p.pos >= at THEN p.pos * SPP + 1 ELSE p.pos * SPP + Back + 1
Placed(c, p) == Sent(p, pos[c], setAt)

SockDated ==
  \A c \in Chans : \A i \in 1 .. Len(sock[c]) :
    sock[c][i].kind = "data" => Placed(c, sock[c][i])
InfoDated(info) == \A c \in Chans : HeldData(info.ch[c]) => Placed(c, info.ch[c])
InfosDated == \A k \in 0 .. 3 : InfoDated(infos[k])

\* Overflow messages that were read and are not yet reported.
Unreported ==
  IF \/ call.st = "idle" /\ queued = "overflow"
     \/ call.st = "copy" /\ infos[Slot(0)].meta.err = "overflow"
  THEN 1 ELSE 0

Counted ==
  /\ messages \in Nat /\ reported \in Nat
  /\ call.st # "idle" => queued = "none"
  /\ messages = reported + Unreported

Bounded == faults \in 0 .. MaxFaults /\ packet_count \in [Chans -> Nat]

IInv ==
  /\ FpgaTypes /\ SockTypes /\ HostTypes
  /\ Ring
  /\ SockDated /\ InfosDated
  /\ Counted
  /\ Bounded

-----------------------------------------------------------------------------
(* Numbers.                                                                *)

\* A set of natural numbers has a least one.
LEMMA LeastNat ==
  ASSUME NEW S \in SUBSET Nat, S # {}
  PROVE  \E x \in S : \A y \in S : x <= y
<1>. DEFINE R == OpToRel(<, Nat)
<1>1. \E x \in S : \A y \in S : ~(<<y, x>> \in R)
  <2>1. IsWellFoundedOn(R, Nat)
    BY NatLessThanWellFounded
  <2>. HIDE DEF R
  <2>. QED BY <2>1, WFMin
<1>2. \A x, y \in Nat : <<y, x>> \in R <=> y < x
  BY DEF OpToRel
<1>. HIDE DEF R
<1>3. PICK x \in S : \A y \in S : ~(<<y, x>> \in R)
  BY <1>1
<1>4. \A y \in S : x <= y
  <2>1. ASSUME NEW y \in S PROVE x <= y
    <3>1. x \in Nat /\ y \in Nat /\ ~(<<y, x>> \in R)
      BY <1>3
    <3>2. ~(y < x)
      BY <3>1, <1>2
    <3>. QED BY <3>1, <3>2
  <2>. QED BY <2>1
<1>. QED BY <1>3, <1>4

\* The channel that is served next is one of those to do.
LEMMA MinOf ==
  ASSUME NEW S \in SUBSET Nat, S # {}
  PROVE  Min(S) \in S
<1>. QED BY LeastNat DEF Min

\* The farthest of the channels' places is one of them.
LEMMA MaxOf ==
  ASSUME NEW N \in Nat, NEW S \in SUBSET (0 .. N), S # {}
  PROVE  Max(S) \in S /\ \A x \in S : x <= Max(S)
<1>. DEFINE T == {N - x : x \in S}
<1>1. T \in SUBSET Nat
  OBVIOUS
<1>2. T # {}
  OBVIOUS
<1>3. PICK t \in T : \A u \in T : t <= u
  <2>. HIDE DEF T
  <2>. QED BY <1>1, <1>2, LeastNat
<1>4. PICK x \in S : t = N - x
  BY <1>3
<1>5. \A y \in S : x >= y
  <2>1. ASSUME NEW y \in S PROVE x >= y
    <3>1. N - x <= N - y
      BY <1>3, <1>4
    <3>. QED BY <3>1
  <2>. QED BY <2>1
<1>6. Max(S) \in S /\ \A y \in S : Max(S) >= y
  BY <1>5 DEF Max
<1>. QED BY <1>6

\* Places on the grid are in order of their samples.
LEMMA GridOrder ==
  ASSUME NEW a \in Nat, NEW b \in Nat, NEW k \in Nat \ {0}, a < b
  PROVE  a * k < b * k
OBVIOUS

\* A place is determined by its first sample.
LEMMA GridOne ==
  ASSUME NEW a \in Nat, NEW b \in Nat, NEW k \in Nat \ {0}, a * k = b * k
  PROVE  a = b
<1>. QED BY GridOrder

-----------------------------------------------------------------------------
(* The ring of infos.                                                      *)

\* The four slots, and where they are when the index has moved on.
LEMMA Slots ==
  ASSUME idx \in 0 .. 3
  PROVE  /\ Slot(0) = idx /\ Slot(0) \in 0 .. 3 /\ Slot(1) \in 0 .. 3
         /\ Slot(2) \in 0 .. 3 /\ Slot(3) \in 0 .. 3
         /\ Slot(0) # Slot(1) /\ Slot(0) # Slot(2) /\ Slot(0) # Slot(3)
         /\ Slot(1) # Slot(2) /\ Slot(1) # Slot(3) /\ Slot(2) # Slot(3)
         /\ idx' = idx => /\ Slot(0)' = Slot(0) /\ Slot(1)' = Slot(1)
                          /\ Slot(2)' = Slot(2) /\ Slot(3)' = Slot(3)
         /\ idx' = Slot(1) => /\ Slot(0)' = Slot(1) /\ Slot(1)' = Slot(2)
                              /\ Slot(2)' = Slot(3) /\ Slot(3)' = Slot(0)
<1>1. CASE idx = 0
  BY <1>1 DEF Slot
<1>2. CASE idx = 1
  BY <1>2 DEF Slot
<1>3. CASE idx = 2
  BY <1>3 DEF Slot
<1>4. CASE idx = 3
  BY <1>4 DEF Slot
<1>. QED BY <1>1, <1>2, <1>3, <1>4

\* The channels.
LEMMA ChansNat == Chans \in SUBSET Nat /\ Chans # {} /\ 0 \in Chans
BY SizesAssumption DEF Chans

\* An empty buffer, with any length.
LEMMA EmptyBufferType ==
  ASSUME NEW n \in Nat
  PROVE  LET b == [EmptyBuffer EXCEPT !.len = n]
         IN b \in Buffers /\ ~b.held /\ b.time = 0
<1>1. EmptyBuffer \in Buffers /\ ~EmptyBuffer.held /\ EmptyBuffer.time = 0
  BY DEF EmptyBuffer, Buffers, None, Kinds
<1>. QED BY <1>1 DEF Buffers

\* The empty info.
LEMMA EmptyInfoType ==
  /\ EmptyInfo \in Infos /\ Fresh(EmptyInfo) /\ InfoDated(EmptyInfo)
<1>1. NoMeta \in Metas
  BY DEF NoMeta, Metas, Errs
<1>2. EmptyBuffer \in Buffers /\ ~EmptyBuffer.held /\ EmptyBuffer.time = 0
  BY DEF EmptyBuffer, Buffers, None, Kinds
<1>3. [c \in Chans |-> EmptyBuffer] \in [Chans -> Buffers]
  BY <1>2
<1>4. EmptyInfo \in Infos
  BY <1>1, <1>3 DEF EmptyInfo, Infos
<1>5. /\ EmptyInfo.todo = Chans /\ EmptyInfo.valid = FALSE /\ EmptyInfo.left = 0
      /\ EmptyInfo.offset = 0
      /\ EmptyInfo.ch = [c \in Chans |-> EmptyBuffer]
  BY DEF EmptyInfo
<1>. QED BY <1>2, <1>4, <1>5 DEF Fresh, InfoDated, HeldData

\* A reset info is fresh.
LEMMA ResetType ==
  ASSUME NEW i \in Infos
  PROVE  Reset(i) \in Infos /\ Fresh(Reset(i)) /\ InfoDated(Reset(i))
<1>. DEFINE h == [c \in Chans |-> [EmptyBuffer EXCEPT !.len = i.ch[c].len]]
<1>1. \A c \in Chans : i.ch[c].len \in Nat
  BY DEF Infos, Buffers
<1>2. \A c \in Chans : h[c] \in Buffers /\ ~h[c].held /\ h[c].time = 0
  BY <1>1, EmptyBufferType
<1>3. h \in [Chans -> Buffers]
  BY <1>2
<1>4. Reset(i) = [EmptyInfo EXCEPT !.ch = h]
  BY DEF Reset
<1>. HIDE DEF h
<1>5. /\ Reset(i) \in Infos /\ Reset(i).ch = h /\ Reset(i).todo = EmptyInfo.todo
      /\ Reset(i).valid = EmptyInfo.valid /\ Reset(i).left = EmptyInfo.left
      /\ Reset(i).offset = EmptyInfo.offset
  BY <1>3, <1>4, EmptyInfoType DEF Infos
<1>. QED BY <1>2, <1>5, EmptyInfoType DEF Fresh, InfoDated, HeldData

\* recv_one_packet begins.
LEMMA Enters ==
  ASSUME idx \in 0 .. 3, NEW is \in [0 .. 3 -> Infos], NEW cl \in Calls, cl.got < cl.want,
         Fresh(is[Slot(2)]), Collecting(is[Slot(1)]),
         is[Slot(0)].left > 0 => Complete(is[Slot(0)]) /\ Fresh(is[Slot(1)]),
         enter_one_packet(is, cl)
  PROVE  /\ infos' \in [0 .. 3 -> Infos] /\ idx' \in 0 .. 3 /\ call' \in Calls
         /\ call'.st \in {"get", "copy"} /\ call'.got < call'.want
         /\ Ring'
         /\ call'.st = "copy" => infos'[Slot(0)'].meta.err = "none"
         /\ (\A k \in 0 .. 3 : InfoDated(is[k])) => \A k \in 0 .. 3 : InfoDated(infos'[k])
<1>1. /\ is[Slot(0)] \in Infos /\ is[Slot(3)] \in Infos
      /\ is[Slot(0)].left \in Nat
  BY Slots DEF Infos
<1>2. CASE is[Slot(0)].left # 0
  <2>1. infos' = is /\ idx' = idx /\ call' = [cl EXCEPT !.st = "copy"]
    BY <1>2 DEF enter_one_packet
  <2>2. call' \in Calls /\ call'.st = "copy" /\ call'.got < call'.want
    BY <2>1 DEF Calls
  <2>3. is[Slot(0)].left > 0 /\ is[Slot(0)].meta.err = "none"
    BY <1>1, <1>2 DEF Complete
  <2>. QED BY <2>1, <2>2, <2>3, Slots DEF Ring
<1>3. CASE is[Slot(0)].left = 0
  <2>1. /\ infos' = [is EXCEPT ![Slot(3)] = Reset(is[Slot(3)])] /\ idx' = Slot(1)
        /\ call' = [cl EXCEPT !.st = "get", !.iter = 0]
    BY <1>3 DEF enter_one_packet
  <2>2. call' \in Calls /\ call'.st = "get" /\ call'.got < call'.want
    BY <2>1 DEF Calls
  <2>3. /\ Reset(is[Slot(3)]) \in Infos /\ Fresh(Reset(is[Slot(3)]))
        /\ InfoDated(Reset(is[Slot(3)]))
    BY <1>1, ResetType
  <2>4. /\ infos' \in [0 .. 3 -> Infos]
        /\ infos'[Slot(3)] = Reset(is[Slot(3)])
        /\ \A k \in 0 .. 3 : k # Slot(3) => infos'[k] = is[k]
    BY <2>1, <2>3, Slots
  <2>5. Ring'
    BY <2>1, <2>2, <2>3, <2>4, Slots DEF Ring
  <2>. QED BY <2>1, <2>2, <2>3, <2>4, <2>5, Slots
<1>. QED BY <1>2, <1>3

\* A call ends early: what it has collected waits in the next info, the current
\* one, which was fresh, describes the error.
LEMMA EndsEarly ==
  ASSUME HostTypes, Ring, call.st = "get", idx' = idx, NEW p \in Infos, Collecting(p),
         NEW m \in Metas, m.err # "none", end_early(p, m)
  PROVE  /\ infos' \in [0 .. 3 -> Infos] /\ call' \in Calls
         /\ call'.st = "copy" /\ call'.got < call'.want
         /\ Ring'
         /\ infos'[Slot(0)'].meta = m
         /\ (\A k \in 0 .. 3 : InfoDated(infos[k])) /\ InfoDated(p)
              => \A k \in 0 .. 3 : InfoDated(infos'[k])
<1>. DEFINE e == [infos[Slot(1)] EXCEPT !.meta = m]
<1>0. idx \in 0 .. 3 /\ infos \in [0 .. 3 -> Infos] /\ call \in Calls /\ call.got < call.want
  BY DEF HostTypes
<1>1. infos[Slot(1)] \in Infos
  BY <1>0, Slots
<1>2. /\ e \in Infos /\ e.meta = m /\ e.left = infos[Slot(1)].left /\ e.ch = infos[Slot(1)].ch
  BY <1>1 DEF Infos
<1>3. /\ infos' = [infos EXCEPT ![Slot(0)] = e, ![Slot(1)] = p]
      /\ call' = [call EXCEPT !.st = "copy"]
  BY DEF end_early, next
<1>. HIDE DEF e
<1>4. call' \in Calls /\ call'.st = "copy" /\ call'.got < call'.want
  BY <1>0, <1>3 DEF Calls
<1>5. /\ infos' \in [0 .. 3 -> Infos] /\ infos'[Slot(0)] = e /\ infos'[Slot(1)] = p
      /\ \A k \in 0 .. 3 : k # Slot(0) /\ k # Slot(1) => infos'[k] = infos[k]
  BY <1>0, <1>2, <1>3, Slots
<1>6. e.left = 0
  BY <1>2 DEF Ring, Fresh
<1>7. Ring'
  BY <1>0, <1>2, <1>4, <1>5, <1>6, Slots DEF Ring
<1>8. InfoDated(infos[Slot(1)]) => InfoDated(e)
  BY <1>2 DEF InfoDated
<1>. QED BY <1>0, <1>2, <1>4, <1>5, <1>7, <1>8, Slots

-----------------------------------------------------------------------------
(* get_aligned_buffs.                                                      *)

\* What of an info holds while it is matched with a new packet of channel c.
Matching(info, c) ==
  /\ c \in info.todo
  /\ info.offset = 0
  /\ info.valid =>
       /\ info.left > 0 /\ \E d \in Chans \ info.todo : info.left = info.ch[d].len
       /\ \A d \in Chans \ info.todo : HeldData(info.ch[d]) /\ info.ch[d].time = info.time

\* A packet is unpacked into the place of its channel.
LEMMA UnpackedInfo ==
  ASSUME NEW i \in Infos, NEW c \in Chans, NEW p \in Packets
  PROVE  LET u == Unpacked(i, c, p)
         IN /\ u \in Infos /\ u.todo = i.todo /\ u.valid = i.valid /\ u.time = i.time
            /\ u.left = i.left /\ u.offset = i.offset
            /\ \A d \in Chans : d # c => u.ch[d] = i.ch[d]
            /\ u.ch[c].held /\ u.ch[c].pos = p.pos /\ u.ch[c].time = p.time
            /\ u.ch[c].len = p.len /\ u.ch[c].kind = p.kind /\ u.ch[c].burst = p.burst
<1>. DEFINE b == [held |-> TRUE, pos |-> p.pos, time |-> p.time, len |-> p.len,
                  eob |-> p.eob, burst |-> p.burst, kind |-> p.kind]
            h == [i.ch EXCEPT ![c] = b]
            u == Unpacked(i, c, p)
<1>1. b \in Buffers /\ b.held /\ b.pos = p.pos /\ b.time = p.time /\ b.len = p.len
      /\ b.kind = p.kind /\ b.burst = p.burst
  BY DEF Packets, Buffers
<1>. HIDE DEF b
<1>2. i.ch \in [Chans -> Buffers]
  BY DEF Infos
<1>3. h \in [Chans -> Buffers] /\ h[c] = b /\ \A d \in Chans : d # c => h[d] = i.ch[d]
  BY <1>1, <1>2
<1>4. u = [i EXCEPT !.ch = h]
  BY <1>2 DEF Unpacked, b, Infos
<1>. HIDE DEF h
<1>5. /\ u \in Infos /\ u.ch = h /\ u.todo = i.todo /\ u.valid = i.valid /\ u.time = i.time
      /\ u.left = i.left /\ u.offset = i.offset
  BY <1>3, <1>4 DEF Infos
<1>. QED BY <1>1, <1>3, <1>5

\* The buffer of a channel is given back.
LEMMA ReleasedInfo ==
  ASSUME NEW i \in Infos, NEW c \in i.todo, Collecting(i)
  PROVE  LET u == [i EXCEPT !.ch[c].held = FALSE]
         IN u \in Infos /\ Collecting(u) /\ (InfoDated(i) => InfoDated(u))
<1>. DEFINE b == [i.ch[c] EXCEPT !.held = FALSE]
            h == [i.ch EXCEPT ![c] = b]
            u == [i EXCEPT !.ch[c].held = FALSE]
<1>0. c \in Chans
  BY DEF Infos
<1>1. i.ch \in [Chans -> Buffers] /\ i.ch[c] \in Buffers
  BY <1>0 DEF Infos
<1>2. b \in Buffers /\ ~b.held
  BY <1>1 DEF Buffers
<1>. HIDE DEF b
<1>3. h \in [Chans -> Buffers] /\ h[c] = b /\ \A d \in Chans : d # c => h[d] = i.ch[d]
  BY <1>0, <1>1, <1>2
<1>4. u = [i EXCEPT !.ch = h]
  BY <1>0, <1>1 DEF b, Infos
<1>. HIDE DEF h, u
<1>5. /\ u \in Infos /\ u.ch = h /\ u.todo = i.todo /\ u.valid = i.valid /\ u.time = i.time
      /\ u.left = i.left /\ u.offset = i.offset
  BY <1>3, <1>4 DEF Infos
<1>6. Collecting(u)
  BY <1>0, <1>3, <1>5 DEF Collecting
<1>7. InfoDated(i) => InfoDated(u)
  BY <1>2, <1>3, <1>5 DEF InfoDated, HeldData
<1>. QED BY <1>5, <1>6, <1>7 DEF u

\* An info whose packets match stays one.
LEMMA AlignmentCheck ==
  ASSUME NEW i \in Infos, NEW c \in Chans, Matching(i, c),
         i.ch[c].held, i.ch[c].kind = "data", i.ch[c].len > 0
  PROVE  LET a == alignment_check(i, c)
         IN a \in Infos /\ Collecting(a) /\ a.ch = i.ch
<1>. DEFINE a == alignment_check(i, c)
<1>1. i.ch[c] \in Buffers /\ i.ch[c].time \in Int /\ i.ch[c].len \in Nat /\ i.todo \subseteq Chans
  BY DEF Infos, Buffers
<1>2. CASE ~i.valid \/ i.ch[c].time > i.time
  <2>1. a = [i EXCEPT !.valid = TRUE, !.time = i.ch[c].time, !.todo = Chans \ {c},
                      !.left = i.ch[c].len]
    BY <1>2 DEF alignment_check
  <2>2. /\ a \in Infos /\ a.valid = TRUE /\ a.time = i.ch[c].time /\ a.todo = Chans \ {c}
        /\ a.left = i.ch[c].len /\ a.ch = i.ch /\ a.offset = i.offset
    BY <2>1, <1>1 DEF Infos
  <2>. HIDE DEF a
  <2>3. Collecting(a)
    BY <2>2 DEF Collecting, Matching, HeldData
  <2>. QED BY <2>2, <2>3 DEF a
<1>3. CASE i.valid /\ ~(i.ch[c].time > i.time) /\ i.ch[c].time = i.time
  <2>1. a = [i EXCEPT !.todo = i.todo \ {c}]
    BY <1>3 DEF alignment_check
  <2>2. /\ a \in Infos /\ a.valid = i.valid /\ a.time = i.time /\ a.todo = i.todo \ {c}
        /\ a.left = i.left /\ a.ch = i.ch /\ a.offset = i.offset
    BY <2>1, <1>1 DEF Infos
  <2>. HIDE DEF a
  <2>3. Collecting(a)
    BY <2>2, <1>3 DEF Collecting, Matching, HeldData
  <2>. QED BY <2>2, <2>3 DEF a
<1>4. CASE i.valid /\ ~(i.ch[c].time > i.time) /\ i.ch[c].time # i.time
  <2>1. a = i
    BY <1>4 DEF alignment_check
  <2>. QED BY <2>1, <1>4 DEF Collecting, Matching
<1>. QED BY <1>2, <1>3, <1>4

\* A packet with a time that is past makes the time waited for void.
LEMMA TimestampCheck ==
  ASSUME NEW i \in Infos, NEW c \in Chans, Matching(i, c)
  PROVE  LET t == timestamp_check(i, c)
         IN t \in Infos /\ Matching(t, c) /\ t.ch = i.ch
<1>. DEFINE t == timestamp_check(i, c)
<1>1. CASE t = i
  BY <1>1
<1>2. CASE t = [i EXCEPT !.valid = FALSE]
  <2>1. /\ t \in Infos /\ t.ch = i.ch /\ t.todo = i.todo /\ t.valid = FALSE
        /\ t.offset = i.offset
    BY <1>2 DEF Infos
  <2>. HIDE DEF t
  <2>2. Matching(t, c)
    BY <2>1 DEF Matching
  <2>. QED BY <2>1, <2>2 DEF t
<1>. QED BY <1>1, <1>2 DEF timestamp_check

\* The error metadata, without a time and with one.
LEMMA ErrorIsMeta ==
  ASSUME NEW e \in Errs
  PROVE  Error(e) \in Metas /\ Error(e).err = e
<1>1. NoMeta \in Metas
  BY DEF NoMeta, Metas, Errs
<1>. QED BY <1>1 DEF Error, Metas

\* An error keeps its code when it is given a time.
LEMMA TimedError ==
  ASSUME NEW e \in Errs, NEW h \in BOOLEAN, NEW t \in Int
  PROVE  /\ [Error(e) EXCEPT !.has_time = h, !.time = t] \in Metas
         /\ [Error(e) EXCEPT !.has_time = h, !.time = t].err = e
<1>1. Error(e) \in Metas /\ Error(e).err = e
  BY ErrorIsMeta
<1>. HIDE DEF Error
<1>. QED BY <1>1 DEF Metas

\* The metadata of a gap.
LEMMA GapMeta ==
  ASSUME HostTypes, NEW c \in Chans
  PROVE  gap_meta(c) \in Metas /\ gap_meta(c).err = "gap"
<1>1. prev \in Infos
  BY Slots DEF prev, HostTypes
<1>2. prev.meta \in Metas /\ prev.ch[c] \in Buffers
  BY <1>1 DEF Infos
<1>3. prev.meta.has_time \in BOOLEAN /\ prev.meta.time \in Int /\ prev.ch[c].len \in Nat
  BY <1>2 DEF Metas, Buffers
<1>. DEFINE h == prev.meta.has_time
            t == prev.meta.time + prev.ch[c].len
            m == gap_meta(c)
<1>4. m = [Error("gap") EXCEPT !.has_time = h, !.time = t]
  BY DEF gap_meta
<1>5. h \in BOOLEAN /\ t \in Int /\ "gap" \in Errs
  BY <1>3 DEF Errs
<1>. HIDE DEF h, t, m
<1>6. /\ [Error("gap") EXCEPT !.has_time = h, !.time = t] \in Metas
      /\ [Error("gap") EXCEPT !.has_time = h, !.time = t].err = "gap"
  BY <1>5, TimedError
<1>. QED BY <1>4, <1>6 DEF m

\* The codes that recv makes itself.
LEMMA OwnCodes ==
  /\ "bad_packet" \in Errs /\ "gap" \in Errs /\ "alignment" \in Errs /\ "timeout" \in Errs
  /\ "overflow" \in Errs /\ "zerolen" \in Errs /\ "none" \in Errs
BY DEF Errs

\* The channel whose turn it is.
LEMMA TodoChannel ==
  ASSUME HostTypes, curr.todo # {}
  PROVE  /\ curr = infos[Slot(0)] /\ curr \in Infos
         /\ Min(curr.todo) \in curr.todo /\ Min(curr.todo) \in Chans
<1>1. curr = infos[Slot(0)] /\ curr \in Infos
  BY Slots DEF HostTypes, curr
<1>2. curr.todo \subseteq Chans
  BY <1>1 DEF Infos
<1>3. curr.todo \in SUBSET Nat
  BY <1>2, ChansNat
<1>4. Min(curr.todo) \in curr.todo
  BY <1>3, MinOf
<1>. QED BY <1>1, <1>2, <1>4

\* The device is not touched by the host's steps, and a socket only loses its
\* first packet.
LEMMA SocketRead ==
  ASSUME IInv, UNCHANGED fpgaVars, NEW c \in Chans, sock[c] # <<>>,
         sock' = [sock EXCEPT ![c] = Tail(sock[c])]
  PROVE  /\ FpgaTypes' /\ SockTypes' /\ SockDated'
         /\ Head(sock[c]) \in Packets
         /\ Head(sock[c]).kind = "data" => Placed(c, Head(sock[c]))
<1>1. FpgaTypes' /\ setAt' = setAt /\ pos' = pos
  BY DEF IInv, FpgaTypes, fpgaVars
<1>2. sock \in [Chans -> Seq(Packets)] /\ sock[c] \in Seq(Packets)
  BY DEF IInv, SockTypes
<1>3. /\ Tail(sock[c]) \in Seq(Packets) /\ Head(sock[c]) \in Packets
      /\ Head(sock[c]) = sock[c][1] /\ 1 \in 1 .. Len(sock[c])
      /\ \A i \in 1 .. Len(Tail(sock[c])) :
           i + 1 \in 1 .. Len(sock[c]) /\ Tail(sock[c])[i] = sock[c][i + 1]
  BY <1>2
<1>4. SockTypes' /\ sock'[c] = Tail(sock[c]) /\ \A d \in Chans : d # c => sock'[d] = sock[d]
  BY <1>2, <1>3 DEF SockTypes
<1>5. SockDated'
  <2>. SUFFICES ASSUME NEW d \in Chans, NEW i \in 1 .. Len(sock'[d]),
                       sock'[d][i].kind = "data"
                PROVE  Placed(d, sock'[d][i])
    BY <1>1 DEF SockDated, Placed
  <2>1. CASE d = c
    BY <2>1, <1>3, <1>4 DEF IInv, SockDated
  <2>2. CASE d # c
    BY <2>2, <1>4 DEF IInv, SockDated
  <2>. QED BY <2>1, <2>2
<1>6. Head(sock[c]).kind = "data" => Placed(c, Head(sock[c]))
  BY <1>3 DEF IInv, SockDated
<1>. QED BY <1>1, <1>3, <1>4, <1>5, <1>6

\* A call that ends early keeps the invariant: an overflow message that was
\* counted is described in the current info.
LEMMA EarlyStep ==
  ASSUME IInv, call.st = "get", UNCHANGED <<fpgaVars, idx, queued, reported>>,
         NEW p \in Infos, Collecting(p), NEW m \in Metas, m.err # "none", end_early(p, m),
         InfoDated(p),
         messages' = messages + (IF m.err = "overflow" THEN 1 ELSE 0)
  PROVE  HostTypes' /\ Ring' /\ InfosDated' /\ Counted'
<1>1. /\ HostTypes /\ Ring /\ idx' = idx /\ setAt' = setAt /\ pos' = pos
      /\ queued' = queued /\ reported' = reported
  BY DEF IInv, fpgaVars
<1>2. /\ infos' \in [0 .. 3 -> Infos] /\ call' \in Calls
      /\ call'.st = "copy" /\ call'.got < call'.want
      /\ Ring'
      /\ infos'[Slot(0)'].meta = m
      /\ (\A k \in 0 .. 3 : InfoDated(infos[k])) /\ InfoDated(p)
           => \A k \in 0 .. 3 : InfoDated(infos'[k])
  BY <1>1, EndsEarly
<1>3. HostTypes'
  BY <1>1, <1>2 DEF HostTypes
<1>4. InfosDated'
  BY <1>1, <1>2 DEF IInv, InfosDated, InfoDated, Placed, fpgaVars
<1>5. Counted'
  <2>1. Unreported = 0
    BY DEF Unreported
  <2>2. Unreported' = IF m.err = "overflow" THEN 1 ELSE 0
    BY <1>2 DEF Unreported
  <2>3. messages \in Nat /\ reported \in Nat /\ messages = reported /\ queued = "none"
    BY <2>1 DEF IInv, Counted
  <2>. QED BY <2>2, <2>3, <1>1 DEF Counted
<1>. QED BY <1>2, <1>3, <1>4, <1>5

\* A packet is taken off a socket.
LEMMA GetPacketStep == IInv /\ GetPacket /\ Bounded' => IInv'
<1>. SUFFICES ASSUME IInv, GetPacket, Bounded' PROVE IInv'
  OBVIOUS
<1>. DEFINE c == Min(curr.todo)
            p == Head(sock[c])
            u == Unpacked(curr, c, p)
<1>1. /\ call.st = "get" /\ curr.todo # {} /\ sock[c] # <<>>
      /\ sock' = [sock EXCEPT ![c] = Tail(sock[c])]
      /\ messages' = messages + (IF p.kind = "overflow" THEN 1 ELSE 0)
      /\ UNCHANGED <<fpgaVars, idx, queued, reported>>
      /\ p.kind = "bad" => end_early([curr EXCEPT !.ch[c].held = FALSE], Error("bad_packet"))
      /\ p.kind \in {"overflow", "zerolen"} =>
           end_early(u, [Error(p.kind) EXCEPT !.has_time = TRUE, !.time = p.time])
      /\ p.kind = "data" => \/ end_early(alignment_check(u, c), gap_meta(c))
                            \/ keep_going(alignment_check(timestamp_check(u, c), c))
  BY DEF GetPacket
<1>2. HostTypes /\ Ring
  BY DEF IInv
<1>3. curr = infos[Slot(0)] /\ curr \in Infos /\ c \in curr.todo /\ c \in Chans
  BY <1>1, <1>2, TodoChannel
<1>. HIDE DEF c
<1>4. /\ FpgaTypes' /\ SockTypes' /\ SockDated' /\ p \in Packets
      /\ p.kind = "data" => Placed(c, p)
  BY <1>1, <1>3, SocketRead
<1>. HIDE DEF p
<1>5. Collecting(curr) /\ (InfoDated(curr))
  BY <1>1, <1>2, <1>3, Slots DEF Ring, IInv, InfosDated, HostTypes
<1>6. /\ u \in Infos /\ u.todo = curr.todo /\ u.valid = curr.valid /\ u.time = curr.time
      /\ u.left = curr.left /\ u.offset = curr.offset
      /\ \A d \in Chans : d # c => u.ch[d] = curr.ch[d]
      /\ u.ch[c].held /\ u.ch[c].pos = p.pos /\ u.ch[c].time = p.time
      /\ u.ch[c].len = p.len /\ u.ch[c].kind = p.kind
  BY <1>3, <1>4, UnpackedInfo
<1>. HIDE DEF u
<1>7. InfoDated(u)
  BY <1>4, <1>5, <1>6 DEF InfoDated, HeldData, Placed, Sent
<1>8. Collecting(u) /\ Matching(u, c)
  BY <1>3, <1>5, <1>6 DEF Collecting, Matching
<1>9. p.kind \in Kinds /\ p.time \in Int /\ p.len \in Nat /\ p.len > 0
  BY <1>4 DEF Packets
<1>10. HostTypes' /\ Ring' /\ InfosDated' /\ Counted'
  <2>1. CASE p.kind = "bad"
    <3>1. /\ [curr EXCEPT !.ch[c].held = FALSE] \in Infos
          /\ Collecting([curr EXCEPT !.ch[c].held = FALSE])
          /\ InfoDated(curr) => InfoDated([curr EXCEPT !.ch[c].held = FALSE])
      BY <1>3, <1>5, ReleasedInfo
    <3>2. Error("bad_packet") \in Metas /\ Error("bad_packet").err = "bad_packet"
      BY OwnCodes, ErrorIsMeta
    <3>. DEFINE i == [curr EXCEPT !.ch[c].held = FALSE]
                m == Error("bad_packet")
    <3>3. i \in Infos /\ Collecting(i) /\ (InfoDated(i)) /\ m \in Metas
          /\ m.err = "bad_packet" /\ end_early(i, m)
      BY <2>1, <3>1, <3>2, <1>1, <1>5
    <3>. HIDE DEF i, m
    <3>. QED BY <2>1, <3>3, <1>1, EarlyStep
  <2>2. CASE p.kind \in {"overflow", "zerolen"}
    <3>. DEFINE m == [Error(p.kind) EXCEPT !.has_time = TRUE, !.time = p.time]
    <3>1. m \in Metas /\ m.err = p.kind
      <4>1. p.kind \in Errs /\ TRUE \in BOOLEAN /\ p.time \in Int
        BY <2>2, <1>9, OwnCodes
      <4>. QED BY <4>1, TimedError
    <3>2. end_early(u, m)
      BY <2>2, <1>1
    <3>. HIDE DEF m
    <3>. QED BY <2>2, <3>1, <3>2, <1>1, <1>6, <1>7, <1>8, EarlyStep
  <2>3. CASE p.kind = "data" /\ end_early(alignment_check(u, c), gap_meta(c))
    <3>. DEFINE i == alignment_check(u, c)
                m == gap_meta(c)
    <3>1. i \in Infos /\ Collecting(i) /\ i.ch = u.ch
      BY <2>3, <1>3, <1>6, <1>8, <1>9, AlignmentCheck
    <3>2. m \in Metas /\ m.err = "gap"
      <4>. QED BY <1>2, <1>3, GapMeta
    <3>3. end_early(i, m)
      BY <2>3
    <3>. HIDE DEF i, m
    <3>4. InfoDated(i)
      BY <3>1, <1>7 DEF InfoDated
    <3>. QED BY <2>3, <3>1, <3>2, <3>3, <3>4, <1>1, EarlyStep
  <2>4. CASE p.kind = "data" /\ keep_going(alignment_check(timestamp_check(u, c), c))
    <3>. DEFINE t == timestamp_check(u, c)
                i == alignment_check(t, c)
    <3>1. t \in Infos /\ Matching(t, c) /\ t.ch = u.ch
      BY <1>3, <1>6, <1>8, TimestampCheck
    <3>2. keep_going(i)
      BY <2>4
    <3>. HIDE DEF t
    <3>3. i \in Infos /\ Collecting(i) /\ i.ch = u.ch
      BY <2>4, <3>1, <1>3, <1>6, <1>9, AlignmentCheck
    <3>. HIDE DEF i
    <3>4. InfoDated(i)
      BY <3>3, <1>7 DEF InfoDated
    <3>5. CASE end_early(i, Error("alignment"))
      <4>1. Error("alignment") \in Metas /\ Error("alignment").err = "alignment"
        BY OwnCodes, ErrorIsMeta
      <4>. QED BY <2>4, <3>3, <3>4, <3>5, <4>1, <1>1, EarlyStep
    <3>6. CASE infos' = [infos EXCEPT ![Slot(0)] = i] /\ call' = [call EXCEPT !.iter = @ + 1]
      <4>1. infos \in [0 .. 3 -> Infos] /\ idx \in 0 .. 3 /\ idx' = idx /\ call \in Calls
            /\ queued' = queued /\ call.got < call.want /\ queued \in Errs
            /\ setAt' = setAt /\ pos' = pos
        BY <1>1, <1>2 DEF HostTypes, fpgaVars
      <4>2. call' \in Calls /\ call'.st = "get" /\ call'.got = call.got /\ call'.want = call.want
        BY <3>6, <4>1, <1>1 DEF Calls
      <4>3. /\ infos' \in [0 .. 3 -> Infos] /\ infos'[Slot(0)] = i
            /\ \A k \in 0 .. 3 : k # Slot(0) => infos'[k] = infos[k]
        BY <3>3, <3>6, <4>1, Slots
      <4>4. HostTypes'
        BY <4>1, <4>2, <4>3 DEF HostTypes
      <4>5. Ring'
        BY <3>3, <4>1, <4>2, <4>3, <1>1, <1>2, Slots DEF Ring
      <4>6. InfosDated'
        <5>1. \A k \in 0 .. 3 : InfoDated(infos'[k])
          BY <3>4, <4>3 DEF IInv, InfosDated
        <5>. QED BY <5>1, <4>1 DEF InfosDated, InfoDated, Placed, fpgaVars
      <4>7. Counted'
        <5>1. Unreported = 0 /\ Unreported' = 0
          BY <4>2, <1>1 DEF Unreported
        <5>2. messages' = messages + 0 /\ reported' = reported
          BY <2>4, <1>1
        <5>. QED BY <5>1, <5>2, <4>1, <4>2, <1>1 DEF IInv, Counted
      <4>. QED BY <4>4, <4>5, <4>6, <4>7
    <3>. QED BY <3>2, <3>5, <3>6 DEF keep_going
  <2>. QED BY <2>1, <2>2, <2>3, <2>4, <1>1, <1>9 DEF Kinds
<1>. QED BY <1>4, <1>10 DEF IInv

\* No packet came in time.
LEMMA GetTimeoutStep == IInv /\ GetTimeout /\ Bounded' => IInv'
<1>. SUFFICES ASSUME IInv, GetTimeout, Bounded' PROVE IInv'
  OBVIOUS
<1>. DEFINE c == Min(curr.todo)
            i == [curr EXCEPT !.ch[c].held = FALSE]
            m == Error("timeout")
<1>1. /\ call.st = "get" /\ curr.todo # {} /\ end_early(i, m)
      /\ UNCHANGED <<fpgaVars, idx, queued, reported>> /\ messages' = messages /\ sock' = sock
  BY DEF GetTimeout, sockVars
<1>2. HostTypes /\ Ring
  BY DEF IInv
<1>3. curr = infos[Slot(0)] /\ curr \in Infos /\ c \in curr.todo /\ c \in Chans
  BY <1>1, <1>2, TodoChannel
<1>. HIDE DEF c
<1>4. Collecting(curr) /\ (InfoDated(curr))
  BY <1>1, <1>2, <1>3, Slots DEF Ring, IInv, InfosDated, HostTypes
<1>5. i \in Infos /\ Collecting(i) /\ (InfoDated(i))
  BY <1>3, <1>4, ReleasedInfo
<1>6. m \in Metas /\ m.err = "timeout"
  BY OwnCodes, ErrorIsMeta
<1>. HIDE DEF i, m
<1>7. messages' = messages + 0
  BY <1>1 DEF IInv, Counted
<1>8. HostTypes' /\ Ring' /\ InfosDated' /\ Counted'
  BY <1>1, <1>5, <1>6, <1>7, EarlyStep
<1>9. FpgaTypes' /\ SockTypes' /\ SockDated'
  BY <1>1 DEF IInv, FpgaTypes, SockTypes, SockDated, Placed, fpgaVars
<1>. QED BY <1>8, <1>9 DEF IInv

-----------------------------------------------------------------------------
(* The rest of recv().                                                     *)

\* A set is complete.
LEMMA AlignedStep == IInv /\ Aligned /\ Bounded' => IInv'
<1>. SUFFICES ASSUME IInv, Aligned, Bounded' PROVE IInv'
  OBVIOUS
<1>. DEFINE m == [err |-> "none", has_time |-> TRUE, time |-> curr.ch[0].time,
                  eob |-> curr.ch[0].eob]
            e == [curr EXCEPT !.meta = m]
<1>1. /\ call.st = "get" /\ curr.todo = {} /\ call' = [call EXCEPT !.st = "copy"]
      /\ infos' = [infos EXCEPT ![Slot(0)].meta = m]
      /\ UNCHANGED <<fpgaVars, sock, idx, queued, messages, reported>>
  BY DEF Aligned, sockVars, histVars
<1>2. HostTypes /\ Ring /\ Counted
  BY DEF IInv
<1>3. /\ infos \in [0 .. 3 -> Infos] /\ idx \in 0 .. 3 /\ call \in Calls /\ queued \in Errs
      /\ call.got < call.want /\ idx' = idx /\ queued' = queued /\ setAt' = setAt /\ pos' = pos
  BY <1>1, <1>2 DEF HostTypes, fpgaVars
<1>4. curr = infos[Slot(0)] /\ curr \in Infos
  BY <1>3, Slots DEF curr
<1>5. m \in Metas /\ m.err = "none" /\ m.has_time /\ m.time = curr.ch[0].time
  <2>1. curr.ch[0] \in Buffers
    BY <1>4, ChansNat DEF Infos
  <2>2. curr.ch[0].time \in Int /\ curr.ch[0].eob \in BOOLEAN
    BY <2>1 DEF Buffers
  <2>. QED BY <2>2, OwnCodes DEF Metas
<1>6. infos' = [infos EXCEPT ![Slot(0)] = e]
  BY <1>1, <1>3, <1>4, Slots
<1>. HIDE DEF m
<1>7. /\ e \in Infos /\ e.meta = m /\ e.left = curr.left /\ e.ch = curr.ch /\ e.time = curr.time
      /\ e.todo = curr.todo /\ e.offset = curr.offset
  BY <1>4, <1>5 DEF Infos
<1>. HIDE DEF e
<1>8. /\ infos' \in [0 .. 3 -> Infos] /\ infos'[Slot(0)] = e
      /\ \A k \in 0 .. 3 : k # Slot(0) => infos'[k] = infos[k]
  BY <1>3, <1>6, <1>7, Slots
<1>9. call' \in Calls /\ call'.st = "copy" /\ call'.got < call'.want
  BY <1>1, <1>3 DEF Calls
<1>10. HostTypes'
  BY <1>3, <1>8, <1>9 DEF HostTypes
<1>11. e.left > 0 /\ Complete(e)
  <2>1. Collecting(curr) /\ Chans # {}
    BY <1>1, <1>2, <1>4, ChansNat DEF Ring
  <2>2. curr.valid
    BY <2>1, <1>1, <1>4 DEF Collecting, Infos
  <2>3. \E c \in Chans : e.left + e.offset = e.ch[c].len
    <3>1. PICK c \in Chans : curr.left = curr.ch[c].len
      BY <2>1, <2>2 DEF Collecting
    <3>2. curr.left \in Nat /\ curr.offset = 0
      BY <2>1, <1>4 DEF Collecting, Infos
    <3>. QED BY <3>1, <3>2, <1>7
  <2>. QED BY <2>1, <2>2, <2>3, <1>1, <1>5, <1>7 DEF Collecting, Complete
<1>12. Ring'
  <2>1. Fresh(infos[Slot(1)]) /\ Fresh(infos[Slot(2)])
    BY <1>1, <1>2 DEF Ring
  <2>2. Collecting(infos[Slot(1)])
    BY <2>1 DEF Fresh, Collecting
  <2>. QED BY <2>1, <2>2, <1>3, <1>5, <1>7, <1>8, <1>9, <1>11, Slots DEF Ring
<1>13. InfosDated'
  <2>1. InfoDated(curr) => InfoDated(e)
    BY <1>7 DEF InfoDated
  <2>2. \A k \in 0 .. 3 : InfoDated(infos'[k])
    BY <2>1, <1>3, <1>4, <1>8, Slots DEF IInv, InfosDated
  <2>. QED BY <2>2, <1>3 DEF InfosDated, InfoDated, Placed, fpgaVars
<1>14. Counted'
  <2>1. Unreported = 0
    BY <1>1 DEF Unreported
  <2>2. Unreported' = 0
    BY <1>3, <1>5, <1>7, <1>8, <1>9, Slots DEF Unreported
  <2>. QED BY <2>1, <2>2, <1>1, <1>2 DEF Counted
<1>15. FpgaTypes' /\ SockTypes' /\ SockDated'
  BY <1>1 DEF IInv, FpgaTypes, SockTypes, SockDated, Placed, fpgaVars
<1>. QED BY <1>10, <1>12, <1>13, <1>14, <1>15 DEF IInv

\* What a call takes of a set: no more than it wants, and than there is.
LEMMA TakesBoth ==
  ASSUME NEW a \in Nat, NEW b \in Nat
  PROVE  Min({a, b}) \in Nat /\ Min({a, b}) <= a /\ Min({a, b}) <= b /\ Min({a, b}) \in {a, b}
<1>1. {a, b} \in SUBSET Nat /\ {a, b} # {}
  OBVIOUS
<1>2. PICK x \in {a, b} : \A y \in {a, b} : x <= y
  BY <1>1, LeastNat
<1>3. Min({a, b}) \in {a, b} /\ \A y \in {a, b} : Min({a, b}) <= y
  BY <1>2 DEF Min
<1>. QED BY <1>3

\* A set some samples of which were copied: as long as some are left its
\* buffers are held.
LEMMA ConsumedInfo ==
  ASSUME NEW i \in Infos, NEW n \in Nat, n <= i.left,
         i.left > 0 => Complete(i)
  PROVE  LET u == Consumed(i, n)
         IN /\ u \in Infos /\ u.left = i.left - n /\ u.meta = i.meta /\ u.offset = i.offset + n
            /\ u.left > 0 => Complete(u)
            /\ InfoDated(i) => InfoDated(u)
            /\ \A c \in Chans : /\ u.ch[c].pos = i.ch[c].pos /\ u.ch[c].time = i.ch[c].time
                               /\ u.ch[c].len = i.ch[c].len /\ u.ch[c].burst = i.ch[c].burst
            /\ u.left > 0 => /\ u.ch = i.ch /\ u.todo = i.todo /\ u.valid = i.valid
                             /\ u.time = i.time
<1>. DEFINE r == [c \in Chans |-> [i.ch[c] EXCEPT !.held = FALSE]]
            h == IF n = i.left THEN r ELSE i.ch
            u == Consumed(i, n)
<1>1. i.ch \in [Chans -> Buffers] /\ i.left \in Nat /\ i.offset \in Nat
  BY DEF Infos
<1>2. \A c \in Chans :
        /\ r[c] \in Buffers /\ ~r[c].held /\ r[c].pos = i.ch[c].pos
        /\ r[c].time = i.ch[c].time /\ r[c].len = i.ch[c].len /\ r[c].burst = i.ch[c].burst
  BY <1>1 DEF Buffers
<1>3. r \in [Chans -> Buffers]
  BY <1>2
<1>. HIDE DEF r
<1>4. h \in [Chans -> Buffers] /\ i.left - n \in Nat /\ i.offset + n \in Nat
  BY <1>1, <1>3
<1>5. u = [i EXCEPT !.left = i.left - n, !.offset = i.offset + n, !.ch = h]
  BY DEF Consumed, r
<1>. HIDE DEF h, u
<1>6. /\ u \in Infos /\ u.left = i.left - n /\ u.meta = i.meta /\ u.ch = h /\ u.time = i.time
      /\ u.todo = i.todo /\ u.offset = i.offset + n /\ u.valid = i.valid
  BY <1>4, <1>5 DEF Infos
<1>7. u.left > 0 => Complete(u)
  <2>1. ASSUME u.left > 0 PROVE Complete(u)
    <3>1. n # i.left /\ i.left > 0
      BY <2>1, <1>1, <1>6
    <3>2. u.ch = i.ch
      BY <3>1, <1>6 DEF h
    <3>3. u.left + u.offset = i.left + i.offset
      BY <1>1, <1>6
    <3>. QED BY <3>1, <3>2, <3>3, <1>6 DEF Complete
  <2>. QED BY <2>1
<1>8. InfoDated(i) => InfoDated(u)
  BY <1>2, <1>6 DEF InfoDated, HeldData, h
<1>9. \A c \in Chans : /\ u.ch[c].pos = i.ch[c].pos /\ u.ch[c].time = i.ch[c].time
                       /\ u.ch[c].len = i.ch[c].len /\ u.ch[c].burst = i.ch[c].burst
  BY <1>2, <1>6 DEF h
<1>10. u.left > 0 => u.ch = i.ch /\ u.todo = i.todo /\ u.valid = i.valid /\ u.time = i.time
  BY <1>1, <1>6 DEF h
<1>. QED BY <1>6, <1>7, <1>8, <1>9, <1>10 DEF u

\* Samples are copied, or an error is reported or queued.
LEMMA CopyStep == IInv /\ Copy /\ Bounded' => IInv'
<1>. SUFFICES ASSUME IInv, Copy, Bounded' PROVE IInv'
  OBVIOUS
<1>. DEFINE n    == nsamps_to_copy
            u    == Consumed(curr, n)
            is   == [infos EXCEPT ![Slot(0)] = u]
            err  == curr.meta.err
            cl   == [call EXCEPT !.got = @ + n, !.first = FALSE]
<1>1. /\ call.st = "copy"
      /\ IF err = "none" /\ ~call.one /\ call.got + n < call.want
         THEN enter_one_packet(is, cl)
         ELSE infos' = is /\ idx' = idx /\ call' = Idle
      /\ queued' = error_for_next_call(err)
      /\ reported' = reported + (IF err = "overflow" /\ call.first THEN 1 ELSE 0)
      /\ UNCHANGED <<fpgaVars, sock, messages>>
  BY DEF Copy, sockVars
<1>2. HostTypes /\ Ring /\ Counted
  BY DEF IInv
<1>3. /\ infos \in [0 .. 3 -> Infos] /\ idx \in 0 .. 3 /\ call \in Calls
      /\ call.got < call.want
  BY <1>1, <1>2 DEF HostTypes
<1>4. curr = infos[Slot(0)] /\ curr \in Infos
  BY <1>3, Slots DEF curr
<1>5. err \in Errs /\ curr.left \in Nat
  BY <1>4 DEF Infos, Metas
<1>6. n \in Nat /\ n <= call.want - call.got /\ n <= curr.left
  <2>1. call.want - call.got \in Nat
    BY <1>3 DEF Calls
  <2>. QED BY <2>1, <1>5, TakesBoth DEF nsamps_to_copy
<1>. HIDE DEF n
<1>7. /\ Fresh(infos[Slot(2)]) /\ Collecting(infos[Slot(1)])
      /\ curr.left > 0 => Complete(curr) /\ Fresh(infos[Slot(1)])
      /\ curr.left > 0 => err = "none"
  BY <1>1, <1>2, <1>4 DEF Ring, Complete
<1>8. /\ u \in Infos /\ u.left = curr.left - n /\ u.meta = curr.meta
      /\ u.left > 0 => Complete(u)
      /\ InfoDated(curr) => InfoDated(u)
  BY <1>4, <1>6, <1>7, ConsumedInfo
<1>9. u.left > 0 => Complete(u) /\ Fresh(infos[Slot(1)])
  BY <1>5, <1>6, <1>7, <1>8
<1>. HIDE DEF u
<1>10. /\ is \in [0 .. 3 -> Infos] /\ is[Slot(0)] = u
       /\ \A k \in 0 .. 3 : k # Slot(0) => is[k] = infos[k]
  BY <1>3, <1>8, Slots
<1>. HIDE DEF is
<1>11. Fresh(is[Slot(2)]) /\ Collecting(is[Slot(1)])
  BY <1>3, <1>7, <1>10, Slots
<1>12. \A k \in 0 .. 3 : InfoDated(is[k])
  BY <1>3, <1>4, <1>8, <1>10, Slots DEF IInv, InfosDated
<1>13. /\ queued = "none" /\ messages \in Nat /\ reported \in Nat
       /\ messages = reported + (IF err = "overflow" THEN 1 ELSE 0)
  <2>1. Unreported = IF err = "overflow" THEN 1 ELSE 0
    BY <1>1, <1>4 DEF Unreported
  <2>. QED BY <2>1, <1>1, <1>2 DEF Counted
<1>14. /\ setAt' = setAt /\ pos' = pos /\ messages' = messages /\ FpgaTypes' /\ SockTypes' /\ SockDated'
  BY <1>1 DEF IInv, FpgaTypes, SockTypes, SockDated, Placed, fpgaVars
<1>15. CASE err = "none" /\ ~call.one /\ call.got + n < call.want
  <2>1. cl \in Calls /\ cl.got < cl.want
    <3>1. call.got + n \in Nat
      BY <1>3, <1>6 DEF Calls
    <3>2. cl = [call EXCEPT !.got = call.got + n, !.first = FALSE]
      OBVIOUS
    <3>3. cl \in Calls /\ cl.got = call.got + n /\ cl.want = call.want
      BY <3>1, <3>2, <1>3 DEF Calls
    <3>. QED BY <3>3, <1>15
  <2>2. enter_one_packet(is, cl)
    BY <1>1, <1>15
  <2>. HIDE DEF cl, err
  <2>3. is[Slot(0)].left > 0 => Complete(is[Slot(0)]) /\ Fresh(is[Slot(1)])
    BY <1>3, <1>9, <1>10, Slots
  <2>4. /\ infos' \in [0 .. 3 -> Infos] /\ idx' \in 0 .. 3 /\ call' \in Calls
        /\ call'.st \in {"get", "copy"} /\ call'.got < call'.want
        /\ Ring'
        /\ call'.st = "copy" => infos'[Slot(0)'].meta.err = "none"
        /\ (\A k \in 0 .. 3 : InfoDated(is[k])) => \A k \in 0 .. 3 : InfoDated(infos'[k])
    BY <2>1, <2>2, <2>3, <1>3, <1>10, <1>11, Enters
  <2>5. queued' = "none"
    BY <1>1, <1>15 DEF error_for_next_call
  <2>6. HostTypes'
    BY <2>4, <2>5, OwnCodes DEF HostTypes
  <2>7. InfosDated'
    BY <2>4, <1>12, <1>14 DEF InfosDated, InfoDated, Placed, fpgaVars
  <2>8. Counted'
    <3>1. Unreported' = 0
      BY <2>4 DEF Unreported
    <3>2. reported' = reported /\ messages = reported
      BY <1>1, <1>13, <1>15
    <3>. QED BY <3>1, <3>2, <2>5, <1>13, <1>14 DEF Counted
  <2>. QED BY <2>4, <2>6, <2>7, <2>8, <1>14 DEF IInv
<1>16. CASE ~(err = "none" /\ ~call.one /\ call.got + n < call.want)
  <2>1. infos' = is /\ idx' = idx /\ call' = Idle
    BY <1>1, <1>16
  <2>. HIDE DEF cl, err
  <2>2. call' \in Calls /\ call'.st = "idle"
    BY <2>1 DEF Calls, Idle
  <2>3. queued' = IF ~call.first THEN err ELSE "none"
    BY <1>1 DEF error_for_next_call
  <2>4. HostTypes'
    BY <2>1, <2>2, <2>3, <1>3, <1>5, <1>10, OwnCodes DEF HostTypes
  <2>5. Ring'
    BY <2>1, <2>2, <1>3, <1>9, <1>10, <1>11, Slots DEF Ring
  <2>6. InfosDated'
    BY <2>1, <1>12, <1>14 DEF InfosDated, InfoDated, Placed, fpgaVars
  <2>7. Counted'
    <3>1. Unreported' = IF queued' = "overflow" THEN 1 ELSE 0
      BY <2>2 DEF Unreported
    <3>2. call.first \in BOOLEAN
      BY <1>3 DEF Calls
    <3>3. CASE call.first
      BY <3>1, <3>3, <2>2, <2>3, <1>1, <1>13, <1>14 DEF Counted
    <3>4. CASE ~call.first
      <4>0. reported' = reported + (IF err = "overflow" /\ call.first THEN 1 ELSE 0)
        BY <1>1
      <4>1. reported' = reported + 0
        BY <4>0, <3>4, Zenon
      <4>2. queued' = err
        BY <3>4, <2>3, Zenon
      <4>. QED BY <4>1, <4>2, <3>1, <2>2, <1>13, <1>14 DEF Counted
    <3>. QED BY <3>3, <3>4
  <2>. QED BY <2>4, <2>5, <2>6, <2>7, <1>14 DEF IInv
<1>. QED BY <1>15, <1>16

\* A call begins.
LEMMA RecvBeginStep ==
  ASSUME IInv, NEW n \in Wants, NEW one \in BOOLEAN, RecvBegin(n, one), Bounded'
  PROVE  IInv'
<1>. DEFINE cl == [Idle EXCEPT !.want = n, !.one = one]
<1>1. /\ call.st = "idle" /\ queued' = "none" /\ UNCHANGED <<fpgaVars, sock, messages>>
      /\ IF queued \notin {"none", "timeout"}
         THEN /\ reported' = reported + (IF queued = "overflow" THEN 1 ELSE 0)
              /\ UNCHANGED <<infos, idx, call>>
         ELSE enter_one_packet(infos, cl) /\ reported' = reported
  BY DEF RecvBegin, sockVars
<1>2. HostTypes /\ Ring /\ Counted
  BY DEF IInv
<1>3. infos \in [0 .. 3 -> Infos] /\ idx \in 0 .. 3 /\ call \in Calls
  BY <1>2 DEF HostTypes
<1>4. /\ setAt' = setAt /\ pos' = pos /\ messages' = messages /\ FpgaTypes' /\ SockTypes' /\ SockDated'
  BY <1>1 DEF IInv, FpgaTypes, SockTypes, SockDated, Placed, fpgaVars
<1>5. /\ messages \in Nat /\ reported \in Nat
      /\ messages = reported + (IF queued = "overflow" THEN 1 ELSE 0)
  <2>1. Unreported = IF queued = "overflow" THEN 1 ELSE 0
    BY <1>1 DEF Unreported
  <2>. QED BY <2>1, <1>2 DEF Counted
<1>6. CASE queued \notin {"none", "timeout"}
  <2>1. /\ UNCHANGED <<infos, idx, call>>
        /\ reported' = reported + (IF queued = "overflow" THEN 1 ELSE 0)
    BY <1>1, <1>6
  <2>2. HostTypes'
    BY <2>1, <1>1, <1>2, OwnCodes DEF HostTypes
  <2>3. Ring'
    BY <2>1, <1>2, <1>3, Slots DEF Ring
  <2>4. InfosDated'
    BY <2>1, <1>4 DEF IInv, InfosDated, InfoDated, Placed, fpgaVars
  <2>5. Counted'
    <3>1. Unreported' = 0
      BY <2>1, <1>1 DEF Unreported
    <3>. QED BY <3>1, <2>1, <1>1, <1>4, <1>5 DEF Counted
  <2>. QED BY <2>2, <2>3, <2>4, <2>5, <1>4 DEF IInv
<1>7. CASE queued \in {"none", "timeout"}
  <2>1. enter_one_packet(infos, cl) /\ reported' = reported
    BY <1>1, <1>7
  <2>2. cl \in Calls /\ cl.got < cl.want
    <3>1. n \in Nat /\ 0 < n
      BY SizesAssumption
    <3>2. Idle \in Calls /\ Idle.got = 0
      BY DEF Idle, Calls
    <3>3. cl \in Calls /\ cl.got = Idle.got /\ cl.want = n
      BY <3>1, <3>2 DEF Calls
    <3>. QED BY <3>1, <3>2, <3>3
  <2>. HIDE DEF cl
  <2>3. /\ Fresh(infos[Slot(2)]) /\ Collecting(infos[Slot(1)])
        /\ infos[Slot(0)].left > 0 => Complete(infos[Slot(0)]) /\ Fresh(infos[Slot(1)])
    BY <1>1, <1>2 DEF Ring
  <2>4. /\ infos' \in [0 .. 3 -> Infos] /\ idx' \in 0 .. 3 /\ call' \in Calls
        /\ call'.st \in {"get", "copy"} /\ call'.got < call'.want
        /\ Ring'
        /\ call'.st = "copy" => infos'[Slot(0)'].meta.err = "none"
        /\ (\A k \in 0 .. 3 : InfoDated(infos[k])) => \A k \in 0 .. 3 : InfoDated(infos'[k])
    BY <2>1, <2>2, <2>3, <1>3, Enters
  <2>5. HostTypes'
    BY <2>4, <1>1, OwnCodes DEF HostTypes
  <2>6. InfosDated'
    BY <2>4, <1>4 DEF IInv, InfosDated, InfoDated, Placed, fpgaVars
  <2>7. Counted'
    <3>1. Unreported' = 0
      BY <2>4 DEF Unreported
    <3>. QED BY <3>1, <2>1, <1>1, <1>4, <1>5, <1>7 DEF Counted
  <2>. QED BY <2>4, <2>5, <2>6, <2>7, <1>4 DEF IInv
<1>. QED BY <1>6, <1>7

-----------------------------------------------------------------------------
(* The receive chains.                                                     *)

\* Channel c's socket keeps what it has; what comes is of the present burst, and
\* at most its first packet is data, at the present place.
Grows(c) ==
  /\ sock'[c] \in Seq(Packets) /\ Len(sock[c]) <= Len(sock'[c])
  /\ \A i \in 1 .. Len(sock[c]) : sock'[c][i] = sock[c][i]
  /\ \A i \in Len(sock[c]) + 1 .. Len(sock'[c]) :
       /\ sock'[c][i].burst = burst
       /\ sock'[c][i].kind = "data" =>
            /\ i = Len(sock[c]) + 1 /\ running[c] /\ pos[c] < pos'[c]
            /\ sock'[c][i].pos = pos[c] /\ sock'[c][i].time = VitaTime(pos[c] * SPP)
            /\ sock'[c][i].count = pkt_count[c]

\* The socket gets one whole packet.
Arrives(c) ==
  /\ Len(sock'[c]) = Len(sock[c]) + 1
  /\ LET p == sock'[c][Len(sock[c]) + 1] IN p.kind = "data" /\ p.len = SPP

\* The framer of channel c stays where it is, ends a packet and goes on with the
\* next, stops, or starts anew behind all that was sent.
Stays(c) ==
  /\ running'[c] = running[c] /\ pos'[c] = pos[c] /\ pkt_count'[c] = pkt_count[c]
  /\ burst' = burst
Moves(c) ==
  /\ running[c] /\ running'[c] /\ pos'[c] = pos[c] + 1 /\ burst' = burst
  /\ pkt_count'[c] = (pkt_count[c] + 1) % SeqMod
  /\ Arrives(c) \/ (sock'[c] = sock[c] /\ faults' > faults)
Stops(c) == ~running'[c] /\ pos'[c] > pos[c] /\ burst' = burst /\ faults' > faults
Starts(c) ==
  /\ running'[c] /\ burst' = burst + 1 /\ faults' > faults
  /\ \A d \in Chans : pos[d] < pos'[c]

\* A step of the device.
DeviceStep ==
  /\ UNCHANGED hostVars /\ UNCHANGED histVars
  /\ faults' >= faults
  /\ \A c \in Chans : Grows(c) /\ (Stays(c) \/ Moves(c) \/ Stops(c) \/ Starts(c))
  /\ \A c \in Chans : \A r \in Nat : <<c, r>> \in arrived' =>
       \/ <<c, r>> \in arrived
       \/ /\ r = pos[c] /\ Len(sock[c]) < Len(sock'[c])
          /\ sock'[c][Len(sock[c]) + 1].kind = "data"
  /\ \/ setAt' = setAt
     \/ /\ setAt > MaxPos /\ setAt' <= MaxPos /\ faults' > faults
        /\ \A c \in Chans : pos[c] <= setAt' /\ sock'[c] = sock[c] /\ Stays(c)
  /\ faults' = faults => \A c \in Chans :
       (sock'[c] = sock[c] /\ Stays(c)) \/ (Moves(c) /\ Arrives(c))

\* The clock at a place, and its type.
LEMMA ClockTime ==
  ASSUME FpgaTypes, NEW n \in Nat
  PROVE  VitaTime(n) = (IF n >= setAt * SPP THEN n + 1 ELSE n + Back + 1) /\ VitaTime(n) \in Int
<1>1. setAt \in Nat /\ SPP \in Nat \ {0} /\ Back \in Nat
  BY SizesAssumption, BoundAssumption DEF FpgaTypes
<1>. DEFINE b == setAt * SPP
<1>2. b \in Nat
  BY <1>1
<1>3. VitaTime(n) = n + Back + 1 - (IF n >= b THEN Back ELSE 0)
  BY DEF VitaTime
<1>. HIDE DEF b
<1>4. VitaTime(n) = (IF n >= b THEN n + 1 ELSE n + Back + 1)
  BY <1>1, <1>2, <1>3
<1>. QED BY <1>1, <1>2, <1>4 DEF b

\* The clock at a packet's place.
LEMMA PlaceTime ==
  ASSUME FpgaTypes, NEW p \in Nat
  PROVE  /\ VitaTime(p * SPP) = (IF p >= setAt THEN p * SPP + 1 ELSE p * SPP + Back + 1)
         /\ p * SPP \in Nat
<1>1. setAt \in Nat /\ SPP \in Nat \ {0}
  BY SizesAssumption, BoundAssumption DEF FpgaTypes
<1>2. p * SPP \in Nat
  BY <1>1
<1>3. p * SPP >= setAt * SPP <=> p >= setAt
  <2>1. CASE p < setAt
    <3>1. p * SPP < setAt * SPP
      BY <2>1, <1>1, GridOrder
    <3>. QED BY <3>1, <2>1, <1>1, <1>2
  <2>2. CASE p = setAt
    BY <2>2, <1>1, <1>2
  <2>3. CASE p > setAt
    <3>1. setAt * SPP < p * SPP
      BY <2>3, <1>1, GridOrder
    <3>. QED BY <3>1, <2>3, <1>1, <1>2
  <2>. QED BY <2>1, <2>2, <2>3, <1>1
<1>4. VitaTime(p * SPP)
        = (IF p * SPP >= setAt * SPP THEN p * SPP + 1 ELSE p * SPP + Back + 1)
  BY <1>2, ClockTime
<1>. QED BY <1>2, <1>3, <1>4

\* A data packet.
LEMMA DataPacket ==
  ASSUME FpgaTypes, NEW c \in Chans, NEW len \in Nat \ {0}, NEW eob \in BOOLEAN
  PROVE  LET d == Data(c, len, eob)
         IN /\ d \in Packets /\ d.kind = "data" /\ d.pos = pos[c]
            /\ d.time = VitaTime(pos[c] * SPP) /\ d.len = len /\ d.count = pkt_count[c]
            /\ d.burst = burst
<1>. DEFINE d == Data(c, len, eob)
            t == VitaTime(pos[c] * SPP)
<1>1. pos[c] \in Nat /\ pkt_count[c] \in Nat /\ burst \in Nat /\ pos[c] * SPP \in Nat
  BY SizesAssumption, BoundAssumption DEF FpgaTypes
<1>2. t \in Int
  BY <1>1, ClockTime
<1>3. d = [kind |-> "data", pos |-> pos[c], time |-> t, len |-> len,
           count |-> pkt_count[c], eob |-> eob, burst |-> burst]
  BY DEF Data
<1>. HIDE DEF t, d
<1>4. /\ d \in Packets /\ d.kind = "data" /\ d.pos = pos[c] /\ d.time = t /\ d.len = len
      /\ d.count = pkt_count[c] /\ d.burst = burst
  BY <1>1, <1>2, <1>3 DEF Packets, Kinds
<1>. QED BY <1>4 DEF d, t

\* A message, with whatever count.
LEMMA MessagePacket ==
  ASSUME FpgaTypes, NEW c \in Chans, NEW code \in {"overflow", "zerolen"}, NEW len \in Nat
  PROVE  LET d == Message(c, code, len)
             e == [d EXCEPT !.count = (@ + 1) % SeqMod]
         IN /\ d \in Packets /\ d.kind # "data" /\ d.burst = burst
            /\ e \in Packets /\ e.kind # "data" /\ e.burst = burst
<1>. DEFINE d == Message(c, code, len)
            t == VitaTime(pos[c] * SPP + len)
            n == (d.count + 1) % SeqMod
            e == [d EXCEPT !.count = n]
<1>1. pos[c] \in Nat /\ pkt_count[c] \in Nat /\ burst \in Nat /\ pos[c] * SPP + len \in Nat
  BY SizesAssumption, BoundAssumption DEF FpgaTypes
<1>2. t \in Int
  BY <1>1, ClockTime
<1>3. d = [kind |-> code, pos |-> pos[c], time |-> t, len |-> 1,
           count |-> pkt_count[c], eob |-> FALSE, burst |-> burst]
  BY DEF Message
<1>. HIDE DEF t, d
<1>4. d \in Packets /\ d.kind = code /\ d.count \in Nat /\ d.burst = burst
  BY <1>1, <1>2, <1>3 DEF Packets, Kinds
<1>5. n \in Nat
  BY <1>4, SizesAssumption
<1>. HIDE DEF n
<1>6. e \in Packets /\ e.kind = d.kind /\ e.burst = d.burst
  BY <1>4, <1>5 DEF Packets
<1>7. e = [d EXCEPT !.count = (@ + 1) % SeqMod]
  BY DEF n
<1>. HIDE DEF e
<1>8. d.kind # "data" /\ e.kind # "data"
  BY <1>4, <1>6
<1>. QED BY <1>4, <1>6, <1>7, <1>8 DEF d

\* What of one or two packets the network leaves: the first one first.
LEMMA KeptOf ==
  ASSUME NEW sent \in Seq(Packets), Len(sent) \in {1, 2}, NEW gone
  PROVE  LET t == Kept(sent, gone)
         IN /\ t \in Seq(Packets) /\ Len(t) <= Len(sent)
            /\ \A i \in 1 .. Len(t) :
                 (i = 1 /\ 1 \notin gone /\ t[i] = sent[1]) \/ (Len(sent) = 2 /\ t[i] = sent[2])
            /\ 1 \notin gone => Len(t) > 0 /\ t[1] = sent[1]
            /\ 1 \in gone /\ Len(sent) = 1 => t = <<>>
<1>. DEFINE x == sent[1]
            y == sent[2]
            a == IF 1 \in gone THEN <<>> ELSE <<x>>
            b == IF Len(sent) = 1 \/ 2 \in gone THEN <<>> ELSE <<y>>
            t == Kept(sent, gone)
<1>1. t = a \o b
  BY DEF Kept
<1>2. x \in Packets /\ (Len(sent) = 2 => y \in Packets)
  OBVIOUS
<1>. HIDE DEF x, y, t
<1>3. CASE 1 \in gone /\ (Len(sent) = 1 \/ 2 \in gone)
  <2>1. t = <<>> \o <<>>
    BY <1>1, <1>3
  <2>2. t = <<>>
    BY <2>1
  <2>. QED BY <2>2, <1>3 DEF t
<1>4. CASE 1 \in gone /\ ~(Len(sent) = 1 \/ 2 \in gone)
  <2>1. t = <<>> \o <<y>>
    BY <1>1, <1>4
  <2>2. t = <<y>> /\ Len(sent) = 2
    BY <2>1, <1>2, <1>4
  <2>3. t \in Seq(Packets) /\ Len(t) = 1 /\ t[1] = y
    BY <2>2, <1>2
  <2>. QED BY <2>2, <2>3, <1>4 DEF t, y
<1>5. CASE 1 \notin gone /\ (Len(sent) = 1 \/ 2 \in gone)
  <2>1. t = <<x>> \o <<>>
    BY <1>1, <1>5
  <2>2. t = <<x>>
    BY <2>1, <1>2
  <2>3. t \in Seq(Packets) /\ Len(t) = 1 /\ t[1] = x
    BY <2>2, <1>2
  <2>. QED BY <2>2, <2>3, <1>5 DEF t, x
<1>6. CASE 1 \notin gone /\ ~(Len(sent) = 1 \/ 2 \in gone)
  <2>1. t = <<x>> \o <<y>>
    BY <1>1, <1>6
  <2>2. Len(sent) = 2 /\ <<x>> \in Seq(Packets) /\ <<y>> \in Seq(Packets)
    BY <1>2, <1>6
  <2>3. t \in Seq(Packets) /\ Len(t) = 2 /\ t[1] = x /\ t[2] = y
    BY <2>1, <2>2
  <2>. QED BY <2>3, <2>2, <1>6 DEF t, x, y
<1>. QED BY <1>3, <1>4, <1>5, <1>6

\* A socket to which packets are added.
LEMMA Added ==
  ASSUME SockTypes, NEW c \in Chans, NEW t \in Seq(Packets), sock' = [sock EXCEPT ![c] = @ \o t]
  PROVE  /\ \A d \in Chans : d # c => sock'[d] = sock[d]
         /\ sock'[c] \in Seq(Packets) /\ Len(sock'[c]) = Len(sock[c]) + Len(t)
         /\ \A i \in 1 .. Len(sock[c]) : sock'[c][i] = sock[c][i]
         /\ \A i \in 1 .. Len(t) : sock'[c][Len(sock[c]) + i] = t[i]
         /\ \A i \in Len(sock[c]) + 1 .. Len(sock'[c]) :
              i - Len(sock[c]) \in 1 .. Len(t) /\ sock'[c][i] = t[i - Len(sock[c])]
         /\ t = <<>> => sock'[c] = sock[c]
<1>1. sock \in [Chans -> Seq(Packets)] /\ sock[c] \in Seq(Packets)
  BY DEF SockTypes
<1>2. sock'[c] = sock[c] \o t /\ \A d \in Chans : d # c => sock'[d] = sock[d]
  BY <1>1
<1>. DEFINE s == sock[c]
<1>3. s \in Seq(Packets)
  BY <1>1
<1>. HIDE DEF s
<1>4. /\ s \o t \in Seq(Packets) /\ Len(s \o t) = Len(s) + Len(t)
      /\ \A i \in 1 .. Len(s) : (s \o t)[i] = s[i]
      /\ \A i \in 1 .. Len(t) : (s \o t)[Len(s) + i] = t[i]
  BY <1>3
<1>5. \A i \in Len(s) + 1 .. Len(s \o t) :
        i - Len(s) \in 1 .. Len(t) /\ (s \o t)[i] = t[i - Len(s)]
  BY <1>3, <1>4
<1>6. t = <<>> => s \o t = s
  BY <1>3
<1>. QED BY <1>2, <1>4, <1>5, <1>6 DEF s

\* A channel that no step touches.
LEMMA Untouched ==
  ASSUME SockTypes, NEW c \in Chans, sock'[c] = sock[c]
  PROVE  Grows(c)
<1>1. sock[c] \in Seq(Packets) /\ Len(sock[c]) \in Nat
  BY DEF SockTypes
<1>. QED BY <1>1 DEF Grows

\* The place of a channel moves on by one.
LEMMA NextPlace ==
  ASSUME FpgaTypes, NEW c \in Chans, pos[c] < MaxPos, pos' = [pos EXCEPT ![c] = @ + 1]
  PROVE  /\ pos' \in [Chans -> 0 .. MaxPos] /\ pos'[c] = pos[c] + 1 /\ pos[c] \in Nat
         /\ \A d \in Chans : d # c => pos'[d] = pos[d]
<1>1. pos[c] + 1 \in 0 .. MaxPos
  BY BoundAssumption DEF FpgaTypes
<1>. QED BY <1>1 DEF FpgaTypes

\* A packet count stays one.
LEMMA CountIsNat ==
  ASSUME NEW n \in Nat
  PROVE  n % SeqMod \in Nat
BY SizesAssumption

\* A delivery to a socket, of one or two packets the second of which is no data.
LEMMA Delivered ==
  ASSUME IInv, NEW c \in Chans, NEW sent \in Seq(Packets), Len(sent) \in {1, 2}, NEW gone,
         \A i \in 1 .. Len(sent) :
           /\ sent[i].burst = burst
           /\ sent[i].kind = "data" =>
                /\ i = 1 /\ running[c] /\ pos[c] < pos'[c]
                /\ sent[i].pos = pos[c] /\ sent[i].time = VitaTime(pos[c] * SPP)
                /\ sent[i].count = pkt_count[c],
         Deliver(c, sent, gone)
  PROVE  /\ \A d \in Chans : Grows(d) /\ (d # c => sock'[d] = sock[d])
         /\ \A d \in Chans : \A r \in Nat : <<d, r>> \in arrived' =>
              \/ <<d, r>> \in arrived
              \/ /\ r = pos[d] /\ Len(sock[d]) < Len(sock'[d])
                 /\ sock'[d][Len(sock[d]) + 1].kind = "data"
         /\ Len(sock'[c]) <= Len(sock[c]) + Len(sent)
         /\ 1 \notin gone => /\ Len(sock[c]) < Len(sock'[c])
                             /\ sock'[c][Len(sock[c]) + 1] = sent[1]
         /\ 1 \in gone /\ Len(sent) = 1 => sock'[c] = sock[c]
<1>. DEFINE t == Kept(sent, gone)
<1>1. SockTypes
  BY DEF IInv
<1>2. /\ sock' = [sock EXCEPT ![c] = @ \o t]
      /\ arrived' = arrived \cup {<<c, t[k].pos>> : k \in {j \in DOMAIN t : t[j].kind = "data"}}
  BY DEF Deliver
<1>3. /\ t \in Seq(Packets) /\ Len(t) <= Len(sent)
      /\ \A i \in 1 .. Len(t) :
           (i = 1 /\ 1 \notin gone /\ t[i] = sent[1]) \/ (Len(sent) = 2 /\ t[i] = sent[2])
      /\ 1 \notin gone => Len(t) > 0 /\ t[1] = sent[1]
      /\ 1 \in gone /\ Len(sent) = 1 => t = <<>>
  BY KeptOf
<1>. HIDE DEF t
<1>4. /\ \A d \in Chans : d # c => sock'[d] = sock[d]
      /\ sock'[c] \in Seq(Packets) /\ Len(sock'[c]) = Len(sock[c]) + Len(t)
      /\ \A i \in 1 .. Len(sock[c]) : sock'[c][i] = sock[c][i]
      /\ \A i \in 1 .. Len(t) : sock'[c][Len(sock[c]) + i] = t[i]
      /\ \A i \in Len(sock[c]) + 1 .. Len(sock'[c]) :
           i - Len(sock[c]) \in 1 .. Len(t) /\ sock'[c][i] = t[i - Len(sock[c])]
      /\ t = <<>> => sock'[c] = sock[c]
  BY <1>1, <1>2, <1>3, Added
<1>5. \A i \in 1 .. Len(t) :
        /\ t[i].burst = burst
        /\ t[i].kind = "data" =>
             /\ i = 1 /\ running[c] /\ pos[c] < pos'[c]
             /\ t[i].pos = pos[c] /\ t[i].time = VitaTime(pos[c] * SPP)
             /\ t[i].count = pkt_count[c]
  <2>1. ASSUME NEW i \in 1 .. Len(t), i = 1, t[i] = sent[1]
        PROVE  /\ t[i].burst = burst
               /\ t[i].kind = "data" =>
                    /\ i = 1 /\ running[c] /\ pos[c] < pos'[c]
                    /\ t[i].pos = pos[c] /\ t[i].time = VitaTime(pos[c] * SPP)
                    /\ t[i].count = pkt_count[c]
    <3>1. 1 \in 1 .. Len(sent)
      OBVIOUS
    <3>. QED BY <2>1, <3>1
  <2>2. ASSUME NEW i \in 1 .. Len(t), Len(sent) = 2, t[i] = sent[2]
        PROVE  t[i].burst = burst /\ t[i].kind # "data"
    <3>1. 2 \in 1 .. Len(sent) /\ 2 # 1
      BY <2>2
    <3>. QED BY <2>2, <3>1
  <2>. QED BY <2>1, <2>2, <1>3
<1>6. Len(sock[c]) \in Nat /\ Len(t) \in Nat
  BY <1>1, <1>3 DEF SockTypes
<1>7. Grows(c)
  <2>1. ASSUME NEW i \in Len(sock[c]) + 1 .. Len(sock'[c])
        PROVE  /\ sock'[c][i].burst = burst
               /\ sock'[c][i].kind = "data" =>
                    /\ i = Len(sock[c]) + 1 /\ running[c] /\ pos[c] < pos'[c]
                    /\ sock'[c][i].pos = pos[c] /\ sock'[c][i].time = VitaTime(pos[c] * SPP)
                    /\ sock'[c][i].count = pkt_count[c]
    <3>1. i - Len(sock[c]) \in 1 .. Len(t) /\ sock'[c][i] = t[i - Len(sock[c])]
      BY <1>4
    <3>2. i - Len(sock[c]) = 1 => i = Len(sock[c]) + 1
      BY <1>6
    <3>. QED BY <3>1, <3>2, <1>5
  <2>. QED BY <2>1, <1>4, <1>6 DEF Grows
<1>8. ASSUME NEW d \in Chans PROVE Grows(d)
  BY <1>1, <1>4, <1>7, Untouched
<1>9. ASSUME NEW d \in Chans, NEW r \in Nat, <<d, r>> \in arrived', <<d, r>> \notin arrived
      PROVE  /\ r = pos[d] /\ Len(sock[d]) < Len(sock'[d])
             /\ sock'[d][Len(sock[d]) + 1].kind = "data"
  <2>1. PICK k \in {j \in DOMAIN t : t[j].kind = "data"} : <<d, r>> = <<c, t[k].pos>>
    BY <1>2, <1>9
  <2>2. k \in 1 .. Len(t) /\ t[k].kind = "data" /\ d = c /\ r = t[k].pos
    BY <2>1, <1>3
  <2>3. k = 1 /\ r = pos[c]
    BY <2>2, <1>5
  <2>4. sock'[c][Len(sock[c]) + 1] = t[1] /\ Len(t) > 0
    BY <2>2, <2>3, <1>4, <1>6
  <2>. QED BY <2>2, <2>3, <2>4, <1>4, <1>6
<1>10. 1 \notin gone => Len(sock[c]) < Len(sock'[c]) /\ sock'[c][Len(sock[c]) + 1] = sent[1]
  BY <1>3, <1>4, <1>6
<1>. QED BY <1>3, <1>4, <1>6, <1>8, <1>9, <1>10

\* Faults are counted.
LEMMA Faulted ==
  ASSUME Bounded, NEW n \in Nat, Fault(n)
  PROVE  /\ faults' \in 0 .. MaxFaults /\ faults' >= faults /\ faults \in Nat
         /\ n > 0 <=> faults' > faults
         /\ n = 0 <=> faults' = faults
BY BoundAssumption DEF Bounded, Fault

\* A channel sends a whole packet.
LEMMA CaptureStep ==
  ASSUME IInv, NEW c \in Chans, Capture(c)
  PROVE  FpgaTypes' /\ DeviceStep
<1>. DEFINE d == Data(c, SPP, FALSE)
            sent == <<d>>
<1>1. PICK gone \in SUBSET {1} : Deliver(c, sent, gone) /\ Fault(Cardinality(gone))
  BY DEF Capture
<1>2. /\ running[c] /\ pos[c] < MaxPos /\ pos' = [pos EXCEPT ![c] = @ + 1]
      /\ pkt_count' = [pkt_count EXCEPT ![c] = (@ + 1) % SeqMod]
      /\ running' = running /\ setAt' = setAt /\ burst' = burst
      /\ UNCHANGED hostVars /\ UNCHANGED histVars
  BY DEF Capture
<1>3. FpgaTypes /\ SockTypes /\ Bounded
  BY DEF IInv
<1>4. /\ pos' \in [Chans -> 0 .. MaxPos] /\ pos'[c] = pos[c] + 1 /\ pos[c] \in Nat
      /\ \A e \in Chans : e # c => pos'[e] = pos[e]
  BY <1>2, <1>3, NextPlace
<1>5. /\ pkt_count' \in [Chans -> Nat] /\ pkt_count'[c] = (pkt_count[c] + 1) % SeqMod
      /\ \A e \in Chans : e # c => pkt_count'[e] = pkt_count[e]
  <2>1. pkt_count \in [Chans -> Nat] /\ pkt_count[c] + 1 \in Nat
    BY <1>3 DEF FpgaTypes
  <2>2. (pkt_count[c] + 1) % SeqMod \in Nat
    BY <2>1, CountIsNat
  <2>. QED BY <1>2, <2>1, <2>2
<1>6. FpgaTypes'
  BY <1>2, <1>3, <1>4, <1>5 DEF FpgaTypes
<1>7. SPP \in Nat \ {0} /\ FALSE \in BOOLEAN
  BY SizesAssumption
<1>8. /\ d \in Packets /\ d.kind = "data" /\ d.pos = pos[c] /\ d.time = VitaTime(pos[c] * SPP)
      /\ d.len = SPP /\ d.count = pkt_count[c] /\ d.burst = burst
  BY <1>3, <1>7, DataPacket
<1>. HIDE DEF d
<1>9. sent \in Seq(Packets) /\ Len(sent) = 1 /\ sent[1] = d
  BY <1>8
<1>. HIDE DEF sent
<1>10. pos[c] < pos'[c]
  BY <1>4
<1>11. /\ \A e \in Chans : Grows(e) /\ (e # c => sock'[e] = sock[e])
       /\ \A e \in Chans : \A r \in Nat : <<e, r>> \in arrived' =>
            \/ <<e, r>> \in arrived
            \/ /\ r = pos[e] /\ Len(sock[e]) < Len(sock'[e])
               /\ sock'[e][Len(sock[e]) + 1].kind = "data"
       /\ Len(sock'[c]) <= Len(sock[c]) + 1
       /\ 1 \notin gone => Len(sock[c]) < Len(sock'[c]) /\ sock'[c][Len(sock[c]) + 1] = d
       /\ 1 \in gone => sock'[c] = sock[c]
  <2>1. \A i \in 1 .. Len(sent) :
           /\ sent[i].burst = burst
           /\ sent[i].kind = "data" =>
                /\ i = 1 /\ running[c] /\ pos[c] < pos'[c]
                /\ sent[i].pos = pos[c] /\ sent[i].time = VitaTime(pos[c] * SPP)
                /\ sent[i].count = pkt_count[c]
    BY <1>2, <1>8, <1>9, <1>10
  <2>2. Len(sent) \in {1, 2} /\ sent \in Seq(Packets) /\ Deliver(c, sent, gone)
    BY <1>1, <1>9
  <2>. QED BY <2>1, <2>2, <1>9, Delivered
<1>12. Len(sock[c]) \in Nat /\ Len(sock'[c]) \in Nat
  BY <1>3, <1>11 DEF SockTypes, Grows
<1>13. Moves(c) /\ faults' >= faults /\ (faults' = faults => Arrives(c))
  <2>1. CASE gone = {}
    <3>1. Cardinality(gone) = 0
      BY <2>1, FS_EmptySet
    <3>2. faults' = faults /\ faults \in Nat
      BY <3>1, <1>1, <1>3, Faulted
    <3>3. Len(sock'[c]) = Len(sock[c]) + 1 /\ sock'[c][Len(sock[c]) + 1] = d
      BY <2>1, <1>11, <1>12
    <3>4. Arrives(c)
      BY <3>3, <1>8 DEF Arrives
    <3>. QED BY <3>2, <3>4, <1>2, <1>4, <1>5 DEF Moves
  <2>2. CASE gone = {1}
    <3>1. Cardinality(gone) = 1
      BY <2>2, FS_Singleton
    <3>2. faults' > faults /\ faults \in Nat /\ faults' \in Nat
      BY <3>1, <1>1, <1>3, Faulted
    <3>3. sock'[c] = sock[c]
      BY <2>2, <1>11
    <3>. QED BY <3>2, <3>3, <1>2, <1>4, <1>5 DEF Moves
  <2>. QED BY <2>1, <2>2
<1>14. ASSUME NEW e \in Chans, e # c PROVE sock'[e] = sock[e] /\ Stays(e)
  BY <1>14, <1>2, <1>4, <1>5, <1>11 DEF Stays
<1>. QED BY <1>2, <1>6, <1>11, <1>13, <1>14 DEF DeviceStep

\* A channel overruns.
LEMMA OverrunStep ==
  ASSUME IInv, NEW c \in Chans, Overrun(c)
  PROVE  FpgaTypes' /\ DeviceStep
<1>1. /\ running[c] /\ pos[c] < MaxPos /\ pos' = [pos EXCEPT ![c] = @ + 1]
      /\ running' = [running EXCEPT ![c] = FALSE] /\ setAt' = setAt /\ burst' = burst
      /\ UNCHANGED hostVars /\ UNCHANGED histVars
  BY DEF Overrun
<1>2. FpgaTypes /\ SockTypes /\ Bounded
  BY DEF IInv
<1>. DEFINE msg(len)  == Message(c, "overflow", len)
            sent(len) == IF len = 0 THEN <<msg(len)>>
                         ELSE <<Data(c, len, FALSE),
                                [msg(len) EXCEPT !.count = (@ + 1) % SeqMod]>>
<1>3. PICK len \in 0 .. SPP - 1 :
        /\ \E gone \in SUBSET DOMAIN sent(len) :
             Deliver(c, sent(len), gone) /\ Fault(1 + Cardinality(gone))
        /\ pkt_count' = [pkt_count EXCEPT ![c] = (@ + Len(sent(len)) - 1) % SeqMod]
  BY DEF Overrun
<1>. DEFINE q == sent(len)
<1>4. PICK gone \in SUBSET DOMAIN q : Deliver(c, q, gone) /\ Fault(1 + Cardinality(gone))
  BY <1>3
<1>5. len \in Nat
  BY SizesAssumption
<1>6. /\ pos' \in [Chans -> 0 .. MaxPos] /\ pos'[c] = pos[c] + 1 /\ pos[c] \in Nat
      /\ \A e \in Chans : e # c => pos'[e] = pos[e]
  BY <1>1, <1>2, NextPlace
<1>7. pos[c] < pos'[c]
  BY <1>6
<1>8. /\ q \in Seq(Packets) /\ Len(q) \in {1, 2}
      /\ \A i \in 1 .. Len(q) :
           /\ q[i].burst = burst
           /\ q[i].kind = "data" =>
                /\ i = 1 /\ running[c] /\ pos[c] < pos'[c]
                /\ q[i].pos = pos[c] /\ q[i].time = VitaTime(pos[c] * SPP)
                /\ q[i].count = pkt_count[c]
  <2>. DEFINE e == [msg(len) EXCEPT !.count = (@ + 1) % SeqMod]
              m == msg(len)
  <2>1. /\ m \in Packets /\ m.kind # "data" /\ m.burst = burst
        /\ e \in Packets /\ e.kind # "data" /\ e.burst = burst
    BY <1>2, <1>5, MessagePacket
  <2>2. CASE len = 0
    <3>1. q = <<m>>
      BY <2>2
    <3>. HIDE DEF q, m, e
    <3>2. q \in Seq(Packets) /\ Len(q) = 1 /\ q[1] = m
      BY <3>1, <2>1
    <3>. QED BY <3>2, <2>1
  <2>3. CASE len # 0
    <3>1. len \in Nat \ {0} /\ FALSE \in BOOLEAN
      BY <1>5, <2>3
    <3>. DEFINE d == Data(c, len, FALSE)
    <3>2. /\ d \in Packets /\ d.kind = "data" /\ d.pos = pos[c]
          /\ d.time = VitaTime(pos[c] * SPP) /\ d.count = pkt_count[c] /\ d.burst = burst
      BY <1>2, <3>1, DataPacket
    <3>3. q = <<d, e>>
      BY <2>3
    <3>. HIDE DEF q, d, e, m
    <3>4. q \in Seq(Packets) /\ Len(q) = 2 /\ q[1] = d /\ q[2] = e
      BY <3>2, <3>3, <2>1
    <3>. QED BY <3>2, <3>4, <2>1, <1>1, <1>7
  <2>. QED BY <2>2, <2>3
<1>9. pkt_count' = [pkt_count EXCEPT ![c] = (pkt_count[c] + Len(q) - 1) % SeqMod]
  BY <1>3
<1>. HIDE DEF sent, msg, q
<1>10. pkt_count' \in [Chans -> Nat] /\ \A e \in Chans : e # c => pkt_count'[e] = pkt_count[e]
  <2>1. pkt_count \in [Chans -> Nat] /\ pkt_count[c] \in Nat
    BY <1>2 DEF FpgaTypes
  <2>2. pkt_count[c] + Len(q) - 1 \in Nat
    <3>. DEFINE l == Len(q)
                x == pkt_count[c]
    <3>1. x \in Nat /\ (l = 1 \/ l = 2)
      BY <1>8, <2>1
    <3>. HIDE DEF l, x
    <3>2. x + l - 1 \in Nat
      BY <3>1
    <3>. QED BY <3>2 DEF l, x
  <2>3. (pkt_count[c] + Len(q) - 1) % SeqMod \in Nat
    BY <2>2, CountIsNat
  <2>. QED BY <1>9, <2>1, <2>3
<1>11. FpgaTypes' /\ ~running'[c] /\ \A e \in Chans : e # c => running'[e] = running[e]
  BY <1>1, <1>2, <1>6, <1>10 DEF FpgaTypes
<1>12. /\ \A e \in Chans : Grows(e) /\ (e # c => sock'[e] = sock[e])
       /\ \A e \in Chans : \A r \in Nat : <<e, r>> \in arrived' =>
            \/ <<e, r>> \in arrived
            \/ /\ r = pos[e] /\ Len(sock[e]) < Len(sock'[e])
               /\ sock'[e][Len(sock[e]) + 1].kind = "data"
  BY <1>4, <1>8, Delivered
<1>13. faults' > faults /\ faults \in Nat /\ faults' \in Nat
  <2>1. IsFiniteSet(DOMAIN q)
    <3>1. DOMAIN q \subseteq 1 .. 2
      BY <1>8
    <3>2. IsFiniteSet(1 .. 2)
      <4>1. 1 \in Int /\ 2 \in Int
        OBVIOUS
      <4>. QED BY <4>1, FS_Interval, Zenon
    <3>. QED BY <3>1, <3>2, FS_Subset
  <2>2. Cardinality(gone) \in Nat
    BY <2>1, FS_Subset, FS_CardinalityType
  <2>3. 1 + Cardinality(gone) \in Nat /\ 1 + Cardinality(gone) > 0
    BY <2>2
  <2>. QED BY <2>3, <1>2, <1>4, Faulted
<1>14. Stops(c)
  BY <1>1, <1>7, <1>11, <1>13, <1>6 DEF Stops
<1>15. ASSUME NEW e \in Chans, e # c PROVE Stays(e)
  BY <1>15, <1>1, <1>6, <1>10, <1>11 DEF Stays
<1>. QED BY <1>1, <1>11, <1>12, <1>13, <1>14, <1>15 DEF DeviceStep

\* A packet comes that cannot be unpacked.
LEMMA StrayStep ==
  ASSUME IInv, NEW c \in Chans, Stray(c)
  PROVE  FpgaTypes' /\ DeviceStep
<1>. DEFINE d == Data(c, SPP, FALSE)
            b == [d EXCEPT !.kind = "bad"]
<1>1. /\ sock' = [sock EXCEPT ![c] = Append(sock[c], b)] /\ Fault(1) /\ arrived' = arrived
      /\ UNCHANGED fpgaVars /\ UNCHANGED hostVars /\ UNCHANGED histVars
  BY DEF Stray
<1>2. FpgaTypes /\ FpgaTypes' /\ SockTypes /\ Bounded
  BY <1>1 DEF IInv, FpgaTypes, fpgaVars
<1>3. SPP \in Nat \ {0} /\ FALSE \in BOOLEAN
  BY SizesAssumption
<1>4. d \in Packets /\ d.burst = burst
  BY <1>2, <1>3, DataPacket
<1>. HIDE DEF d
<1>5. b \in Packets /\ b.kind = "bad" /\ b.burst = burst
  BY <1>4 DEF Packets, Kinds
<1>. HIDE DEF b
<1>6. /\ sock \in [Chans -> Seq(Packets)] /\ sock'[c] = Append(sock[c], b)
      /\ sock[c] \in Seq(Packets)
      /\ \A e \in Chans : e # c => sock'[e] = sock[e]
  BY <1>1, <1>2 DEF SockTypes
<1>7. Grows(c)
  BY <1>5, <1>6 DEF Grows
<1>8. \A e \in Chans : Grows(e)
  BY <1>2, <1>6, <1>7, Untouched
<1>9. faults' > faults /\ faults \in Nat /\ faults' \in Nat
  BY <1>1, <1>2, Faulted
<1>10. setAt' = setAt /\ \A e \in Chans : Stays(e)
  BY <1>1 DEF Stays, fpgaVars
<1>. QED BY <1>1, <1>2, <1>8, <1>9, <1>10 DEF DeviceStep

\* The farthest place that a channel has reached.
LEMMA Farthest ==
  ASSUME FpgaTypes
  PROVE  LET m == Max({pos[c] : c \in Chans})
         IN m \in 0 .. MaxPos /\ (\E d \in Chans : m = pos[d]) /\ (\A d \in Chans : pos[d] <= m)
<1>. DEFINE S == {pos[c] : c \in Chans}
<1>1. S \in SUBSET (0 .. MaxPos) /\ MaxPos \in Nat
  BY BoundAssumption DEF FpgaTypes
<1>2. S # {}
  BY ChansNat
<1>3. Max(S) \in S /\ \A x \in S : x <= Max(S)
  <2>. HIDE DEF S
  <2>. QED BY <1>1, <1>2, MaxOf
<1>. QED BY <1>1, <1>3

\* The stream is stopped and started.
LEMMA RestartStep ==
  ASSUME IInv, Restart
  PROVE  FpgaTypes' /\ DeviceStep
<1>. DEFINE m == Max({pos[d] : d \in Chans})
<1>1. /\ \A c \in Chans : pos[c] + 1 < MaxPos
      /\ pos' = [c \in Chans |-> m + 1] /\ Fault(1)
      /\ running' = [c \in Chans |-> TRUE] /\ burst' = burst + 1 /\ setAt' = setAt
      /\ UNCHANGED hostVars /\ UNCHANGED histVars
  BY DEF Restart
<1>2. PICK len \in 1 .. SPP :
        /\ sock' = [c \in Chans |-> Append(sock[c], StopPacket(c, len))]
        /\ arrived' = arrived \cup {<<c, pos[c]>> : c \in {d \in Chans : running[d]}}
        /\ pkt_count' = [c \in Chans |->
             IF running[c] THEN (pkt_count[c] + 1) % SeqMod ELSE pkt_count[c]]
  BY DEF Restart
<1>3. FpgaTypes /\ SockTypes /\ Bounded
  BY DEF IInv
<1>4. m \in 0 .. MaxPos /\ (\E d \in Chans : m = pos[d]) /\ (\A d \in Chans : pos[d] <= m)
  BY <1>3, Farthest
<1>. HIDE DEF m
<1>5. m + 1 \in 0 .. MaxPos
  BY <1>1, <1>4, BoundAssumption
<1>6. FpgaTypes'
  <2>1. pos' \in [Chans -> 0 .. MaxPos]
    BY <1>1, <1>5
  <2>2. ASSUME NEW c \in Chans
        PROVE  pkt_count[c] \in Nat /\ (pkt_count[c] + 1) % SeqMod \in Nat
    <3>1. pkt_count[c] \in Nat /\ pkt_count[c] + 1 \in Nat
      BY <1>3 DEF FpgaTypes
    <3>. QED BY <3>1, CountIsNat
  <2>3. pkt_count' \in [Chans -> Nat]
    BY <1>2, <2>2
  <2>. QED BY <1>1, <1>3, <2>1, <2>3 DEF FpgaTypes
<1>7. faults' > faults /\ faults \in Nat /\ faults' \in Nat
  BY <1>1, <1>3, Faulted
<1>8. ASSUME NEW c \in Chans PROVE pos[c] \in Nat /\ pos[c] < pos'[c] /\ Starts(c)
  <2>1. \A d \in Chans : pos[d] \in Nat /\ pos[d] < m + 1
    BY <1>3, <1>4 DEF FpgaTypes
  <2>. QED BY <2>1, <1>1, <1>7 DEF Starts
<1>9. ASSUME NEW c \in Chans
      PROVE  /\ Grows(c) /\ Len(sock'[c]) = Len(sock[c]) + 1 /\ Len(sock[c]) \in Nat
             /\ running[c] => sock'[c][Len(sock[c]) + 1].kind = "data"
  <2>. DEFINE p == StopPacket(c, len)
  <2>1. len \in Nat \ {0} /\ 0 \in Nat /\ TRUE \in BOOLEAN
    BY SizesAssumption
  <2>2. /\ p \in Packets /\ p.burst = burst
        /\ p.kind = "data" => /\ running[c] /\ p.pos = pos[c]
                              /\ p.time = VitaTime(pos[c] * SPP) /\ p.count = pkt_count[c]
        /\ running[c] => p.kind = "data"
    <3>1. LET d == Data(c, len, TRUE)
          IN /\ d \in Packets /\ d.kind = "data" /\ d.pos = pos[c]
             /\ d.time = VitaTime(pos[c] * SPP) /\ d.len = len /\ d.count = pkt_count[c]
             /\ d.burst = burst
      BY <1>3, <2>1, DataPacket
    <3>2. LET d == Message(c, "zerolen", 0)
          IN d \in Packets /\ d.kind # "data" /\ d.burst = burst
      BY <1>3, <2>1, MessagePacket
    <3>3. CASE running[c]
      <4>1. p = Data(c, len, TRUE)
        BY <3>3 DEF StopPacket
      <4>. HIDE DEF p
      <4>. QED BY <4>1, <3>1, <3>3
    <3>4. CASE ~running[c]
      <4>1. p = Message(c, "zerolen", 0)
        BY <3>4 DEF StopPacket
      <4>. HIDE DEF p
      <4>. QED BY <4>1, <3>2, <3>4
    <3>. QED BY <3>3, <3>4
  <2>3. sock[c] \in Seq(Packets) /\ sock'[c] = Append(sock[c], p)
    BY <1>2, <1>3 DEF SockTypes
  <2>. HIDE DEF p
  <2>4. /\ sock'[c] \in Seq(Packets) /\ Len(sock'[c]) = Len(sock[c]) + 1 /\ Len(sock[c]) \in Nat
        /\ \A i \in 1 .. Len(sock[c]) : sock'[c][i] = sock[c][i]
        /\ sock'[c][Len(sock[c]) + 1] = p
    BY <2>2, <2>3
  <2>5. \A i \in Len(sock[c]) + 1 .. Len(sock'[c]) : i = Len(sock[c]) + 1
    BY <2>4
  <2>6. Grows(c)
    BY <2>2, <2>4, <2>5, <1>8 DEF Grows
  <2>. QED BY <2>2, <2>4, <2>6
<1>10. ASSUME NEW c \in Chans, NEW r \in Nat, <<c, r>> \in arrived', <<c, r>> \notin arrived
       PROVE  r = pos[c] /\ running[c]
  <2>1. PICK d \in {e \in Chans : running[e]} : <<c, r>> = <<d, pos[d]>>
    BY <1>2, <1>10
  <2>. QED BY <2>1
<1>. QED BY <1>1, <1>6, <1>7, <1>8, <1>9, <1>10 DEF DeviceStep

\* The clock is set back.
LEMMA SetTimeStep ==
  ASSUME IInv, SetTime
  PROVE  FpgaTypes' /\ DeviceStep
<1>1. /\ setAt > MaxPos /\ setAt' = Max({pos[c] : c \in Chans}) /\ Fault(1)
      /\ UNCHANGED <<running, pos, pkt_count, burst, sock, arrived>>
      /\ UNCHANGED hostVars /\ UNCHANGED histVars
  BY DEF SetTime, sockVars
<1>2. FpgaTypes /\ SockTypes /\ Bounded
  BY DEF IInv
<1>3. setAt' \in 0 .. MaxPos /\ \A c \in Chans : pos[c] <= setAt'
  BY <1>1, <1>2, Farthest
<1>4. setAt' \in 0 .. MaxPos + 1 /\ setAt' <= MaxPos
  BY <1>3, BoundAssumption
<1>5. FpgaTypes'
  BY <1>1, <1>2, <1>4 DEF FpgaTypes
<1>6. faults' > faults /\ faults \in Nat /\ faults' \in Nat
  BY <1>1, <1>2, Faulted
<1>7. \A c \in Chans : Stays(c) /\ sock'[c] = sock[c] /\ Grows(c)
  BY <1>1, <1>2, Untouched DEF Stays
<1>. QED BY <1>1, <1>3, <1>4, <1>5, <1>6, <1>7 DEF DeviceStep

\* A packet that was sent keeps the time of its place when the clock is set.
LEMMA PlacedStays ==
  ASSUME FpgaTypes, FpgaTypes', DeviceStep, NEW c \in Chans, NEW p, Placed(c, p)
  PROVE  Sent(p, pos'[c], setAt')
<1>1. pos[c] \in Nat /\ pos'[c] \in Nat /\ setAt \in Nat /\ setAt' \in Nat /\ MaxPos \in Nat
      /\ pos[c] <= MaxPos
  BY BoundAssumption DEF FpgaTypes
<1>2. pos[c] <= pos'[c]
  BY <1>1 DEF DeviceStep, Stays, Moves, Stops, Starts
<1>3. p.pos \in Nat /\ p.pos < pos[c] /\ Sent(p, pos[c], setAt)
  BY DEF Placed, Sent
<1>4. p.pos >= setAt <=> p.pos >= setAt'
  BY <1>1, <1>3 DEF DeviceStep
<1>. QED BY <1>1, <1>2, <1>3, <1>4 DEF Sent

\* The steps of the device leave the host as it is.
LEMMA HostUntouched ==
  ASSUME IInv, UNCHANGED hostVars, UNCHANGED histVars
  PROVE  HostTypes' /\ Ring' /\ Counted'
<1>1. /\ infos' = infos /\ idx' = idx /\ queued' = queued /\ call' = call
      /\ messages' = messages /\ reported' = reported
  BY DEF hostVars, histVars
<1>2. HostTypes' /\ idx \in 0 .. 3
  BY <1>1 DEF IInv, HostTypes
<1>3. Ring'
  BY <1>1, <1>2, Slots DEF IInv, Ring
<1>4. Unreported' = Unreported
  BY <1>1, <1>2, Slots DEF Unreported
<1>5. Counted'
  BY <1>1, <1>4 DEF IInv, Counted
<1>. QED BY <1>2, <1>3, <1>5

\* A step of the device keeps the invariant.
LEMMA DeviceKeeps ==
  ASSUME IInv, FpgaTypes', DeviceStep, Bounded', sock' \in [Chans -> Seq(Packets)]
  PROVE  IInv'
<1>1. FpgaTypes /\ SockTypes /\ HostTypes
  BY DEF IInv
<1>2. SockTypes'
  BY DEF SockTypes
<1>3. SockDated'
  <2>. SUFFICES ASSUME NEW c \in Chans, NEW i \in 1 .. Len(sock'[c]), sock'[c][i].kind = "data"
                PROVE  Sent(sock'[c][i], pos'[c], setAt')
    BY DEF SockDated, Placed
  <2>1. Grows(c) /\ Len(sock[c]) \in Nat /\ Len(sock'[c]) \in Nat
    BY <1>1 DEF DeviceStep, SockTypes
  <2>2. CASE i <= Len(sock[c])
    <3>1. i \in 1 .. Len(sock[c]) /\ sock'[c][i] = sock[c][i]
      BY <2>1, <2>2 DEF Grows
    <3>2. Placed(c, sock[c][i])
      BY <3>1, <2>2 DEF IInv, SockDated
    <3>3. Sent(sock[c][i], pos'[c], setAt')
      BY <3>2, <1>1, PlacedStays
    <3>. QED BY <3>1, <3>3
  <2>3. CASE i > Len(sock[c])
    <3>1. i \in Len(sock[c]) + 1 .. Len(sock'[c])
      BY <2>1, <2>3
    <3>2. /\ pos[c] < pos'[c] /\ sock'[c][i].pos = pos[c]
          /\ sock'[c][i].time = VitaTime(pos[c] * SPP)
      BY <3>1, <2>1 DEF Grows
    <3>3. setAt' = setAt
      BY <3>1, <2>1 DEF DeviceStep
    <3>4. pos[c] \in Nat
      BY <1>1, BoundAssumption DEF FpgaTypes
    <3>5. VitaTime(pos[c] * SPP)
            = (IF pos[c] >= setAt THEN pos[c] * SPP + 1 ELSE pos[c] * SPP + Back + 1)
      BY <3>4, <1>1, PlaceTime
    <3>. QED BY <3>2, <3>3, <3>4, <3>5 DEF Sent
  <2>. QED BY <2>1, <2>2, <2>3
<1>4. InfosDated'
  <2>. SUFFICES ASSUME NEW k \in 0 .. 3, NEW c \in Chans, HeldData(infos[k].ch[c])
                PROVE  Sent(infos[k].ch[c], pos'[c], setAt')
    BY DEF DeviceStep, hostVars, InfosDated, InfoDated, HeldData, Placed
  <2>1. Placed(c, infos[k].ch[c])
    BY DEF IInv, InfosDated, InfoDated
  <2>. QED BY <2>1, <1>1, PlacedStays
<1>5. HostTypes' /\ Ring' /\ Counted'
  BY HostUntouched DEF DeviceStep
<1>. QED BY <1>2, <1>3, <1>4, <1>5 DEF IInv

-----------------------------------------------------------------------------
(* The invariant and the theorems.                                         *)

\* The initial states satisfy the invariant.
LEMMA InitIInv == Init => IInv
<1>. SUFFICES ASSUME Init PROVE IInv
  OBVIOUS
<1>1. FpgaTypes
  BY BoundAssumption DEF Init, FpgaTypes
<1>2. sock = [c \in Chans |-> <<>>] /\ <<>> \in Seq(Packets)
  BY DEF Init
<1>3. SockTypes
  BY <1>2 DEF SockTypes
<1>4. SockDated
  BY <1>2 DEF SockDated
<1>5. infos = [k \in 0 .. 3 |-> EmptyInfo] /\ idx = 0 /\ queued = "none" /\ call = Idle
  BY DEF Init
<1>6. call \in Calls /\ call.st = "idle"
  BY <1>5 DEF Idle, Calls
<1>7. EmptyInfo \in Infos /\ Fresh(EmptyInfo) /\ InfoDated(EmptyInfo)
  BY EmptyInfoType
<1>8. infos \in [0 .. 3 -> Infos] /\ idx \in 0 .. 3
  BY <1>5, <1>7
<1>9. HostTypes
  BY <1>5, <1>6, <1>8, OwnCodes DEF HostTypes
<1>10. \A k \in 0 .. 3 : infos[k] = EmptyInfo
  BY <1>5
<1>11. Collecting(EmptyInfo) /\ ~(EmptyInfo.left > 0)
  BY <1>7 DEF Fresh, Collecting
<1>12. Ring
  BY <1>6, <1>7, <1>8, <1>10, <1>11, Slots DEF Ring
<1>13. InfosDated
  BY <1>7, <1>10 DEF InfosDated
<1>15. Bounded
  BY BoundAssumption DEF Init, Bounded
<1>14. Counted
  <2>1. Unreported = 0
    BY <1>5, <1>6 DEF Unreported
  <2>. QED BY <2>1, <1>6 DEF Init, Counted
<1>. QED BY <1>1, <1>3, <1>4, <1>9, <1>12, <1>13, <1>14, <1>15 DEF IInv

\* The faults stay within their bound.
LEMMA BoundedStep ==
  ASSUME IInv, [Next]_vars
  PROVE  Bounded'
<1>1. Bounded /\ faults \in Nat /\ SockTypes /\ HostTypes
  BY DEF IInv, Bounded
<1>2. CASE faults' = faults /\ packet_count' = packet_count
  BY <1>1, <1>2 DEF Bounded
<1>3. ASSUME NEW n, Fault(n), faults' >= faults, packet_count' = packet_count PROVE Bounded'
  BY <1>1, <1>3, BoundAssumption DEF Bounded, Fault
<1>4. ASSUME NEW c \in Chans, Capture(c) \/ Overrun(c) \/ Stray(c) PROVE Bounded'
  <2>1. packet_count' = packet_count /\ DeviceStep
    BY <1>4, CaptureStep, OverrunStep, StrayStep DEF DeviceStep, hostVars
  <2>2. \E n : Fault(n)
    BY <1>4 DEF Capture, Overrun, Stray
  <2>. QED BY <2>1, <2>2, <1>3 DEF DeviceStep
<1>5. CASE Restart \/ SetTime
  <2>1. packet_count' = packet_count /\ DeviceStep
    BY <1>5, RestartStep, SetTimeStep DEF DeviceStep, hostVars
  <2>2. Fault(1)
    BY <1>5 DEF Restart, SetTime
  <2>. QED BY <2>1, <2>2, <1>3 DEF DeviceStep
<1>6. CASE GetPacket
  <2>. DEFINE c == Min(curr.todo)
              p == Head(sock[c])
  <2>1. /\ sock[c] # <<>> /\ curr.todo # {} /\ faults' = faults
        /\ packet_count' = IF p.kind # "data" THEN packet_count
                           ELSE [packet_count EXCEPT ![c] = next_count(p)]
    BY <1>6 DEF GetPacket
  <2>2. c \in Chans
    BY <2>1, <1>1, TodoChannel
  <2>. HIDE DEF c
  <2>3. p \in Packets
    BY <2>1, <2>2, <1>1 DEF SockTypes
  <2>. HIDE DEF p
  <2>4. p.count + 1 \in Nat
    BY <2>3 DEF Packets
  <2>5. next_count(p) \in Nat
    BY <2>4, CountIsNat DEF next_count
  <2>6. packet_count' \in [Chans -> Nat]
    BY <2>1, <2>2, <2>5, <1>1 DEF Bounded
  <2>. QED BY <2>1, <2>6, <1>1 DEF Bounded
<1>7. CASE GetTimeout \/ Aligned \/ Copy \/ UNCHANGED vars
      \/ \E n \in Wants, one \in BOOLEAN : RecvBegin(n, one)
  BY <1>2, <1>7 DEF GetTimeout, Aligned, Copy, RecvBegin, vars, hostVars
<1>. QED BY <1>4, <1>5, <1>6, <1>7 DEF Next

\* A step is one of the device, or one of the host.
LEMMA StepKinds ==
  ASSUME IInv, [Next]_vars
  PROVE  \/ DeviceStep /\ FpgaTypes' /\ sock' \in [Chans -> Seq(Packets)]
         \/ \E n \in Wants, one \in BOOLEAN : RecvBegin(n, one)
         \/ GetPacket \/ GetTimeout \/ Aligned \/ Copy
<1>0. SockTypes /\ FpgaTypes /\ Bounded /\ faults \in Nat
  BY DEF IInv, Bounded
<1>1. ASSUME NEW c \in Chans, Capture(c)
      PROVE  DeviceStep /\ FpgaTypes' /\ sock' \in [Chans -> Seq(Packets)]
  <2>1. DeviceStep /\ FpgaTypes'
    BY <1>1, CaptureStep
  <2>2. \E q : sock' = [sock EXCEPT ![c] = q]
    BY <1>1 DEF Capture, Deliver
  <2>. QED BY <2>1, <2>2, <1>0 DEF DeviceStep, Grows, SockTypes
<1>2. ASSUME NEW c \in Chans, Overrun(c)
      PROVE  DeviceStep /\ FpgaTypes' /\ sock' \in [Chans -> Seq(Packets)]
  <2>1. DeviceStep /\ FpgaTypes'
    BY <1>2, OverrunStep
  <2>2. \E q : sock' = [sock EXCEPT ![c] = q]
    BY <1>2 DEF Overrun, Deliver
  <2>. QED BY <2>1, <2>2, <1>0 DEF DeviceStep, Grows, SockTypes
<1>3. ASSUME NEW c \in Chans, Stray(c)
      PROVE  DeviceStep /\ FpgaTypes' /\ sock' \in [Chans -> Seq(Packets)]
  <2>1. DeviceStep /\ FpgaTypes'
    BY <1>3, StrayStep
  <2>2. \E q : sock' = [sock EXCEPT ![c] = q]
    BY <1>3 DEF Stray
  <2>. QED BY <2>1, <2>2, <1>0 DEF DeviceStep, Grows, SockTypes
<1>4. CASE Restart
  <2>1. DeviceStep /\ FpgaTypes'
    BY <1>4, RestartStep
  <2>2. \E len \in 1 .. SPP : sock' = [c \in Chans |-> Append(sock[c], StopPacket(c, len))]
    BY <1>4 DEF Restart
  <2>3. sock' = [c \in Chans |-> sock'[c]]
    BY <2>2
  <2>. QED BY <2>1, <2>3 DEF DeviceStep, Grows
<1>5. CASE SetTime
  BY <1>0, <1>5, SetTimeStep DEF SetTime, sockVars, SockTypes
<1>6. CASE UNCHANGED vars
  <2>1. /\ UNCHANGED hostVars /\ UNCHANGED histVars /\ UNCHANGED fpgaVars
        /\ sock' = sock /\ faults' = faults /\ arrived' = arrived
    BY <1>6 DEF vars, sockVars
  <2>2. \A c \in Chans : Grows(c) /\ Stays(c)
    BY <2>1, <1>0, Untouched DEF Stays, fpgaVars
  <2>3. setAt' = setAt /\ FpgaTypes'
    BY <2>1, <1>0 DEF fpgaVars, FpgaTypes
  <2>4. DeviceStep
    BY <2>1, <2>2, <2>3, <1>0 DEF DeviceStep
  <2>. QED BY <2>1, <2>3, <2>4, <1>0 DEF SockTypes
<1>. QED BY <1>1, <1>2, <1>3, <1>4, <1>5, <1>6 DEF Next

\* Every step keeps the invariant.
LEMMA NextIInv == IInv /\ [Next]_vars => IInv'
<1>. SUFFICES ASSUME IInv, [Next]_vars PROVE IInv'
  OBVIOUS
<1>1. Bounded'
  BY BoundedStep
<1>2. CASE DeviceStep /\ FpgaTypes' /\ sock' \in [Chans -> Seq(Packets)]
  BY <1>1, <1>2, DeviceKeeps
<1>3. ASSUME NEW n \in Wants, NEW one \in BOOLEAN, RecvBegin(n, one) PROVE IInv'
  BY <1>1, <1>3, RecvBeginStep
<1>4. CASE GetPacket
  BY <1>1, <1>4, GetPacketStep
<1>5. CASE GetTimeout
  BY <1>1, <1>5, GetTimeoutStep
<1>6. CASE Aligned
  BY <1>1, <1>6, AlignedStep
<1>7. CASE Copy
  BY <1>1, <1>7, CopyStep
<1>. QED BY <1>2, <1>3, <1>4, <1>5, <1>6, <1>7, StepKinds

\* The ring of four infos is always in order: the info after the next is one
\* that reset left, the next is fresh while a set is collected and keeps what an
\* early end parked otherwise.
THEOREM RecvInvariant == Spec => []IInv
<1>. QED BY InitIInv, NextIInv, PTL DEF Spec

\* A call of recv comes back with samples or with an error, and never with both
\* or neither, after whatever faults and on whichever turn of the ring.
THEOREM SamplesXorError == Spec => []SamplesOrError
<1>1. IInv => SamplesOrError
  <2>. SUFFICES ASSUME IInv, call.st = "copy"
                PROVE  curr.meta.err = "none" <=> curr.left > 0
    BY DEF SamplesOrError
  <2>. QED BY DEF IInv, Ring, Complete, curr
<1>. QED BY <1>1, RecvInvariant, PTL

\* recv reports each overflow message that it takes off a socket exactly once:
\* with the call that met it, or, when that call had samples to return, with the
\* next one.
THEOREM OverflowsReported == Spec => []MessagesReported
<1>1. IInv => MessagesReported
  <2>. SUFFICES ASSUME IInv, call.st = "idle"
                PROVE  messages = reported + (IF queued = "overflow" THEN 1 ELSE 0)
    BY DEF MessagesReported
  <2>. QED BY DEF IInv, Counted, Unreported
<1>. QED BY <1>1, RecvInvariant, PTL

\* Unless the clock was set back by whole packets, a time belongs to one place.
LEMMA TimeToPlace ==
  ASSUME FpgaTypes, ~Ambiguous, NEW c \in Chans, NEW d \in Chans, NEW x, NEW y,
         Placed(c, x), Placed(d, y), x.time = y.time
  PROVE  x.pos = y.pos
<1>. DEFINE a == x.pos
            b == y.pos
<1>1. /\ a \in Nat /\ b \in Nat /\ setAt \in Nat /\ SPP \in Nat \ {0} /\ Back \in Nat
      /\ MaxPos \in Nat /\ a < MaxPos /\ b < MaxPos
      /\ (IF a >= setAt THEN a * SPP + 1 ELSE a * SPP + Back + 1)
           = (IF b >= setAt THEN b * SPP + 1 ELSE b * SPP + Back + 1)
  BY SizesAssumption, BoundAssumption DEF FpgaTypes, Placed, Sent
<1>2. a * SPP \in Nat /\ b * SPP \in Nat
  BY <1>1
<1>. HIDE DEF a, b
<1>3. ASSUME NEW m \in Nat, NEW n \in Nat, m < MaxPos, n < MaxPos, m >= setAt, n < setAt,
             m * SPP + 1 = n * SPP + Back + 1
      PROVE  FALSE
  <2>1. setAt <= MaxPos /\ m > n /\ m - n \in 1 .. MaxPos
    BY <1>1, <1>3
  <2>2. m * SPP - n * SPP = (m - n) * SPP
    BY <1>1
  <2>3. m * SPP \in Nat /\ n * SPP \in Nat
    BY <1>1
  <2>4. Back = (m - n) * SPP
    BY <2>2, <2>3, <1>1, <1>3
  <2>. QED BY <2>1, <2>4 DEF Ambiguous
<1>4. CASE a >= setAt /\ b < setAt
  BY <1>1, <1>2, <1>3, <1>4
<1>5. CASE b >= setAt /\ a < setAt
  BY <1>1, <1>2, <1>3, <1>5
<1>6. CASE a >= setAt <=> b >= setAt
  <2>1. a * SPP = b * SPP
    BY <1>1, <1>2, <1>6
  <2>2. a = b
    BY <2>1, <1>1, GridOne
  <2>. QED BY <2>2 DEF a, b
<1>. QED BY <1>1, <1>4, <1>5, <1>6

\* The samples that recv returns for its channels were captured together: the
\* packets of a set have one time, and thereby one place, unless the clock was
\* set back by a whole number of packets.
THEOREM ChannelsInUnison == Spec => []Unison
<1>1. IInv => Unison
  <2>. SUFFICES ASSUME IInv, call.st = "copy", curr.left > 0, NEW c \in Chans, NEW d \in Chans
                PROVE  /\ curr.ch[c].time = curr.ch[d].time
                       /\ curr.ch[c].held
                       /\ ~Ambiguous => curr.ch[c].pos = curr.ch[d].pos
    BY DEF Unison
  <2>1. Complete(curr) /\ idx \in 0 .. 3 /\ FpgaTypes
    BY DEF IInv, Ring, curr, HostTypes
  <2>2. /\ HeldData(curr.ch[c]) /\ curr.ch[c].time = curr.time
        /\ HeldData(curr.ch[d]) /\ curr.ch[d].time = curr.time
    BY <2>1 DEF Complete
  <2>3. InfoDated(curr)
    BY <2>1, Slots DEF IInv, InfosDated, curr
  <2>4. Placed(c, curr.ch[c]) /\ Placed(d, curr.ch[d])
    BY <2>2, <2>3 DEF InfoDated
  <2>5. curr.ch[c].time = curr.ch[d].time
    BY <2>2
  <2>6. ~Ambiguous => curr.ch[c].pos = curr.ch[d].pos
    BY <2>1, <2>4, <2>5, TimeToPlace
  <2>. QED BY <2>2, <2>5, <2>6 DEF HeldData
<1>. QED BY <1>1, RecvInvariant, PTL

-----------------------------------------------------------------------------
(* Where the infos are after a step.                                       *)

\* recv_one_packet goes on with the current set, or turns the ring.
LEMMA Turns ==
  ASSUME idx \in 0 .. 3, NEW is \in [0 .. 3 -> Infos], NEW cl \in Calls,
         enter_one_packet(is, cl)
  PROVE  \/ /\ is[Slot(0)].left > 0 /\ call'.st = "copy" /\ infos' = is /\ idx' = idx
            /\ Slot(0)' = Slot(0) /\ Slot(1)' = Slot(1) /\ Slot(3)' = Slot(3)
         \/ /\ is[Slot(0)].left = 0 /\ call'.st = "get"
            /\ infos'[Slot(0)'] = is[Slot(1)] /\ infos'[Slot(3)'] = is[Slot(0)]
<1>1. is[Slot(0)].left \in Nat
  BY Slots DEF Infos
<1>2. CASE is[Slot(0)].left # 0
  BY <1>1, <1>2, Slots DEF enter_one_packet, Calls
<1>3. CASE is[Slot(0)].left = 0
  <2>1. /\ infos' = [is EXCEPT ![Slot(3)] = Reset(is[Slot(3)])] /\ idx' = Slot(1)
        /\ call' = [cl EXCEPT !.st = "get", !.iter = 0]
    BY <1>3 DEF enter_one_packet
  <2>2. call'.st = "get"
    BY <2>1 DEF Calls
  <2>3. infos'[Slot(1)] = is[Slot(1)] /\ infos'[Slot(0)] = is[Slot(0)]
    BY <2>1, Slots
  <2>. QED BY <2>1, <2>2, <2>3, <1>3, Slots
<1>. QED BY <1>2, <1>3

\* An early end swaps the current info for the next.
LEMMA Swaps ==
  ASSUME HostTypes, idx' = idx, NEW p \in Infos, NEW m \in Metas, end_early(p, m)
  PROVE  /\ call'.st = "copy"
         /\ Slot(0)' = Slot(0) /\ Slot(1)' = Slot(1) /\ Slot(3)' = Slot(3)
         /\ infos'[Slot(0)].meta = m /\ infos'[Slot(0)].left = infos[Slot(1)].left
         /\ infos'[Slot(0)].offset = infos[Slot(1)].offset
         /\ infos'[Slot(0)].ch = infos[Slot(1)].ch
         /\ infos'[Slot(1)] = p /\ infos'[Slot(3)] = infos[Slot(3)]
<1>. DEFINE e == [infos[Slot(1)] EXCEPT !.meta = m]
<1>0. idx \in 0 .. 3 /\ infos \in [0 .. 3 -> Infos] /\ call \in Calls
  BY DEF HostTypes
<1>1. infos[Slot(1)] \in Infos
  BY <1>0, Slots
<1>2. /\ e \in Infos /\ e.meta = m /\ e.left = infos[Slot(1)].left /\ e.ch = infos[Slot(1)].ch
      /\ e.offset = infos[Slot(1)].offset
  BY <1>1 DEF Infos
<1>3. /\ infos' = [infos EXCEPT ![Slot(0)] = e, ![Slot(1)] = p]
      /\ call' = [call EXCEPT !.st = "copy"]
  BY DEF end_early, next
<1>. HIDE DEF e
<1>4. call'.st = "copy"
  BY <1>0, <1>3 DEF Calls
<1>5. infos'[Slot(0)] = e /\ infos'[Slot(1)] = p /\ infos'[Slot(3)] = infos[Slot(3)]
  BY <1>0, <1>3, Slots
<1>. QED BY <1>0, <1>2, <1>4, <1>5, Slots

\* What a copy does: with an error it ends the call, otherwise it delivers
\* samples and ends the call or goes on.
LEMMA Copies ==
  ASSUME IInv, Copy
  PROVE  LET i == infos[Slot(0)]
         IN \E n \in Nat : \E u \in Infos :
              /\ u.left = i.left - n /\ u.offset = i.offset + n /\ u.meta = i.meta
              /\ \A c \in Chans : /\ u.ch[c].pos = i.ch[c].pos /\ u.ch[c].time = i.ch[c].time
                                  /\ u.ch[c].len = i.ch[c].len /\ u.ch[c].burst = i.ch[c].burst
              /\ u.left > 0 => /\ u.ch = i.ch /\ u.todo = i.todo /\ u.valid = i.valid
                               /\ u.time = i.time
              /\ i.left > 0 <=> n > 0
              /\ i.left > 0 <=> i.meta.err = "none"
              /\ n > 0 => expect' = [c \in Chans |-> [sample |-> i.ch[c].pos * SPP + i.offset + n,
                                                      burst  |-> i.ch[c].burst]]
              /\ n = 0 => /\ call'.st = "idle"
                          /\ \/ queued' = "none" /\ i.meta.err # "timeout"
                                                 /\ expect' = NothingExpected
                             \/ queued' = "none" /\ i.meta.err = "timeout" /\ expect' = expect
                             \/ queued' = i.meta.err /\ expect' = expect
              /\ n > 0 => queued' = "none"
              /\ \/ /\ call'.st \in {"idle", "copy"} /\ infos'[Slot(0)'] = u /\ idx' = idx
                    /\ infos'[Slot(1)'] = infos[Slot(1)]
                    /\ call'.st = "copy" => u.left > 0
                 \/ /\ call'.st = "get" /\ infos'[Slot(0)'] = infos[Slot(1)]
                    /\ infos'[Slot(3)'] = u /\ u.left = 0
<1>. DEFINE n    == nsamps_to_copy
            u    == Consumed(curr, n)
            is   == [infos EXCEPT ![Slot(0)] = u]
            err  == curr.meta.err
            cl   == [call EXCEPT !.got = @ + n, !.first = FALSE]
<1>1. /\ call.st = "copy"
      /\ IF err = "none" /\ ~call.one /\ call.got + n < call.want
         THEN enter_one_packet(is, cl)
         ELSE infos' = is /\ idx' = idx /\ call' = Idle
      /\ queued' = error_for_next_call(err)
      /\ expect' = IF n > 0
                   THEN [c \in Chans |-> [sample |-> curr.ch[c].pos * SPP + curr.offset + n,
                                          burst |-> curr.ch[c].burst]]
                   ELSE IF call.first /\ err # "timeout" THEN NothingExpected
                   ELSE expect
  BY DEF Copy
<1>2. HostTypes /\ Ring
  BY DEF IInv
<1>3. /\ infos \in [0 .. 3 -> Infos] /\ idx \in 0 .. 3 /\ call \in Calls
      /\ call.got < call.want
  BY <1>1, <1>2 DEF HostTypes
<1>4. curr = infos[Slot(0)] /\ curr \in Infos
  BY <1>3, Slots DEF curr
<1>5. err \in Errs /\ curr.left \in Nat
  BY <1>4 DEF Infos, Metas
<1>6. n \in Nat /\ n <= curr.left /\ (curr.left > 0 <=> n > 0)
  <2>1. call.want - call.got \in Nat /\ call.want - call.got > 0
    BY <1>3 DEF Calls
  <2>2. n \in Nat /\ n <= curr.left /\ n \in {call.want - call.got, curr.left}
    BY <2>1, <1>5, TakesBoth DEF nsamps_to_copy
  <2>. HIDE DEF n
  <2>. QED BY <2>1, <2>2, <1>5
<1>. HIDE DEF n
<1>7. (curr.left > 0 => Complete(curr)) /\ (curr.left > 0 <=> err = "none")
  BY <1>1, <1>2, <1>4, <1>5 DEF Ring, Complete
<1>8. /\ u \in Infos /\ u.left = curr.left - n /\ u.meta = curr.meta /\ u.offset = curr.offset + n
      /\ \A c \in Chans : /\ u.ch[c].pos = curr.ch[c].pos /\ u.ch[c].time = curr.ch[c].time
                          /\ u.ch[c].len = curr.ch[c].len /\ u.ch[c].burst = curr.ch[c].burst
      /\ u.left > 0 => /\ u.ch = curr.ch /\ u.todo = curr.todo /\ u.valid = curr.valid
                       /\ u.time = curr.time
  BY <1>4, <1>6, <1>7, ConsumedInfo
<1>. HIDE DEF u
<1>9. /\ is \in [0 .. 3 -> Infos] /\ is[Slot(0)] = u
      /\ \A k \in 0 .. 3 : k # Slot(0) => is[k] = infos[k]
  BY <1>3, <1>8, Slots
<1>. HIDE DEF is
<1>10. \/ /\ call'.st \in {"idle", "copy"} /\ infos'[Slot(0)'] = u /\ idx' = idx
          /\ infos'[Slot(1)'] = infos[Slot(1)]
          /\ call'.st = "copy" => u.left > 0
       \/ /\ call'.st = "get" /\ infos'[Slot(0)'] = infos[Slot(1)]
          /\ infos'[Slot(3)'] = u /\ u.left = 0
  <2>1. CASE err = "none" /\ ~call.one /\ call.got + n < call.want
    <3>1. cl \in Calls
      <4>1. call.got + n \in Nat
        BY <1>3, <1>6 DEF Calls
      <4>2. cl = [call EXCEPT !.got = call.got + n, !.first = FALSE]
        OBVIOUS
      <4>. QED BY <4>1, <4>2, <1>3 DEF Calls
    <3>2. enter_one_packet(is, cl)
      BY <1>1, <2>1
    <3>. HIDE DEF cl, err
    <3>3. \/ /\ is[Slot(0)].left > 0 /\ call'.st = "copy" /\ infos' = is /\ idx' = idx
             /\ Slot(0)' = Slot(0) /\ Slot(1)' = Slot(1) /\ Slot(3)' = Slot(3)
          \/ /\ is[Slot(0)].left = 0 /\ call'.st = "get"
             /\ infos'[Slot(0)'] = is[Slot(1)] /\ infos'[Slot(3)'] = is[Slot(0)]
      BY <3>1, <3>2, <1>3, <1>9, Turns
    <3>. QED BY <3>3, <1>3, <1>9, Slots
  <2>2. CASE ~(err = "none" /\ ~call.one /\ call.got + n < call.want)
    <3>1. infos' = is /\ idx' = idx /\ call' = Idle
      BY <1>1, <2>2
    <3>. QED BY <3>1, <1>3, <1>9, Slots DEF Idle
  <2>. QED BY <2>1, <2>2
<1>11. n = 0 => /\ call'.st = "idle"
                /\ \/ queued' = "none" /\ err # "timeout" /\ expect' = NothingExpected
                   \/ queued' = "none" /\ err = "timeout" /\ expect' = expect
                   \/ queued' = err /\ expect' = expect
  <2>. SUFFICES ASSUME n = 0
                PROVE  /\ call'.st = "idle"
                       /\ \/ queued' = "none" /\ err # "timeout" /\ expect' = NothingExpected
                          \/ queued' = "none" /\ err = "timeout" /\ expect' = expect
                          \/ queued' = err /\ expect' = expect
    OBVIOUS
  <2>1. err # "none" /\ ~(n > 0)
    BY <1>5, <1>6, <1>7
  <2>2. call' = Idle /\ expect' = IF call.first /\ err # "timeout" THEN NothingExpected ELSE expect
    BY <2>1, <1>1
  <2>3. call'.st = "idle"
    BY <2>2 DEF Idle
  <2>4. queued' = IF ~call.first THEN err ELSE "none"
    BY <1>1 DEF error_for_next_call
  <2>. HIDE DEF err
  <2>5. CASE call.first
    BY <2>2, <2>3, <2>4, <2>5, Zenon
  <2>6. CASE ~call.first
    BY <2>2, <2>3, <2>4, <2>6, Zenon
  <2>. QED BY <2>5, <2>6
<1>12. n > 0 => queued' = "none"
  <2>. SUFFICES ASSUME n > 0 PROVE queued' = "none"
    OBVIOUS
  <2>1. err = "none"
    BY <1>6, <1>7
  <2>. QED BY <2>1, <1>1 DEF error_for_next_call
<1>13. n > 0 => expect' = [c \in Chans |-> [sample |-> curr.ch[c].pos * SPP + curr.offset + n,
                                            burst |-> curr.ch[c].burst]]
  BY <1>1
<1>. QED BY <1>4, <1>6, <1>7, <1>8, <1>10, <1>11, <1>12, <1>13

\* Info w is info i after packet p of channel c came: the channel's buffer is
\* replaced or given back.
Puts(i, w, c, p) ==
  /\ \A d \in Chans : d # c => w.ch[d] = i.ch[d]
  /\ w.ch[c].held /\ w.ch[c].kind = p.kind /\ w.ch[c].pos = p.pos /\ w.ch[c].time = p.time
  /\ w.ch[c].len = p.len /\ w.ch[c].burst = p.burst
Gives(i, w, c) ==
  /\ \A d \in Chans : d # c => w.ch[d] = i.ch[d]
  /\ ~w.ch[c].held
Same(i, w) == w.todo = i.todo /\ w.valid = i.valid /\ w.time = i.time

\* The alignment of a data packet: the newest so far, one of the same time, or
\* an older one.
Newest(i, w, c, p) == w.valid /\ w.time = p.time /\ w.todo = Chans \ {c}
Equal(i, w, c, p) == /\ i.valid /\ p.time = i.time
                     /\ w.valid /\ w.time = i.time /\ w.todo = i.todo \ {c}
Older(i, w, c, p) == i.valid /\ p.time < i.time /\ Same(i, w)
Aligns(i, w, c, p) ==
  \/ Newest(i, w, c, p) /\ (~i.valid \/ p.time > i.time
                            \/ (infos[Slot(3)].ch[c].time > p.time /\ p.time # i.time))
  \/ Equal(i, w, c, p)
  \/ Older(i, w, c, p)

\* What alignment_check leaves.
LEMMA CheckAligns ==
  ASSUME NEW i \in Infos, NEW c \in Chans
  PROVE  LET a == alignment_check(i, c)
         IN /\ a.ch = i.ch
            /\ \/ /\ ~i.valid \/ i.ch[c].time > i.time
                  /\ a.valid /\ a.time = i.ch[c].time /\ a.todo = Chans \ {c}
               \/ /\ i.valid /\ i.ch[c].time = i.time
                  /\ a.valid /\ a.time = i.time /\ a.todo = i.todo \ {c}
               \/ i.valid /\ i.ch[c].time < i.time /\ Same(i, a)
<1>. DEFINE a == alignment_check(i, c)
<1>1. i.ch[c].time \in Int /\ i.time \in Int /\ i.ch[c].len \in Nat /\ i.todo \subseteq Chans
  BY DEF Infos, Buffers
<1>2. CASE ~i.valid \/ i.ch[c].time > i.time
  <2>1. a = [i EXCEPT !.valid = TRUE, !.time = i.ch[c].time, !.todo = Chans \ {c},
                      !.left = i.ch[c].len]
    BY <1>2 DEF alignment_check
  <2>2. a.valid /\ a.time = i.ch[c].time /\ a.todo = Chans \ {c} /\ a.ch = i.ch
    BY <2>1, <1>1 DEF Infos
  <2>. QED BY <2>2, <1>2
<1>3. CASE i.valid /\ ~(i.ch[c].time > i.time) /\ i.ch[c].time = i.time
  <2>1. a = [i EXCEPT !.todo = i.todo \ {c}]
    BY <1>3 DEF alignment_check
  <2>2. a.valid = i.valid /\ a.time = i.time /\ a.todo = i.todo \ {c} /\ a.ch = i.ch
    BY <2>1, <1>1 DEF Infos
  <2>. QED BY <2>2, <1>3
<1>4. CASE i.valid /\ ~(i.ch[c].time > i.time) /\ i.ch[c].time # i.time
  <2>1. a = i
    BY <1>4 DEF alignment_check
  <2>2. i.ch[c].time < i.time
    BY <1>1, <1>4
  <2>. HIDE DEF a
  <2>3. Same(i, a) /\ a.ch = i.ch
    BY <2>1 DEF Same
  <2>. QED BY <2>2, <2>3, <1>4 DEF a
<1>. QED BY <1>2, <1>3, <1>4

\* The info in which a set is collected, or from which it is delivered.
Work ==
  IF call.st = "get" \/ infos[Slot(0)].left > 0 THEN infos[Slot(0)] ELSE infos[Slot(1)]

\* What a packet that was read leads to: the set grows, or the call ends early
\* with an error.
Read(c, p) ==
  /\ c \in Work.todo /\ c \in Chans /\ p \in Packets /\ call.st = "get"
  /\ sock[c] # <<>> /\ p = sock[c][1] /\ sock' = [sock EXCEPT ![c] = Tail(@)]
  /\ dropped' = dropped \cup (IF HeldData(Work.ch[c]) THEN {<<c, Work.ch[c].pos>>} ELSE {})
  /\ packet_count' = IF p.kind = "data" THEN [packet_count EXCEPT ![c] = next_count(p)]
                     ELSE packet_count
  /\ Work' \in Infos
  /\ p.kind = "bad" => Gives(Work, Work', c) /\ Same(Work, Work')
  /\ p.kind # "bad" => Puts(Work, Work', c, p)
  /\ p.kind # "data" => Same(Work, Work')
  /\ p.kind = "data" => Aligns(Work, Work', c, p)
  /\ \/ /\ call'.st = "copy" /\ infos'[Slot(0)'].left = 0
        /\ infos'[Slot(0)'].meta.err \notin {"none", "timeout"}
        /\ infos'[Slot(0)'].meta.err = "gap" => infos'[Slot(0)'].meta = gap_meta(c)
        /\ infos'[Slot(0)'].ch = infos[Slot(1)].ch
     \/ call'.st = "get" /\ p.kind = "data" /\ in_sequence(c, p)
  /\ infos'[Slot(3)'] = infos[Slot(3)]
  /\ UNCHANGED fpgaVars /\ UNCHANGED <<arrived, queued, expect, faults>>

\* GetPacket reads a packet.
LEMMA Reads ==
  ASSUME IInv, GetPacket
  PROVE  \E c \in Chans : \E p \in Packets : Read(c, p)
<1>. DEFINE c == Min(curr.todo)
            p == Head(sock[c])
            u == Unpacked(curr, c, p)
<1>1. /\ call.st = "get" /\ curr.todo # {} /\ sock[c] # <<>>
      /\ sock' = [sock EXCEPT ![c] = Tail(sock[c])]
      /\ dropped' = dropped \cup Overwritten(c)
      /\ packet_count' = IF p.kind # "data" THEN packet_count
                         ELSE [packet_count EXCEPT ![c] = next_count(p)]
      /\ UNCHANGED fpgaVars /\ UNCHANGED <<arrived, idx, queued, expect, faults>>
      /\ p.kind = "bad" => end_early([curr EXCEPT !.ch[c].held = FALSE], Error("bad_packet"))
      /\ p.kind \in {"overflow", "zerolen"} =>
           end_early(u, [Error(p.kind) EXCEPT !.has_time = TRUE, !.time = p.time])
      /\ p.kind = "data" =>
           \/ end_early(alignment_check(u, c), gap_meta(c))
           \/ /\ in_sequence(c, p)
              /\ keep_going(alignment_check(timestamp_check(u, c), c))
  BY DEF GetPacket
<1>2. HostTypes /\ Ring
  BY DEF IInv
<1>3. curr = infos[Slot(0)] /\ curr \in Infos /\ c \in curr.todo /\ c \in Chans /\ Work = curr
  BY <1>1, <1>2, TodoChannel DEF Work
<1>. HIDE DEF c
<1>4. p \in Packets /\ p = sock[c][1] /\ Head(sock[c]) = p
  BY <1>1, <1>3 DEF IInv, SockTypes
<1>. HIDE DEF p
<1>5. dropped' = dropped \cup (IF HeldData(curr.ch[c]) THEN {<<c, curr.ch[c].pos>>} ELSE {})
  BY <1>1 DEF Overwritten, HeldData
<1>6. /\ u \in Infos /\ u.todo = curr.todo /\ u.valid = curr.valid /\ u.time = curr.time
      /\ u.offset = curr.offset /\ u.left = curr.left
      /\ \A d \in Chans : d # c => u.ch[d] = curr.ch[d]
      /\ u.ch[c].held /\ u.ch[c].pos = p.pos /\ u.ch[c].time = p.time
      /\ u.ch[c].len = p.len /\ u.ch[c].kind = p.kind /\ u.ch[c].burst = p.burst
  BY <1>3, <1>4, UnpackedInfo
<1>. HIDE DEF u
<1>7. p.kind \in Kinds /\ p.time \in Int /\ p.len \in Nat /\ p.len > 0
  BY <1>4 DEF Packets
<1>8. Collecting(curr) /\ Matching(u, c)
  BY <1>1, <1>2, <1>3, <1>6 DEF Ring, Collecting, Matching
<1>9. infos[Slot(1)].left = 0 /\ idx \in 0 .. 3 /\ infos \in [0 .. 3 -> Infos] /\ call \in Calls
  BY <1>1, <1>2 DEF Ring, Fresh, HostTypes
\* An early end with an error, and progress w.
<1>10. ASSUME NEW w \in Infos, NEW m \in Metas, end_early(w, m), m.err \notin {"none", "timeout"},
              m.err = "gap" => m = gap_meta(c)
       PROVE  /\ Work' = w
              /\ call'.st = "copy" /\ infos'[Slot(0)'].left = 0
              /\ infos'[Slot(0)'].meta.err \notin {"none", "timeout"}
              /\ infos'[Slot(0)'].meta.err = "gap" => infos'[Slot(0)'].meta = gap_meta(c)
              /\ infos'[Slot(0)'].ch = infos[Slot(1)].ch
              /\ infos'[Slot(3)'] = infos[Slot(3)]
  <2>1. /\ call'.st = "copy"
        /\ Slot(0)' = Slot(0) /\ Slot(1)' = Slot(1) /\ Slot(3)' = Slot(3)
        /\ infos'[Slot(0)].meta = m /\ infos'[Slot(0)].left = infos[Slot(1)].left
        /\ infos'[Slot(0)].ch = infos[Slot(1)].ch
        /\ infos'[Slot(1)] = w /\ infos'[Slot(3)] = infos[Slot(3)]
    BY <1>1, <1>2, <1>10, Swaps
  <2>2. Work' = w
    BY <2>1, <1>9 DEF Work
  <2>. QED BY <2>1, <2>2, <1>9, <1>10
<1>11. CASE p.kind = "bad"
  <2>. DEFINE w == [curr EXCEPT !.ch[c].held = FALSE]
              m == Error("bad_packet")
  <2>1. w \in Infos /\ Gives(curr, w, c) /\ Same(curr, w)
    <3>. DEFINE b == [curr.ch[c] EXCEPT !.held = FALSE]
                h == [curr.ch EXCEPT ![c] = b]
    <3>1. curr.ch \in [Chans -> Buffers] /\ curr.ch[c] \in Buffers
      BY <1>3 DEF Infos
    <3>2. b \in Buffers /\ ~b.held
      BY <3>1 DEF Buffers
    <3>. HIDE DEF b
    <3>3. h \in [Chans -> Buffers] /\ h[c] = b /\ \A d \in Chans : d # c => h[d] = curr.ch[d]
      BY <1>3, <3>1, <3>2
    <3>4. w = [curr EXCEPT !.ch = h]
      BY <1>3, <3>1 DEF b, Infos
    <3>. HIDE DEF h, w
    <3>5. /\ w \in Infos /\ w.ch = h /\ w.todo = curr.todo /\ w.valid = curr.valid
          /\ w.time = curr.time
      BY <3>3, <3>4, <1>3 DEF Infos
    <3>. QED BY <3>2, <3>3, <3>5 DEF Gives, Same
  <2>2. m \in Metas /\ m.err = "bad_packet" /\ end_early(w, m)
    BY <1>1, <1>11, OwnCodes, ErrorIsMeta
  <2>. HIDE DEF w, m
  <2>3. m.err \notin {"none", "timeout"} /\ m.err # "gap"
    BY <2>2
  <2>4. /\ Work' = w
        /\ call'.st = "copy" /\ infos'[Slot(0)'].left = 0
        /\ infos'[Slot(0)'].meta.err \notin {"none", "timeout"}
        /\ infos'[Slot(0)'].meta.err = "gap" => infos'[Slot(0)'].meta = gap_meta(c)
        /\ infos'[Slot(0)'].ch = infos[Slot(1)].ch
        /\ infos'[Slot(3)'] = infos[Slot(3)]
    BY <2>1, <2>2, <2>3, <1>10
  <2>5. Read(c, p)
    BY <2>1, <2>4, <1>1, <1>3, <1>4, <1>5, <1>11 DEF Read
  <2>. QED BY <2>5, <1>3, <1>4
<1>12. CASE p.kind \in {"overflow", "zerolen"}
  <2>. DEFINE m == [Error(p.kind) EXCEPT !.has_time = TRUE, !.time = p.time]
  <2>1. m \in Metas /\ m.err = p.kind
    <3>1. p.kind \in Errs /\ TRUE \in BOOLEAN /\ p.time \in Int
      BY <1>7, <1>12, OwnCodes
    <3>. QED BY <3>1, TimedError
  <2>2. end_early(u, m)
    BY <1>1, <1>12
  <2>. HIDE DEF m
  <2>3. m.err \notin {"none", "timeout"} /\ m.err # "gap"
    BY <2>1, <1>12
  <2>4. /\ Work' = u
        /\ call'.st = "copy" /\ infos'[Slot(0)'].left = 0
        /\ infos'[Slot(0)'].meta.err \notin {"none", "timeout"}
        /\ infos'[Slot(0)'].meta.err = "gap" => infos'[Slot(0)'].meta = gap_meta(c)
        /\ infos'[Slot(0)'].ch = infos[Slot(1)].ch
        /\ infos'[Slot(3)'] = infos[Slot(3)]
    BY <2>1, <2>2, <2>3, <1>6, <1>10
  <2>5. p.kind # "data" /\ p.kind # "bad" /\ Puts(curr, u, c, p) /\ Same(curr, u)
    BY <1>6, <1>12 DEF Puts, Same
  <2>6. Read(c, p)
    BY <2>4, <2>5, <1>1, <1>3, <1>4, <1>5, <1>6 DEF Read
  <2>. QED BY <2>6, <1>3, <1>4
<1>13. CASE p.kind = "data" /\ end_early(alignment_check(u, c), gap_meta(c))
  <2>. DEFINE w == alignment_check(u, c)
              m == gap_meta(c)
  <2>1. w \in Infos /\ w.ch = u.ch
    BY <1>3, <1>6, <1>7, <1>8, <1>13, AlignmentCheck
  <2>2. Aligns(curr, w, c, p) /\ Puts(curr, w, c, p)
    <3>1. \/ /\ ~u.valid \/ u.ch[c].time > u.time
             /\ w.valid /\ w.time = u.ch[c].time /\ w.todo = Chans \ {c}
          \/ /\ u.valid /\ u.ch[c].time = u.time
             /\ w.valid /\ w.time = u.time /\ w.todo = u.todo \ {c}
          \/ u.valid /\ u.ch[c].time < u.time /\ Same(u, w)
      BY <1>3, <1>6, CheckAligns
    <3>. HIDE DEF w
    <3>. QED BY <3>1, <2>1, <1>6 DEF Aligns, Newest, Equal, Older, Same, Puts
  <2>3. m \in Metas /\ m.err = "gap" /\ m = gap_meta(c)
    BY <1>2, <1>3, GapMeta
  <2>4. end_early(w, m)
    BY <1>13
  <2>. HIDE DEF w, m
  <2>5. m.err \notin {"none", "timeout"}
    BY <2>3
  <2>6. /\ Work' = w
        /\ call'.st = "copy" /\ infos'[Slot(0)'].left = 0
        /\ infos'[Slot(0)'].meta.err \notin {"none", "timeout"}
        /\ infos'[Slot(0)'].meta.err = "gap" => infos'[Slot(0)'].meta = gap_meta(c)
        /\ infos'[Slot(0)'].ch = infos[Slot(1)].ch
        /\ infos'[Slot(3)'] = infos[Slot(3)]
    BY <2>1, <2>3, <2>4, <2>5, <1>10
  <2>7. Read(c, p)
    BY <2>1, <2>2, <2>6, <1>1, <1>3, <1>4, <1>5, <1>13 DEF Read
  <2>. QED BY <2>7, <1>3, <1>4
<1>14. CASE /\ p.kind = "data" /\ in_sequence(c, p)
            /\ keep_going(alignment_check(timestamp_check(u, c), c))
  <2>. DEFINE t == timestamp_check(u, c)
              w == alignment_check(t, c)
  <2>1. t \in Infos /\ Matching(t, c) /\ t.ch = u.ch
    BY <1>3, <1>6, <1>8, TimestampCheck
  <2>2. \/ t = u
        \/ /\ infos[Slot(3)].ch[c].time > u.ch[c].time /\ u.time # u.ch[c].time
           /\ t = [u EXCEPT !.valid = FALSE]
    BY DEF timestamp_check, prev
  <2>. HIDE DEF t
  <2>3. w \in Infos /\ w.ch = u.ch
    BY <2>1, <1>3, <1>6, <1>7, <1>14, AlignmentCheck
  <2>4. Aligns(curr, w, c, p) /\ Puts(curr, w, c, p)
    <3>1. \/ /\ ~t.valid \/ t.ch[c].time > t.time
             /\ w.valid /\ w.time = t.ch[c].time /\ w.todo = Chans \ {c}
          \/ /\ t.valid /\ t.ch[c].time = t.time
             /\ w.valid /\ w.time = t.time /\ w.todo = t.todo \ {c}
          \/ t.valid /\ t.ch[c].time < t.time /\ Same(t, w)
      BY <2>1, <1>3, CheckAligns
    <3>. HIDE DEF w
    <3>2. CASE t = u
      BY <3>1, <3>2, <2>3, <1>6 DEF Aligns, Newest, Equal, Older, Same, Puts
    <3>3. CASE /\ infos[Slot(3)].ch[c].time > u.ch[c].time /\ u.time # u.ch[c].time
               /\ t = [u EXCEPT !.valid = FALSE]
      <4>1. ~t.valid
        BY <3>3, <1>6 DEF Infos
      <4>2. w.valid /\ w.time = p.time /\ w.todo = Chans \ {c}
        BY <4>1, <3>1, <2>1, <1>6
      <4>. QED BY <4>2, <3>3, <2>3, <1>6 DEF Aligns, Newest, Puts
    <3>. QED BY <3>2, <3>3, <2>2
  <2>5. keep_going(w)
    BY <1>14 DEF t
  <2>. HIDE DEF w
  <2>6. CASE end_early(w, Error("alignment"))
    <3>. DEFINE m == Error("alignment")
    <3>1. m \in Metas /\ m.err = "alignment"
      BY OwnCodes, ErrorIsMeta
    <3>. HIDE DEF m
    <3>2. m.err \notin {"none", "timeout"} /\ m.err # "gap" /\ end_early(w, m)
      BY <3>1, <2>6 DEF m
    <3>3. /\ Work' = w
          /\ call'.st = "copy" /\ infos'[Slot(0)'].left = 0
          /\ infos'[Slot(0)'].meta.err \notin {"none", "timeout"}
          /\ infos'[Slot(0)'].meta.err = "gap" => infos'[Slot(0)'].meta = gap_meta(c)
          /\ infos'[Slot(0)'].ch = infos[Slot(1)].ch
          /\ infos'[Slot(3)'] = infos[Slot(3)]
      BY <3>1, <3>2, <2>3, <1>10
    <3>4. Read(c, p)
      BY <3>3, <2>3, <2>4, <1>1, <1>3, <1>4, <1>5, <1>14 DEF Read
    <3>. QED BY <3>4, <1>3, <1>4
  <2>7. CASE infos' = [infos EXCEPT ![Slot(0)] = w] /\ call' = [call EXCEPT !.iter = @ + 1]
    <3>1. call'.st = "get"
      BY <2>7, <1>1, <1>9 DEF Calls
    <3>2. infos'[Slot(0)'] = w /\ infos'[Slot(3)'] = infos[Slot(3)]
      BY <2>7, <1>1, <1>9, Slots
    <3>3. Work' = w
      BY <3>1, <3>2 DEF Work
    <3>4. Read(c, p)
      BY <3>1, <3>2, <3>3, <2>3, <2>4, <1>1, <1>3, <1>4, <1>5, <1>14 DEF Read
    <3>. QED BY <3>4, <1>3, <1>4
  <2>. QED BY <2>5, <2>6, <2>7 DEF keep_going
<1>. QED BY <1>1, <1>7, <1>11, <1>12, <1>13, <1>14 DEF Kinds

\* What the steps of recv other than reading leave alone.
Settled == /\ UNCHANGED fpgaVars /\ sock' = sock /\ arrived' = arrived
           /\ packet_count' = packet_count /\ faults' = faults

\* A call begins: it reports the queued error, goes on with the current set, or
\* turns the ring.
LEMMA Begins ==
  ASSUME IInv, NEW n \in Wants, NEW one \in BOOLEAN, RecvBegin(n, one)
  PROVE  /\ call.st = "idle" /\ queued' = "none" /\ Settled /\ dropped' = dropped
         /\ Work' = Work
         /\ \/ /\ queued \notin {"none", "timeout"} /\ expect' = NothingExpected
               /\ call'.st = "idle" /\ infos'[Slot(0)'] = infos[Slot(0)]
            \/ /\ queued \in {"none", "timeout"} /\ expect' = expect
               /\ \/ /\ call'.st = "copy" /\ infos'[Slot(0)'] = infos[Slot(0)]
                     /\ infos[Slot(0)].left > 0
                  \/ /\ call'.st = "get" /\ infos'[Slot(3)'] = infos[Slot(0)]
                     /\ infos[Slot(0)].left = 0
<1>. DEFINE cl == [Idle EXCEPT !.want = n, !.one = one]
<1>1. /\ call.st = "idle" /\ queued' = "none" /\ Settled /\ dropped' = dropped
      /\ IF queued \notin {"none", "timeout"}
         THEN expect' = NothingExpected /\ UNCHANGED <<infos, idx, call>>
         ELSE enter_one_packet(infos, cl) /\ expect' = expect
  BY DEF RecvBegin, Settled, sockVars
<1>2. infos \in [0 .. 3 -> Infos] /\ idx \in 0 .. 3
  BY DEF IInv, HostTypes
<1>3. CASE queued \notin {"none", "timeout"}
  BY <1>1, <1>2, <1>3, Slots DEF Work
<1>4. CASE queued \in {"none", "timeout"}
  <2>1. enter_one_packet(infos, cl) /\ expect' = expect
    BY <1>1, <1>4
  <2>2. cl \in Calls
    BY SizesAssumption DEF Idle, Calls
  <2>. HIDE DEF cl
  <2>3. \/ /\ infos[Slot(0)].left > 0 /\ call'.st = "copy" /\ infos' = infos /\ idx' = idx
           /\ Slot(0)' = Slot(0) /\ Slot(1)' = Slot(1) /\ Slot(3)' = Slot(3)
        \/ /\ infos[Slot(0)].left = 0 /\ call'.st = "get"
           /\ infos'[Slot(0)'] = infos[Slot(1)] /\ infos'[Slot(3)'] = infos[Slot(0)]
    BY <2>1, <2>2, <1>2, Turns
  <2>. QED BY <2>1, <2>3, <1>1, <1>4 DEF Work
<1>. QED BY <1>3, <1>4

\* No packet of channel c came in time.
Misses(c) ==
  /\ c \in Work.todo /\ c \in Chans /\ sock[c] = <<>> /\ call.st = "get"
  /\ Settled /\ expect' = expect /\ queued' = queued
  /\ dropped' = dropped \cup (IF HeldData(Work.ch[c]) THEN {<<c, Work.ch[c].pos>>} ELSE {})
  /\ Work' \in Infos /\ Gives(Work, Work', c) /\ Same(Work, Work')
  /\ call'.st = "copy" /\ infos'[Slot(0)'].left = 0
  /\ infos'[Slot(0)'].meta.err = "timeout" /\ ~infos'[Slot(0)'].meta.has_time
  /\ infos'[Slot(0)'].ch = infos[Slot(1)].ch

LEMMA Times ==
  ASSUME IInv, GetTimeout
  PROVE  \E c \in Chans : Misses(c)
<1>. DEFINE c == Min(curr.todo)
            w == [curr EXCEPT !.ch[c].held = FALSE]
            m == Error("timeout")
<1>1. /\ call.st = "get" /\ curr.todo # {} /\ sock[c] = <<>> /\ end_early(w, m) /\ idx' = idx
      /\ dropped' = dropped \cup Overwritten(c)
      /\ Settled /\ expect' = expect /\ queued' = queued
  BY DEF GetTimeout, Settled, sockVars
<1>2. HostTypes /\ Ring
  BY DEF IInv
<1>3. curr = infos[Slot(0)] /\ curr \in Infos /\ c \in curr.todo /\ c \in Chans /\ Work = curr
  BY <1>1, <1>2, TodoChannel DEF Work
<1>. HIDE DEF c
<1>4. dropped' = dropped \cup (IF HeldData(curr.ch[c]) THEN {<<c, curr.ch[c].pos>>} ELSE {})
  BY <1>1 DEF Overwritten, HeldData
<1>5. w \in Infos /\ Gives(curr, w, c) /\ Same(curr, w)
  <2>. DEFINE b == [curr.ch[c] EXCEPT !.held = FALSE]
              h == [curr.ch EXCEPT ![c] = b]
  <2>1. curr.ch \in [Chans -> Buffers] /\ curr.ch[c] \in Buffers
    BY <1>3 DEF Infos
  <2>2. b \in Buffers /\ ~b.held
    BY <2>1 DEF Buffers
  <2>. HIDE DEF b
  <2>3. h \in [Chans -> Buffers] /\ h[c] = b /\ \A d \in Chans : d # c => h[d] = curr.ch[d]
    BY <1>3, <2>1, <2>2
  <2>4. w = [curr EXCEPT !.ch = h]
    BY <1>3, <2>1 DEF b, Infos
  <2>. HIDE DEF h, w
  <2>5. /\ w \in Infos /\ w.ch = h /\ w.todo = curr.todo /\ w.valid = curr.valid
        /\ w.time = curr.time
    BY <2>3, <2>4, <1>3 DEF Infos
  <2>. QED BY <2>2, <2>3, <2>5 DEF Gives, Same
<1>6. m \in Metas /\ m.err = "timeout" /\ ~m.has_time
  BY OwnCodes, ErrorIsMeta DEF Error, NoMeta
<1>. HIDE DEF w, m
<1>7. /\ call'.st = "copy"
      /\ Slot(0)' = Slot(0) /\ Slot(1)' = Slot(1)
      /\ infos'[Slot(0)].meta = m /\ infos'[Slot(0)].left = infos[Slot(1)].left
      /\ infos'[Slot(0)].ch = infos[Slot(1)].ch
      /\ infos'[Slot(1)] = w
  BY <1>1, <1>2, <1>5, <1>6, Swaps
<1>8. infos[Slot(1)].left = 0
  BY <1>1, <1>2 DEF Ring, Fresh
<1>9. Work' = w
  BY <1>7, <1>8 DEF Work
<1>10. Misses(c)
  BY <1>1, <1>3, <1>4, <1>5, <1>6, <1>7, <1>8, <1>9 DEF Misses
<1>. QED BY <1>3, <1>10

\* A set is complete.
LEMMA Completes ==
  ASSUME IInv, Aligned
  PROVE  /\ call.st = "get" /\ Work.todo = {} /\ Work.valid /\ Work.left > 0
         /\ Settled /\ UNCHANGED <<queued, expect, dropped>>
         /\ call'.st = "copy" /\ Work' = infos'[Slot(0)'] /\ Work' \in Infos
         /\ Same(Work, Work') /\ Work'.ch = Work.ch /\ Work'.offset = 0
         /\ Work'.left > 0 /\ Work'.meta.err = "none"
<1>. DEFINE m == [err |-> "none", has_time |-> TRUE, time |-> curr.ch[0].time,
                  eob |-> curr.ch[0].eob]
            w == [curr EXCEPT !.meta = m]
<1>1. /\ call.st = "get" /\ curr.todo = {} /\ infos' = [infos EXCEPT ![Slot(0)].meta = m]
      /\ call' = [call EXCEPT !.st = "copy"] /\ idx' = idx
      /\ Settled /\ UNCHANGED <<queued, expect, dropped>>
  BY DEF Aligned, Settled, sockVars, histVars
<1>2. HostTypes /\ Ring
  BY DEF IInv
<1>3. infos \in [0 .. 3 -> Infos] /\ idx \in 0 .. 3 /\ call \in Calls
  BY <1>2 DEF HostTypes
<1>4. curr = infos[Slot(0)] /\ curr \in Infos /\ Work = curr
  BY <1>1, <1>3, Slots DEF curr, Work
<1>5. Collecting(curr)
  BY <1>1, <1>2, <1>4 DEF Ring
<1>6. curr.valid /\ curr.left > 0 /\ curr.offset = 0
  <2>1. curr.valid
    BY <1>1, <1>5, ChansNat DEF Collecting
  <2>. QED BY <2>1, <1>5 DEF Collecting
<1>7. m \in Metas /\ m.err = "none"
  <2>1. curr.ch[0] \in Buffers
    BY <1>4, ChansNat DEF Infos
  <2>2. curr.ch[0].time \in Int /\ curr.ch[0].eob \in BOOLEAN
    BY <2>1 DEF Buffers
  <2>. QED BY <2>2, OwnCodes DEF Metas
<1>. HIDE DEF m
<1>8. /\ w \in Infos /\ w.meta = m /\ w.ch = curr.ch /\ w.todo = curr.todo
      /\ w.valid = curr.valid /\ w.time = curr.time /\ w.left = curr.left
      /\ w.offset = curr.offset
  BY <1>4, <1>7 DEF Infos
<1>9. infos' = [infos EXCEPT ![Slot(0)] = w]
  BY <1>1, <1>4
<1>. HIDE DEF w
<1>10. infos'[Slot(0)'] = w /\ call'.st = "copy"
  BY <1>1, <1>3, <1>9, Slots DEF Calls
<1>11. Work' = w
  BY <1>6, <1>8, <1>10 DEF Work
<1>. QED BY <1>1, <1>4, <1>6, <1>7, <1>8, <1>10, <1>11 DEF Same

-----------------------------------------------------------------------------
(* The time of a gap.                                                      *)

\* The samples that were delivered last are those of the given info.
Follows(info) ==
  expect[0].sample # None /\ info.meta.has_time =>
    /\ expect[0].sample = info.ch[0].pos * SPP + info.offset
    /\ Placed(0, info.ch[0]) /\ info.meta.time = info.ch[0].time
    /\ \E c \in Chans : info.left + info.offset = info.ch[c].len

\* The info that the time of a gap is taken from describes the samples that were
\* delivered last, or nothing is expected, or it has no time.
Reports ==
  /\ call.st = "get" => Follows(infos[Slot(3)]) /\ infos[Slot(3)].left = 0
  /\ call.st = "idle" /\ queued \in {"none", "timeout"} => Follows(infos[Slot(0)])
  /\ call.st = "copy" =>
       /\ infos[Slot(0)].meta.err = "none" /\ infos[Slot(0)].offset > 0 => Follows(infos[Slot(0)])
       /\ infos[Slot(0)].meta.err = "timeout" => ~infos[Slot(0)].meta.has_time
       /\ infos[Slot(0)].meta.err = "gap" =>
            /\ Follows(infos[Slot(3)]) /\ infos[Slot(3)].left = 0
            /\ infos[Slot(0)].meta.has_time = infos[Slot(3)].meta.has_time
            /\ \E c \in Chans :
                 infos[Slot(0)].meta.time = infos[Slot(3)].meta.time + infos[Slot(3)].ch[c].len

\* Nothing is expected.
LEMMA NothingThere == NothingExpected[0].sample = None /\ \A c \in Chans : NothingExpected[c].sample = None
BY ChansNat DEF NothingExpected

\* What was delivered stays delivered.
LEMMA FollowsOn ==
  ASSUME FpgaTypes, FpgaTypes', DeviceStep, NEW i, Follows(i)
  PROVE  expect'[0].sample # None /\ i.meta.has_time =>
           /\ expect'[0].sample = i.ch[0].pos * SPP + i.offset
           /\ Sent(i.ch[0], pos'[0], setAt') /\ i.meta.time = i.ch[0].time
           /\ \E c \in Chans : i.left + i.offset = i.ch[c].len
<1>1. expect' = expect
  BY DEF DeviceStep, histVars
<1>2. Placed(0, i.ch[0]) => Sent(i.ch[0], pos'[0], setAt')
  BY ChansNat, PlacedStays
<1>. QED BY <1>1, <1>2 DEF Follows

LEMMA InitReports == Init => Reports
<1>. SUFFICES ASSUME Init PROVE Reports
  OBVIOUS
<1>1. expect[0].sample = None /\ call.st = "idle"
  BY NothingThere DEF Init, Idle
<1>. QED BY <1>1 DEF Reports, Follows

LEMMA CopyReports == IInv /\ Reports /\ Copy => Reports'
<1>. SUFFICES ASSUME IInv, Reports, Copy PROVE Reports'
  OBVIOUS
<1>. DEFINE i == infos[Slot(0)]
<1>1. PICK n \in Nat, u \in Infos :
        /\ u.left = i.left - n /\ u.offset = i.offset + n /\ u.meta = i.meta
        /\ \A c \in Chans : /\ u.ch[c].pos = i.ch[c].pos /\ u.ch[c].time = i.ch[c].time
                            /\ u.ch[c].len = i.ch[c].len
        /\ i.left > 0 <=> n > 0
        /\ i.left > 0 <=> i.meta.err = "none"
        /\ n > 0 => expect' = [c \in Chans |-> [sample |-> i.ch[c].pos * SPP + i.offset + n,
                                                burst  |-> i.ch[c].burst]]
        /\ n = 0 => /\ call'.st = "idle"
                    /\ \/ queued' = "none" /\ i.meta.err # "timeout"
                                           /\ expect' = NothingExpected
                       \/ queued' = "none" /\ i.meta.err = "timeout" /\ expect' = expect
                       \/ queued' = i.meta.err /\ expect' = expect
        /\ n > 0 => queued' = "none"
        /\ \/ /\ call'.st \in {"idle", "copy"} /\ infos'[Slot(0)'] = u
              /\ call'.st = "copy" => u.left > 0
           \/ /\ call'.st = "get" /\ infos'[Slot(3)'] = u /\ u.left = 0
  BY Copies
<1>2. /\ call.st = "copy" /\ HostTypes /\ Ring /\ idx \in 0 .. 3 /\ i \in Infos /\ i.left \in Nat
      /\ i.offset \in Nat
  BY Slots DEF Copy, IInv, HostTypes, Infos
<1>3. pos' = pos /\ setAt' = setAt
  BY DEF Copy, fpgaVars
<1>4. InfoDated(i) /\ (i.left > 0 => Complete(i)) /\ (i.meta.err = "timeout" => ~i.meta.has_time)
  BY <1>2, Slots DEF IInv, InfosDated, Ring, Reports
<1>. HIDE DEF i
<1>5. CASE n > 0
  <2>1. Complete(i) /\ i.meta.err = "none"
    BY <1>1, <1>4, <1>5
  <2>2. Placed(0, i.ch[0]) /\ i.meta.time = i.ch[0].time
    BY <2>1, <1>4, ChansNat DEF Complete, InfoDated
  <2>3. Sent(u.ch[0], pos'[0], setAt')
    BY <2>2, <1>1, <1>3, ChansNat DEF Placed, Sent
  <2>4. i.ch[0].pos * SPP \in Int /\ n \in Nat
    BY <1>2, SizesAssumption, ChansNat DEF Infos, Buffers
  <2>5. expect'[0].sample = u.ch[0].pos * SPP + u.offset
    <3>1. expect'[0].sample = i.ch[0].pos * SPP + i.offset + n
      BY <1>1, <1>5, ChansNat
    <3>2. u.ch[0].pos = i.ch[0].pos /\ u.offset = i.offset + n
      BY <1>1, ChansNat
    <3>. QED BY <3>1, <3>2, <2>4, <1>2
  <2>6. PICK c \in Chans : i.left + i.offset = i.ch[c].len
    BY <2>1 DEF Complete
  <2>7. u.left + u.offset = u.ch[c].len
    BY <2>6, <1>1, <1>2
  <2>8. u.meta.time = u.ch[0].time /\ u.meta.err = "none"
    BY <2>1, <2>2, <1>1, ChansNat
  <2>. QED BY <2>3, <2>5, <2>7, <2>8, <1>1, <1>5 DEF Reports, Follows, Placed
<1>6. CASE n = 0
  <2>1. call'.st = "idle" /\ infos'[Slot(0)'] = u /\ i.meta.err # "none" /\ u.meta = i.meta
    BY <1>1, <1>2, <1>6
  <2>2. CASE expect' = NothingExpected
    BY <2>1, <2>2, NothingThere DEF Reports, Follows
  <2>3. CASE i.meta.err = "timeout"
    BY <2>1, <2>3, <1>4 DEF Reports, Follows
  <2>4. CASE queued' = i.meta.err /\ i.meta.err # "timeout"
    BY <2>1, <2>4 DEF Reports
  <2>. QED BY <2>2, <2>3, <2>4, <1>1, <1>6
<1>. QED BY <1>1, <1>5, <1>6

LEMMA NextReports == IInv /\ Reports /\ [Next]_vars => Reports'
<1>. SUFFICES ASSUME IInv, Reports, [Next]_vars PROVE Reports'
  OBVIOUS
<1>0. FpgaTypes /\ HostTypes /\ Ring /\ idx \in 0 .. 3
  BY DEF IInv, HostTypes
<1>1. CASE DeviceStep /\ FpgaTypes'
  <2>1. /\ infos' = infos /\ call' = call /\ queued' = queued
        /\ Slot(0)' = Slot(0) /\ Slot(3)' = Slot(3)
    BY <1>0, <1>1, Slots DEF DeviceStep, hostVars
  <2>2. \A k \in 0 .. 3 : Follows(infos[k]) => Follows(infos[k])'
    <3>1. ASSUME NEW k \in 0 .. 3, Follows(infos[k]) PROVE Follows(infos[k])'
      <4>. DEFINE i == infos[k]
      <4>1. Follows(i)
        BY <3>1
      <4>. HIDE DEF i
      <4>2. expect'[0].sample # None /\ i.meta.has_time =>
              /\ expect'[0].sample = i.ch[0].pos * SPP + i.offset
              /\ Sent(i.ch[0], pos'[0], setAt') /\ i.meta.time = i.ch[0].time
              /\ \E c \in Chans : i.left + i.offset = i.ch[c].len
        BY <4>1, <1>0, <1>1, FollowsOn
      <4>. QED BY <4>2, <2>1 DEF i, Follows, Placed
    <3>. QED BY <3>1
  <2>. QED BY <2>1, <2>2, <1>0, Slots DEF Reports
<1>2. ASSUME NEW n \in Wants, NEW one \in BOOLEAN, RecvBegin(n, one) PROVE Reports'
  <2>1. /\ call.st = "idle" /\ queued' = "none" /\ Settled
        /\ \/ /\ queued \notin {"none", "timeout"} /\ expect' = NothingExpected
              /\ call'.st = "idle"
           \/ /\ queued \in {"none", "timeout"} /\ expect' = expect
              /\ \/ /\ call'.st = "copy" /\ infos'[Slot(0)'] = infos[Slot(0)]
                    /\ infos[Slot(0)].left > 0
                 \/ /\ call'.st = "get" /\ infos'[Slot(3)'] = infos[Slot(0)]
                    /\ infos[Slot(0)].left = 0
    BY <1>2, Begins
  <2>2. pos' = pos /\ setAt' = setAt
    BY <2>1 DEF Settled, fpgaVars
  <2>3. CASE expect' = NothingExpected /\ call'.st = "idle"
    BY <2>3, NothingThere DEF Reports, Follows
  <2>4. CASE queued \in {"none", "timeout"} /\ expect' = expect
    <3>1. Follows(infos[Slot(0)])
      BY <2>1, <2>4 DEF Reports
    <3>2. infos[Slot(0)].left > 0 => infos[Slot(0)].meta.err = "none"
      BY <1>0, <2>1 DEF Ring, Complete
    <3>3. CASE /\ call'.st = "copy" /\ infos'[Slot(0)'] = infos[Slot(0)]
               /\ infos[Slot(0)].left > 0
      BY <3>1, <3>2, <3>3, <2>2, <2>4 DEF Reports, Follows, Placed
    <3>4. CASE /\ call'.st = "get" /\ infos'[Slot(3)'] = infos[Slot(0)]
               /\ infos[Slot(0)].left = 0
      BY <3>1, <3>4, <2>2, <2>4 DEF Reports, Follows, Placed
    <3>. QED BY <3>3, <3>4, <2>1, <2>4
  <2>. QED BY <2>1, <2>3, <2>4
<1>3. CASE GetPacket
  <2>1. PICK c \in Chans, p \in Packets : Read(c, p)
    BY <1>3, Reads
  <2>2. /\ call.st = "get" /\ expect' = expect /\ infos'[Slot(3)'] = infos[Slot(3)]
        /\ pos' = pos /\ setAt' = setAt
        /\ \/ /\ call'.st = "copy"
              /\ infos'[Slot(0)'].meta.err \notin {"none", "timeout"}
              /\ infos'[Slot(0)'].meta.err = "gap" => infos'[Slot(0)'].meta = gap_meta(c)
           \/ call'.st = "get"
    BY <2>1 DEF Read, fpgaVars
  <2>3. Follows(infos[Slot(3)]) /\ infos[Slot(3)].left = 0
    BY <2>2 DEF Reports
  <2>4. Follows(infos[Slot(3)])' /\ infos'[Slot(3)'].left = 0
    BY <2>2, <2>3 DEF Follows, Placed
  <2>5. gap_meta(c).has_time = prev.meta.has_time /\ gap_meta(c).time = prev.meta.time + prev.ch[c].len
    <3>1. Error("gap") \in Metas
      BY OwnCodes, ErrorIsMeta
    <3>. QED BY <3>1 DEF gap_meta, Metas
  <2>6. prev = infos[Slot(3)]
    BY DEF prev
  <2>. QED BY <2>2, <2>4, <2>5, <2>6 DEF Reports
<1>4. CASE GetTimeout
  <2>1. PICK c \in Chans : Misses(c)
    BY <1>4, Times
  <2>. QED BY <2>1 DEF Misses, Reports
<1>5. CASE Aligned
  <2>1. /\ call'.st = "copy" /\ infos'[Slot(0)'].offset = 0
        /\ infos'[Slot(0)'].meta.err = "none"
    BY <1>5, Completes
  <2>. QED BY <2>1 DEF Reports
<1>6. CASE Copy
  BY <1>6, CopyReports
<1>. QED BY <1>1, <1>2, <1>3, <1>4, <1>5, <1>6, StepKinds

\* The error of a gap in the packet counts carries the time of the first sample
\* that is missing, as far as the packets before it were whole: the info that
\* recv takes the time from is always the one it delivered last.
THEOREM GapTimed == Spec => []GapTime
<1>1. Spec => []Reports
  <2>1. IInv /\ Reports /\ [Next]_vars => Reports'
    BY NextReports
  <2>. QED BY <2>1, InitReports, RecvInvariant, PTL DEF Spec
<1>2. IInv /\ Reports => GapTime
  <2>. SUFFICES ASSUME IInv, Reports, call.st = "copy", curr.meta.err = "gap",
                       curr.meta.has_time, expect[0].sample # None,
                       \A c \in Chans : prev.ch[c].len = SPP
                PROVE  curr.meta.time = VitaTime(expect[0].sample - 1) + 1
    BY DEF GapTime
  <2>. DEFINE i == infos[Slot(3)]
  <2>1. /\ Follows(i) /\ i.left = 0 /\ i.meta.has_time
        /\ \E c \in Chans : curr.meta.time = i.meta.time + i.ch[c].len
    BY DEF Reports, curr
  <2>2. \A c \in Chans : i.ch[c].len = SPP
    BY DEF prev
  <2>3. i.offset \in Nat /\ FpgaTypes /\ SPP \in Nat \ {0} /\ Back \in Nat /\ setAt \in Nat
    BY Slots, SizesAssumption, BoundAssumption DEF IInv, HostTypes, FpgaTypes, Infos
  <2>. HIDE DEF i
  <2>4. i.offset = SPP /\ curr.meta.time = i.ch[0].time + SPP
    BY <2>1, <2>2, <2>3 DEF Follows
  <2>5. Placed(0, i.ch[0]) /\ expect[0].sample = i.ch[0].pos * SPP + SPP
    BY <2>1, <2>4 DEF Follows
  <2>. DEFINE q == i.ch[0].pos
  <2>6. /\ q \in Nat
        /\ i.ch[0].time = IF q >= setAt THEN q * SPP + 1 ELSE q * SPP + Back + 1
    BY <2>5 DEF Placed, Sent
  <2>. HIDE DEF q
  <2>7. q * SPP \in Nat /\ (q + 1) * SPP = q * SPP + SPP /\ setAt * SPP \in Nat
    BY <2>3, <2>6
  <2>8. q * SPP + SPP - 1 >= setAt * SPP <=> q >= setAt
    <3>1. CASE q >= setAt
      <4>1. q = setAt \/ setAt * SPP < q * SPP
        BY <3>1, <2>3, <2>6, GridOrder
      <4>. QED BY <4>1, <3>1, <2>3, <2>7
    <3>2. CASE q < setAt
      <4>1. q + 1 = setAt \/ (q + 1) * SPP < setAt * SPP
        BY <3>2, <2>3, <2>6, GridOrder
      <4>. QED BY <4>1, <3>2, <2>3, <2>6, <2>7
    <3>. QED BY <3>1, <3>2, <2>3, <2>6
  <2>9. q * SPP + SPP - 1 \in Nat
    BY <2>3, <2>7
  <2>10. VitaTime(q * SPP + SPP - 1)
           = IF q * SPP + SPP - 1 >= setAt * SPP THEN q * SPP + SPP - 1 + 1
             ELSE q * SPP + SPP - 1 + Back + 1
    BY <2>3, <2>9, ClockTime
  <2>11. expect[0].sample - 1 = q * SPP + SPP - 1
    <3>1. expect[0].sample = q * SPP + SPP
      BY <2>5 DEF q
    <3>. QED BY <3>1, <2>3, <2>7
  <2>. QED BY <2>3, <2>4, <2>6, <2>7, <2>8, <2>10, <2>11
<1>. QED BY <1>1, <1>2, RecvInvariant, PTL

-----------------------------------------------------------------------------
(* Packet counts.                                                          *)

\* What a remainder leaves is a multiple.
LEMMA Multiple ==
  ASSUME NEW a \in Nat, NEW m \in Nat \ {0}
  PROVE  (\E k \in Int : a = m * k + (a % m)) /\ a % m \in 0 .. m - 1
<1>1. a % m \in 0 .. m - 1
  OBVIOUS
<1>2. a = m * (a \div m) + (a % m)
  OBVIOUS
<1>3. a \div m \in Int
  OBVIOUS
<1>. QED BY <1>1, <1>2, <1>3

LEMMA Remainder ==
  ASSUME NEW k \in Int, NEW m \in Nat \ {0}, NEW r \in 0 .. m - 1
  PROVE  (m * k + r) % m = r
OBVIOUS

\* Counting on from a count is counting on.
LEMMA CountOn ==
  ASSUME NEW a \in Nat, NEW m \in Nat \ {0}
  PROVE  ((a % m) + 1) % m = (a + 1) % m
<1>. DEFINE r == a % m
<1>1. PICK k \in Int : a = m * k + r
  BY Multiple
<1>2. r \in 0 .. m - 1
  BY Multiple
<1>. HIDE DEF r
<1>3. CASE r + 1 < m
  <2>1. r + 1 \in 0 .. m - 1 /\ 0 \in Int
    BY <1>2, <1>3
  <2>2. a + 1 = m * k + (r + 1) /\ m * 0 + (r + 1) = r + 1
    BY <1>1, <1>2
  <2>3. (m * k + (r + 1)) % m = r + 1 /\ (m * 0 + (r + 1)) % m = r + 1
    BY <2>1, Remainder
  <2>. QED BY <2>2, <2>3 DEF r
<1>4. CASE r + 1 = m
  <2>1. 0 \in 0 .. m - 1 /\ k + 1 \in Int /\ 1 \in Int
    OBVIOUS
  <2>2. a + 1 = m * (k + 1) + 0 /\ m * 1 + 0 = r + 1
    BY <1>1, <1>2, <1>4
  <2>3. (m * (k + 1) + 0) % m = 0 /\ (m * 1 + 0) % m = 0
    BY <2>1, Remainder
  <2>. QED BY <2>2, <2>3 DEF r
<1>. QED BY <1>2, <1>3, <1>4

\* Counts repeat after m steps and not before.
LEMMA CountRepeats ==
  ASSUME NEW a \in Nat, NEW d \in Nat, NEW m \in Nat \ {0}, d < m, (a + d) % m = a % m
  PROVE  d = 0
<1>1. PICK k \in Int : a = m * k + (a % m)
  BY Multiple
<1>2. PICK l \in Int : a + d = m * l + ((a + d) % m)
  <2>1. a + d \in Nat
    OBVIOUS
  <2>. QED BY <2>1, Multiple
<1>. DEFINE e == l - k
            r == a % m
<1>3. r \in Int /\ a = m * k + r /\ a + d = m * l + r
  BY <1>1, <1>2
<1>. HIDE DEF r
<1>4. d = m * l - m * k /\ m * l - m * k = m * e /\ e \in Int
  BY <1>3
<1>. HIDE DEF e
<1>5. (e >= 1 => m * e >= m) /\ (e <= -1 => m * e <= 0 - m)
  BY <1>4
<1>6. e = 0
  BY <1>4, <1>5
<1>. QED BY <1>4, <1>6

\* A packet whose count follows is the next one, if fewer were lost than there
\* are counts.
LEMMA CountFollows ==
  ASSUME NEW a \in Nat, NEW d \in Nat \ {0}, NEW m \in Nat \ {0}, d <= m,
         (a + d) % m = (a + 1) % m
  PROVE  d = 1
<1>1. a + 1 \in Nat /\ d - 1 \in Nat /\ d - 1 < m /\ (a + 1) + (d - 1) = a + d
  OBVIOUS
<1>2. d - 1 = 0
  BY <1>1, CountRepeats
<1>. QED BY <1>2

-----------------------------------------------------------------------------
(* The packets of a channel, from the last one read to the one to come.    *)

Marks == [kind : Kinds, pos : Int, time : Int, len : Nat, count : Nat, eob : BOOLEAN,
          burst : Nat]
IsData(p) == p.kind = "data"

\* The packet that channel c works on.
Ahead(c) ==
  [kind |-> IF running[c] THEN "data" ELSE "zerolen", pos |-> pos[c], time |-> 0, len |-> SPP,
   count |-> pkt_count[c], eob |-> FALSE, burst |-> burst]

\* Packet x, what is in the socket of channel c, and what comes next.
LineOf(s, a, x) ==
  [i \in 0 .. Len(s) + 1 |-> IF i = 0 THEN x ELSE IF i = Len(s) + 1 THEN a ELSE s[i]]
Line(c, x) == LineOf(sock[c], Ahead(c), x)

\* The first n + 1 packets of f are in order; only the last of a burst may be
\* cut short.
Sorted(f, n) ==
  \A i, j \in 0 .. n : i < j =>
    /\ f[i].burst <= f[j].burst
    /\ IsData(f[i]) /\ IsData(f[j]) =>
         /\ f[i].pos < f[j].pos
         /\ f[i].burst = f[j].burst => f[i].len = SPP

\* The counts of the data packets of a burst tell their places, and at most k
\* places are missing between two of them.
Chained(f, n, k) ==
  \A i, j \in 0 .. n :
    /\ i < j /\ IsData(f[i]) /\ IsData(f[j]) /\ f[i].burst = f[j].burst
    /\ \A h \in 0 .. n : i < h /\ h < j => ~IsData(f[h])
    => /\ f[j].pos - f[i].pos <= 1 + k
       /\ f[j].count = (f[i].count + (f[j].pos - f[i].pos)) % SeqMod

Lined(f, n, k) ==
  (\A i \in 0 .. n : f[i] \in Marks) /\ Sorted(f, n) /\ Chained(f, n, k)

\* The second packet becomes the first.
LEMMA LineTail ==
  ASSUME NEW n \in Nat \ {0}, NEW k \in Nat, NEW f, NEW g, Lined(f, n, k),
         \A i \in 0 .. n - 1 : g[i] = f[i + 1]
  PROVE  Lined(g, n - 1, k)
<1>1. \A i \in 0 .. n - 1 : i + 1 \in 0 .. n
  OBVIOUS
<1>2. \A i \in 0 .. n - 1 : g[i] \in Marks
  BY <1>1 DEF Lined
<1>3. Sorted(g, n - 1)
  <2>. SUFFICES ASSUME NEW i \in 0 .. n - 1, NEW j \in 0 .. n - 1, i < j
                PROVE  /\ g[i].burst <= g[j].burst
                       /\ IsData(g[i]) /\ IsData(g[j]) =>
                            /\ g[i].pos < g[j].pos
                            /\ g[i].burst = g[j].burst => g[i].len = SPP
    BY DEF Sorted
  <2>1. i + 1 \in 0 .. n /\ j + 1 \in 0 .. n /\ i + 1 < j + 1
    OBVIOUS
  <2>2. g[i] = f[i + 1] /\ g[j] = f[j + 1]
    OBVIOUS
  <2>. QED BY <2>1, <2>2 DEF Lined, Sorted
<1>4. Chained(g, n - 1, k)
  <2>. SUFFICES ASSUME NEW i \in 0 .. n - 1, NEW j \in 0 .. n - 1, i < j,
                       IsData(g[i]), IsData(g[j]), g[i].burst = g[j].burst,
                       \A h \in 0 .. n - 1 : i < h /\ h < j => ~IsData(g[h])
                PROVE  /\ g[j].pos - g[i].pos <= 1 + k
                       /\ g[j].count = (g[i].count + (g[j].pos - g[i].pos)) % SeqMod
    BY DEF Chained
  <2>1. i + 1 \in 0 .. n /\ j + 1 \in 0 .. n /\ i + 1 < j + 1
    OBVIOUS
  <2>2. g[i] = f[i + 1] /\ g[j] = f[j + 1]
    OBVIOUS
  <2>3. ASSUME NEW h \in 0 .. n, i + 1 < h, h < j + 1 PROVE ~IsData(f[h])
    <3>1. h - 1 \in 0 .. n - 1 /\ i < h - 1 /\ h - 1 < j /\ (h - 1) + 1 = h
      BY <2>3
    <3>. QED BY <3>1
  <2>. QED BY <2>1, <2>2, <2>3 DEF Lined, Chained
<1>. QED BY <1>2, <1>3, <1>4 DEF Lined

\* A packet that is no data is taken out behind the first.
LEMMA LineSkip ==
  ASSUME NEW n \in Nat \ {0}, NEW k \in Nat, NEW f, NEW g, Lined(f, n, k), ~IsData(f[1]),
         g[0] = f[0], \A i \in 1 .. n - 1 : g[i] = f[i + 1]
  PROVE  Lined(g, n - 1, k)
<1>. DEFINE s(i) == IF i = 0 THEN 0 ELSE i + 1
<1>1. \A i \in 0 .. n - 1 : s(i) \in 0 .. n /\ g[i] = f[s(i)]
  OBVIOUS
<1>2. \A i, j \in 0 .. n - 1 : i < j => s(i) < s(j)
  OBVIOUS
<1>3. \A h \in 0 .. n : h = 1 \/ \E i \in 0 .. n - 1 : h = s(i)
  <2>1. ASSUME NEW h \in 0 .. n, h # 1 PROVE \E i \in 0 .. n - 1 : h = s(i)
    <3>1. CASE h = 0
      BY <3>1
    <3>2. CASE h # 0
      <4>1. h - 1 \in 0 .. n - 1 /\ h - 1 # 0 /\ s(h - 1) = h
        BY <3>2, <2>1
      <4>. QED BY <4>1
    <3>. QED BY <3>1, <3>2
  <2>. QED BY <2>1
<1>4. \A i, j \in 0 .. n - 1 : s(i) < s(j) => i < j
  OBVIOUS
<1>. HIDE DEF s
<1>5. \A i \in 0 .. n - 1 : g[i] \in Marks
  BY <1>1 DEF Lined
<1>6. Sorted(g, n - 1)
  <2>. SUFFICES ASSUME NEW i \in 0 .. n - 1, NEW j \in 0 .. n - 1, i < j
                PROVE  /\ g[i].burst <= g[j].burst
                       /\ IsData(g[i]) /\ IsData(g[j]) =>
                            /\ g[i].pos < g[j].pos
                            /\ g[i].burst = g[j].burst => g[i].len = SPP
    BY DEF Sorted
  <2>1. s(i) \in 0 .. n /\ s(j) \in 0 .. n /\ s(i) < s(j) /\ g[i] = f[s(i)] /\ g[j] = f[s(j)]
    BY <1>1, <1>2
  <2>. QED BY <2>1 DEF Lined, Sorted
<1>7. Chained(g, n - 1, k)
  <2>. SUFFICES ASSUME NEW i \in 0 .. n - 1, NEW j \in 0 .. n - 1, i < j,
                       IsData(g[i]), IsData(g[j]), g[i].burst = g[j].burst,
                       \A h \in 0 .. n - 1 : i < h /\ h < j => ~IsData(g[h])
                PROVE  /\ g[j].pos - g[i].pos <= 1 + k
                       /\ g[j].count = (g[i].count + (g[j].pos - g[i].pos)) % SeqMod
    BY DEF Chained
  <2>1. s(i) \in 0 .. n /\ s(j) \in 0 .. n /\ s(i) < s(j) /\ g[i] = f[s(i)] /\ g[j] = f[s(j)]
    BY <1>1, <1>2
  <2>2. ASSUME NEW h \in 0 .. n, s(i) < h, h < s(j) PROVE ~IsData(f[h])
    <3>1. CASE h = 1
      BY <3>1
    <3>2. CASE h # 1
      <4>1. PICK e \in 0 .. n - 1 : h = s(e)
        BY <3>2, <1>3
      <4>2. i < e /\ e < j /\ g[e] = f[h]
        BY <4>1, <2>2, <1>1, <1>4
      <4>. QED BY <4>2
    <3>. QED BY <3>1, <3>2
  <2>. QED BY <2>1, <2>2 DEF Lined, Chained
<1>. QED BY <1>5, <1>6, <1>7 DEF Lined

\* How a line f of n + 1 packets before the one to come may go on as line g of
\* m + 1 packets before the one to come.
GoesOn(f, n, g, m) ==
  /\ \A i \in 0 .. n : g[i] = f[i]
  /\ \A i \in 0 .. m + 1 : g[i] \in Marks
  /\ \A i \in n + 1 .. m :
       /\ g[i].burst = f[n + 1].burst
       /\ IsData(g[i]) => /\ i = n + 1 /\ IsData(f[n + 1]) /\ g[i].pos = f[n + 1].pos
                          /\ g[i].count = f[n + 1].count
StaysOn(f, n, g, m) == (\A i \in n + 1 .. m : ~IsData(g[i])) /\ g[m + 1] = f[n + 1]
MovesOn(f, n, g, m) ==
  /\ IsData(f[n + 1]) /\ IsData(g[m + 1]) /\ g[m + 1].pos = f[n + 1].pos + 1
  /\ g[m + 1].burst = f[n + 1].burst /\ g[m + 1].count = (f[n + 1].count + 1) % SeqMod
StartsOn(f, n, g, m) ==
  /\ g[m + 1].burst = f[n + 1].burst + 1 /\ f[n + 1].pos < g[m + 1].pos
  /\ \A i \in 0 .. n : IsData(f[i]) => f[i].pos < g[m + 1].pos

LEMMA LineGrows ==
  ASSUME NEW n \in Nat, NEW m \in Nat, n <= m, NEW k \in Nat, NEW l \in Nat, k <= l,
         NEW f, NEW g, Lined(f, n + 1, k), GoesOn(f, n, g, m),
         \/ StaysOn(f, n, g, m)
         \/ /\ MovesOn(f, n, g, m)
            /\ (m = n + 1 /\ IsData(g[m]) /\ g[m].len = SPP) \/ (m = n /\ k < l)
         \/ ~IsData(g[m + 1]) /\ g[m + 1].burst = f[n + 1].burst
         \/ StartsOn(f, n, g, m)
  PROVE  Lined(g, m + 1, l)
<1>0. /\ \A i \in 0 .. n + 1 : f[i] \in Marks
      /\ \A i \in 0 .. m + 1 : g[i] \in Marks
      /\ n + 1 \in 0 .. n + 1 /\ m + 1 \in 0 .. m + 1 /\ SeqMod \in Nat \ {0} /\ SPP \in Nat \ {0}
  BY SizesAssumption DEF Lined, GoesOn
<1>. DEFINE a == f[n + 1]
            z == g[m + 1]
<1>1. /\ \A i \in 0 .. n + 1 : f[i].burst \in Nat /\ f[i].pos \in Int /\ f[i].count \in Nat
      /\ \A i \in 0 .. m + 1 : g[i].burst \in Nat /\ g[i].pos \in Int /\ g[i].count \in Nat
  BY <1>0 DEF Marks
<1>2. \A i, j \in 0 .. n + 1 : i < j =>
        /\ f[i].burst <= f[j].burst
        /\ IsData(f[i]) /\ IsData(f[j]) =>
             /\ f[i].pos < f[j].pos
             /\ f[i].burst = f[j].burst => f[i].len = SPP
  BY DEF Lined, Sorted
<1>3. \A i \in 0 .. m + 1 : i \in 0 .. n \/ i \in n + 1 .. m \/ i = m + 1
  OBVIOUS
<1>4. \A i \in 0 .. n : /\ g[i] = f[i] /\ f[i].burst <= a.burst /\ i \in 0 .. n + 1
                        /\ IsData(f[i]) /\ IsData(a) =>
                             f[i].pos < a.pos /\ (f[i].burst = a.burst => f[i].len = SPP)
  <2>1. \A i \in 0 .. n : i \in 0 .. n + 1 /\ i < n + 1
    OBVIOUS
  <2>. QED BY <2>1, <1>0, <1>2 DEF GoesOn
<1>5. \A i \in n + 1 .. m :
        /\ g[i].burst = a.burst
        /\ IsData(g[i]) => i = n + 1 /\ IsData(a) /\ g[i].pos = a.pos /\ g[i].count = a.count
  BY DEF GoesOn
<1>6. a.burst \in Nat /\ a.pos \in Int /\ a.count \in Nat /\ z.burst \in Nat /\ z.pos \in Int
  BY <1>0, <1>1
<1>7. Sorted(g, m + 1)
  <2>. SUFFICES ASSUME NEW i \in 0 .. m + 1, NEW j \in 0 .. m + 1, i < j
                PROVE  /\ g[i].burst <= g[j].burst
                       /\ IsData(g[i]) /\ IsData(g[j]) =>
                            /\ g[i].pos < g[j].pos
                            /\ g[i].burst = g[j].burst => g[i].len = SPP
    BY DEF Sorted
  <2>1. CASE j \in 0 .. n
    <3>1. i \in 0 .. n
      BY <2>1
    <3>. QED BY <3>1, <2>1, <1>2, <1>4
  <2>2. CASE j \in n + 1 .. m /\ i \in 0 .. n
    BY <2>2, <1>1, <1>4, <1>5, <1>6
  <2>3. CASE j \in n + 1 .. m /\ i \in n + 1 .. m
    <3>1. ~(IsData(g[i]) /\ IsData(g[j]))
      BY <2>3, <1>5
    <3>. QED BY <3>1, <2>3, <1>5, <1>6
  <2>4. CASE j = m + 1 /\ StaysOn(f, n, g, m)
    <3>1. z = a /\ g[j] = z
      BY <2>4 DEF StaysOn
    <3>2. CASE i \in 0 .. n
      BY <3>1, <3>2, <1>4
    <3>3. CASE i \in n + 1 .. m
      BY <3>1, <3>3, <2>4, <1>5, <1>6 DEF StaysOn
    <3>. QED BY <3>2, <3>3, <2>4
  <2>5. CASE /\ j = m + 1 /\ MovesOn(f, n, g, m)
             /\ (m = n + 1 /\ IsData(g[m]) /\ g[m].len = SPP) \/ (m = n /\ k < l)
    <3>1. z.burst = a.burst /\ z.pos = a.pos + 1 /\ IsData(a) /\ g[j] = z
      BY <2>5 DEF MovesOn
    <3>2. CASE i \in 0 .. n
      <4>1. /\ g[i] = f[i] /\ f[i].burst <= a.burst /\ i \in 0 .. n + 1
            /\ IsData(f[i]) => f[i].pos < a.pos /\ (f[i].burst = a.burst => f[i].len = SPP)
        BY <3>1, <3>2, <1>4
      <4>2. f[i].pos \in Int
        BY <4>1, <1>1
      <4>. QED BY <4>1, <4>2, <3>1, <1>6
    <3>3. CASE i \in n + 1 .. m
      <4>1. m = n + 1 /\ i = m /\ g[m].len = SPP
        BY <3>3, <2>5
      <4>. QED BY <4>1, <3>1, <3>3, <1>5, <1>6
    <3>. QED BY <3>2, <3>3, <2>5
  <2>6. CASE j = m + 1 /\ ~IsData(z) /\ z.burst = a.burst
    <3>2. CASE i \in 0 .. n
      BY <3>2, <2>6, <1>4
    <3>3. CASE i \in n + 1 .. m
      BY <3>3, <2>6, <1>5, <1>6
    <3>. QED BY <3>2, <3>3, <2>6
  <2>7. CASE j = m + 1 /\ StartsOn(f, n, g, m)
    <3>1. z.burst = a.burst + 1 /\ a.pos < z.pos /\ g[j] = z
      BY <2>7 DEF StartsOn
    <3>2. CASE i \in 0 .. n
      <4>1. g[i] = f[i] /\ f[i].burst <= a.burst /\ i \in 0 .. n + 1 /\ f[i].burst \in Nat
        BY <3>2, <1>1, <1>4
      <4>2. IsData(f[i]) => f[i].pos < z.pos
        BY <3>2, <2>7 DEF StartsOn
      <4>. QED BY <4>1, <4>2, <3>1, <1>6
    <3>3. CASE i \in n + 1 .. m
      BY <3>1, <3>3, <1>5, <1>6
    <3>. QED BY <3>2, <3>3, <2>7
  <2>. QED BY <2>1, <2>2, <2>3, <2>4, <2>5, <2>6, <2>7
<1>8. Chained(g, m + 1, l)
  <2>. SUFFICES ASSUME NEW i \in 0 .. m + 1, NEW j \in 0 .. m + 1, i < j,
                       IsData(g[i]), IsData(g[j]), g[i].burst = g[j].burst,
                       \A h \in 0 .. m + 1 : i < h /\ h < j => ~IsData(g[h])
                PROVE  /\ g[j].pos - g[i].pos <= 1 + l
                       /\ g[j].count = (g[i].count + (g[j].pos - g[i].pos)) % SeqMod
    BY DEF Chained
  \* Two neighbours that were there.
  <2>1. ASSUME NEW e \in 0 .. n, NEW o \in 0 .. n + 1, e < o, IsData(f[e]), IsData(f[o]),
               f[e].burst = f[o].burst, \A h \in 0 .. n : e < h /\ h < o => ~IsData(f[h])
        PROVE  /\ f[o].pos - f[e].pos <= 1 + k
               /\ f[o].count = (f[e].count + (f[o].pos - f[e].pos)) % SeqMod
               /\ f[o].pos - f[e].pos \in Nat
    <3>1. e \in 0 .. n + 1 /\ \A h \in 0 .. n + 1 : e < h /\ h < o => h \in 0 .. n
      OBVIOUS
    <3>2. \A h \in 0 .. n + 1 : e < h /\ h < o => ~IsData(f[h])
      BY <3>1, <2>1
    <3>3. f[e].pos < f[o].pos /\ f[e].pos \in Int /\ f[o].pos \in Int
      BY <3>1, <2>1, <1>1, <1>2
    <3>. QED BY <3>1, <3>2, <3>3, <2>1 DEF Lined, Chained
  <2>2. \A h \in 0 .. n : i < h /\ h < j => ~IsData(f[h])
    <3>1. \A h \in 0 .. n : h \in 0 .. m + 1 /\ g[h] = f[h]
      BY <1>4
    <3>. QED BY <3>1
  <2>3. CASE j \in 0 .. n
    <3>1. i \in 0 .. n /\ j \in 0 .. n + 1 /\ g[i] = f[i] /\ g[j] = f[j]
      BY <2>3, <1>4
    <3>2. /\ f[j].pos - f[i].pos <= 1 + k
          /\ f[j].count = (f[i].count + (f[j].pos - f[i].pos)) % SeqMod
      BY <3>1, <2>1, <2>2
    <3>3. f[j].pos - f[i].pos \in Int
      BY <3>1, <1>1
    <3>. QED BY <3>1, <3>2, <3>3
  <2>4. CASE j \in n + 1 .. m
    <3>1. j = n + 1 /\ IsData(a) /\ g[j].pos = a.pos /\ g[j].count = a.count /\ g[j].burst = a.burst
      BY <2>4, <1>5
    <3>2. i \in 0 .. n /\ g[i] = f[i]
      BY <3>1, <1>4
    <3>3. /\ a.pos - f[i].pos <= 1 + k
          /\ a.count = (f[i].count + (a.pos - f[i].pos)) % SeqMod
      BY <3>1, <3>2, <2>1, <2>2, <1>0
    <3>4. a.pos - f[i].pos \in Int
      BY <3>2, <1>1, <1>4, <1>6
    <3>. QED BY <3>1, <3>2, <3>3, <3>4
  <2>5. CASE j = m + 1 /\ StaysOn(f, n, g, m)
    <3>1. z = a /\ g[j] = z /\ i \in 0 .. n /\ g[i] = f[i]
      BY <2>5, <1>3, <1>4 DEF StaysOn
    <3>2. /\ a.pos - f[i].pos <= 1 + k
          /\ a.count = (f[i].count + (a.pos - f[i].pos)) % SeqMod
      <4>1. \A h \in 0 .. n : i < h /\ h < n + 1 => ~IsData(f[h])
        BY <2>2, <2>5
      <4>2. n + 1 \in 0 .. n + 1 /\ i < n + 1 /\ IsData(a) /\ IsData(f[i]) /\ f[i].burst = a.burst
        BY <3>1, <1>0
      <4>. QED BY <4>1, <4>2, <3>1, <2>1
    <3>3. a.pos - f[i].pos \in Int
      BY <3>1, <1>1, <1>4, <1>6
    <3>. QED BY <3>1, <3>2, <3>3
  <2>6. CASE j = m + 1 /\ MovesOn(f, n, g, m) /\ m = n + 1 /\ IsData(g[m])
    <3>1. i = m
      <4>1. ~(i < m)
        BY <2>6
      <4>. QED BY <4>1, <2>6
    <3>2. g[i].pos = a.pos /\ g[i].count = a.count
      BY <3>1, <2>6, <1>5
    <3>3. g[j].pos = a.pos + 1 /\ g[j].count = (a.count + 1) % SeqMod
      BY <2>6 DEF MovesOn
    <3>4. g[j].pos - g[i].pos = 1
      BY <3>2, <3>3, <1>6
    <3>. QED BY <3>2, <3>3, <3>4, <1>6
  <2>7. CASE j = m + 1 /\ MovesOn(f, n, g, m) /\ m = n /\ k < l
    <3>1. i \in 0 .. n /\ g[i] = f[i] /\ i \in 0 .. n + 1
      BY <2>7, <1>4
    <3>2. /\ IsData(a) /\ g[j].pos = a.pos + 1 /\ g[j].burst = a.burst
          /\ g[j].count = (a.count + 1) % SeqMod
      BY <2>7 DEF MovesOn
    <3>. DEFINE d == a.pos - f[i].pos
                s == f[i].count + d
    <3>3. d <= 1 + k /\ a.count = s % SeqMod /\ d \in Nat
      <4>1. \A h \in 0 .. n : i < h /\ h < n + 1 => ~IsData(f[h])
        BY <2>2, <2>7
      <4>2. n + 1 \in 0 .. n + 1 /\ i < n + 1 /\ IsData(f[i]) /\ f[i].burst = a.burst
        BY <3>1, <3>2, <1>0
      <4>. QED BY <4>1, <4>2, <3>1, <3>2, <2>1
    <3>4. s \in Nat /\ f[i].count \in Nat /\ f[i].pos \in Int
      BY <3>1, <3>3, <1>1
    <3>5. g[j].pos - g[i].pos = d + 1 /\ f[i].count + (d + 1) = s + 1
      BY <3>1, <3>2, <3>3, <3>4, <1>6
    <3>6. g[j].pos - g[i].pos <= 1 + l
      BY <3>3, <3>5, <2>7
    <3>. HIDE DEF d, s
    <3>7. (s + 1) % SeqMod = ((s % SeqMod) + 1) % SeqMod
      BY <3>4, <1>0, CountOn
    <3>. QED BY <3>1, <3>2, <3>3, <3>5, <3>6, <3>7
  <2>8. CASE j = m + 1 /\ ~IsData(z)
    BY <2>8
  <2>9. CASE j = m + 1 /\ StartsOn(f, n, g, m)
    <3>1. g[j].burst = a.burst + 1
      BY <2>9 DEF StartsOn
    <3>2. g[i].burst <= a.burst
      BY <2>9, <1>3, <1>4, <1>5, <1>6
    <3>. QED BY <3>1, <3>2, <1>6
  <2>. QED BY <2>3, <2>4, <2>5, <2>6, <2>7, <2>8, <2>9, <1>3
<1>. QED BY <1>0, <1>7, <1>8 DEF Lined

\* Packet x is the last data packet read from channel c, or stands for the place
\* before the first.
Last(c, x) ==
  /\ x \in Marks /\ IsData(x) /\ x.pos < pos[c]
  /\ next_count(x) = packet_count[c]
  /\ Lined(Line(c, x), Len(sock[c]) + 1, faults)

\* The packets of a line.
LEMMA LineOfAt ==
  ASSUME NEW s \in Seq(Packets), NEW a \in Marks, NEW x \in Marks
  PROVE  /\ Len(s) \in Nat /\ LineOf(s, a, x)[0] = x /\ LineOf(s, a, x)[Len(s) + 1] = a
         /\ \A i \in 1 .. Len(s) : LineOf(s, a, x)[i] = s[i] /\ s[i] \in Packets
         /\ \A i \in 0 .. Len(s) + 1 : LineOf(s, a, x)[i] \in Marks
<1>. DEFINE n == Len(s)
            f == LineOf(s, a, x)
<1>1. n \in Nat /\ \A i \in 1 .. n : s[i] \in Packets
  OBVIOUS
<1>2. \A p \in Packets : p \in Marks
  BY DEF Packets, Marks
<1>3. f = [i \in 0 .. n + 1 |-> IF i = 0 THEN x ELSE IF i = n + 1 THEN a ELSE s[i]]
  BY DEF LineOf
<1>. HIDE DEF n, f
<1>4. 0 \in 0 .. n + 1 /\ n + 1 \in 0 .. n + 1 /\ n + 1 # 0
  BY <1>1
<1>5. f[0] = x /\ f[n + 1] = a
  BY <1>3, <1>4
<1>6. \A i \in 1 .. n : f[i] = s[i]
  BY <1>1, <1>3
<1>7. \A i \in 0 .. n + 1 : i = 0 \/ i = n + 1 \/ i \in 1 .. n
  BY <1>1
<1>8. \A i \in 0 .. n + 1 : f[i] \in Marks
  BY <1>1, <1>2, <1>5, <1>6, <1>7
<1>. QED BY <1>1, <1>5, <1>6, <1>8 DEF n, f

\* The packet to come.
LEMMA AheadIsMark ==
  ASSUME FpgaTypes, NEW c \in Chans
  PROVE  /\ Ahead(c) \in Marks /\ (IsData(Ahead(c)) <=> running[c])
         /\ Ahead(c).pos = pos[c] /\ Ahead(c).burst = burst /\ Ahead(c).count = pkt_count[c]
<1>1. running[c] \in BOOLEAN /\ pos[c] \in Int /\ pkt_count[c] \in Nat /\ burst \in Nat /\ SPP \in Nat
  BY SizesAssumption, BoundAssumption DEF FpgaTypes
<1>. QED BY <1>1 DEF Ahead, Marks, IsData, Kinds

\* Nothing happened to the channel.
LEMMA LastSame ==
  ASSUME NEW c \in Chans, NEW x \in Marks, Last(c, x), sock'[c] = sock[c],
         packet_count'[c] = packet_count[c], UNCHANGED fpgaVars, faults' = faults
  PROVE  Last(c, x)'
<1>1. running' = running /\ pos' = pos /\ pkt_count' = pkt_count /\ burst' = burst
  BY DEF fpgaVars
<1>2. Ahead(c)' = Ahead(c)
  BY <1>1 DEF Ahead
<1>3. Line(c, x)' = Line(c, x)
  BY <1>2 DEF Line
<1>. QED BY <1>1, <1>3 DEF Last

\* The channel goes on.
LEMMA LastStays ==
  ASSUME IInv, FpgaTypes', DeviceStep, Bounded', sock' \in [Chans -> Seq(Packets)],
         NEW c \in Chans, NEW x \in Marks, Last(c, x)
  PROVE  Last(c, x)'
<1>0. FpgaTypes /\ SockTypes /\ SockTypes' /\ SockDated /\ Grows(c)
  BY DEF IInv, DeviceStep, SockTypes
<1>. DEFINE n == Len(sock[c])
            m == Len(sock'[c])
            f == Line(c, x)
            g == Line(c, x)'
            a == Ahead(c)
            z == Ahead(c)'
<1>1. /\ n \in Nat /\ f[0] = x /\ f[n + 1] = a
      /\ \A i \in 1 .. n : f[i] = sock[c][i]
      /\ \A i \in 0 .. n + 1 : f[i] \in Marks
  <2>1. sock[c] \in Seq(Packets) /\ a \in Marks
    BY <1>0, AheadIsMark DEF SockTypes
  <2>. HIDE DEF a
  <2>. QED BY <2>1, LineOfAt DEF a, Line
<1>2. /\ m \in Nat /\ g[0] = x /\ g[m + 1] = z
      /\ \A i \in 1 .. m : g[i] = sock'[c][i]
      /\ \A i \in 0 .. m + 1 : g[i] \in Marks
  <2>1. sock'[c] \in Seq(Packets)
    BY <1>0 DEF SockTypes
  <2>2. z \in Marks
    <3>1. running'[c] \in BOOLEAN /\ pos'[c] \in Int /\ pkt_count'[c] \in Nat /\ burst' \in Nat
          /\ SPP \in Nat
      BY SizesAssumption, BoundAssumption DEF FpgaTypes
    <3>. QED BY <3>1 DEF Ahead, Marks, Kinds
  <2>. HIDE DEF z
  <2>3. g = LineOf(sock'[c], z, x)
    BY DEF Line, z
  <2>. HIDE DEF g
  <2>. QED BY <2>1, <2>2, <2>3, LineOfAt
<1>3. /\ IsData(a) <=> running[c]
      /\ IsData(z) <=> running'[c]
      /\ a.pos = pos[c] /\ z.pos = pos'[c] /\ a.burst = burst /\ z.burst = burst'
      /\ a.count = pkt_count[c] /\ z.count = pkt_count'[c]
  BY DEF Ahead, IsData
<1>4. Lined(f, n + 1, faults) /\ x.pos < pos[c] /\ x.pos \in Int /\ next_count(x) = packet_count[c]
  BY DEF Last, Marks
<1>5. Stays(c) => z = a
  BY DEF Stays, Ahead
<1>. HIDE DEF n, m, f, g, a, z
<1>6. /\ n <= m
      /\ \A i \in 1 .. n : sock'[c][i] = sock[c][i]
      /\ \A i \in n + 1 .. m :
           /\ sock'[c][i].burst = burst
           /\ IsData(sock'[c][i]) =>
                /\ i = n + 1 /\ running[c] /\ pos[c] < pos'[c]
                /\ sock'[c][i].pos = pos[c] /\ sock'[c][i].count = pkt_count[c]
  BY <1>0 DEF Grows, n, m, IsData
<1>7. \A i \in n + 1 .. m : i \in 1 .. m
  BY <1>1, <1>2
<1>8. \A i \in 1 .. n : i \in 1 .. m
  BY <1>1, <1>2, <1>6
<1>9. GoesOn(f, n, g, m)
  <2>1. \A i \in 0 .. n : g[i] = f[i]
    <3>1. \A i \in 0 .. n : i = 0 \/ i \in 1 .. n
      BY <1>1
    <3>. QED BY <3>1, <1>1, <1>2, <1>6, <1>8
  <2>2. \A i \in n + 1 .. m :
          /\ g[i].burst = a.burst
          /\ IsData(g[i]) => /\ i = n + 1 /\ IsData(a) /\ g[i].pos = a.pos
                             /\ g[i].count = a.count
    BY <1>2, <1>3, <1>6, <1>7
  <2>. QED BY <2>1, <2>2, <1>1, <1>2 DEF GoesOn
<1>10. pos[c] \in Nat /\ pos'[c] \in Nat /\ faults \in Nat /\ faults' \in Nat /\ faults <= faults'
  BY <1>0, BoundAssumption DEF FpgaTypes, IInv, Bounded, DeviceStep
<1>15. \/ StaysOn(f, n, g, m)
       \/ /\ MovesOn(f, n, g, m)
          /\ (m = n + 1 /\ IsData(g[m]) /\ g[m].len = SPP) \/ (m = n /\ faults < faults')
       \/ ~IsData(g[m + 1]) /\ g[m + 1].burst = f[n + 1].burst
       \/ StartsOn(f, n, g, m)
  <2>1. CASE Stays(c)
    <3>1. z = a /\ pos'[c] = pos[c]
      BY <1>5, <2>1 DEF Stays
    <3>2. \A i \in n + 1 .. m : ~IsData(g[i])
      BY <3>1, <1>2, <1>6, <1>7, <1>10
    <3>. QED BY <3>1, <3>2, <1>1, <1>2 DEF StaysOn
  <2>2. CASE Moves(c)
    <3>1. /\ running[c] /\ running'[c] /\ pos'[c] = pos[c] + 1 /\ burst' = burst
          /\ pkt_count'[c] = (pkt_count[c] + 1) % SeqMod
          /\ \/ m = n + 1 /\ IsData(sock'[c][n + 1]) /\ sock'[c][n + 1].len = SPP
             \/ sock'[c] = sock[c] /\ faults' > faults
      BY <2>2 DEF Moves, Arrives, IsData, n, m
    <3>2. MovesOn(f, n, g, m)
      BY <3>1, <1>1, <1>2, <1>3 DEF MovesOn
    <3>3. CASE m = n + 1 /\ IsData(sock'[c][n + 1]) /\ sock'[c][n + 1].len = SPP
      <4>1. m \in 1 .. m
        BY <3>3, <1>1
      <4>. QED BY <4>1, <3>2, <3>3, <1>2
    <3>4. CASE sock'[c] = sock[c] /\ faults' > faults
      <4>1. m = n /\ faults < faults'
        BY <3>4, <1>10 DEF n, m
      <4>. QED BY <4>1, <3>2
    <3>. QED BY <3>1, <3>3, <3>4
  <2>3. CASE Stops(c)
    <3>1. ~running'[c] /\ burst' = burst
      BY <2>3 DEF Stops
    <3>. QED BY <3>1, <1>1, <1>2, <1>3
  <2>4. CASE Starts(c)
    <3>1. burst' = burst + 1 /\ pos[c] < pos'[c]
      BY <2>4 DEF Starts
    <3>2. ASSUME NEW i \in 0 .. n, IsData(f[i]) PROVE f[i].pos < pos'[c]
      <4>1. CASE i = 0
        BY <4>1, <3>1, <1>1, <1>4, <1>10
      <4>2. CASE i # 0
        <5>1. i \in 1 .. n /\ f[i] = sock[c][i] /\ sock[c][i].kind = "data"
          BY <4>2, <3>2, <1>1 DEF IsData
        <5>2. Placed(c, sock[c][i])
          BY <5>1, <1>0 DEF SockDated, n
        <5>3. sock[c][i].pos \in Nat /\ sock[c][i].pos < pos[c]
          BY <5>2 DEF Placed, Sent
        <5>. QED BY <5>1, <5>3, <3>1, <1>10
      <4>. QED BY <4>1, <4>2
    <3>3. StartsOn(f, n, g, m)
      BY <3>1, <3>2, <1>1, <1>2, <1>3 DEF StartsOn
    <3>. QED BY <3>3
  <2>5. Stays(c) \/ Moves(c) \/ Stops(c) \/ Starts(c)
    BY DEF DeviceStep
  <2>. QED BY <2>1, <2>2, <2>3, <2>4, <2>5
<1>16. Lined(g, m + 1, faults')
  BY <1>1, <1>2, <1>4, <1>6, <1>9, <1>10, <1>15, LineGrows
<1>17. pos[c] <= pos'[c] /\ packet_count' = packet_count
  BY <1>10 DEF DeviceStep, Stays, Moves, Stops, Starts, hostVars
<1>18. x.pos < pos'[c] /\ next_count(x) = packet_count'[c]
  BY <1>4, <1>10, <1>17
<1>. QED BY <1>16, <1>18 DEF Last, g, m, next_count

\* A socket from which its first packet is taken.
LEMMA SocketTail ==
  ASSUME SockTypes, NEW c \in Chans, sock[c] # <<>>, sock' = [sock EXCEPT ![c] = Tail(@)]
  PROVE  /\ Len(sock[c]) \in Nat \ {0} /\ Len(sock'[c]) = Len(sock[c]) - 1
         /\ sock'[c] \in Seq(Packets)
         /\ \A i \in 1 .. Len(sock'[c]) : i + 1 \in 1 .. Len(sock[c]) /\ sock'[c][i] = sock[c][i + 1]
         /\ \A d \in Chans : d # c => sock'[d] = sock[d]
<1>1. sock \in [Chans -> Seq(Packets)] /\ sock[c] \in Seq(Packets)
  BY DEF SockTypes
<1>2. sock'[c] = Tail(sock[c]) /\ \A d \in Chans : d # c => sock'[d] = sock[d]
  BY <1>1
<1>. DEFINE s == sock[c]
            t == Tail(s)
<1>3. s \in Seq(Packets) /\ s # <<>>
  BY <1>1
<1>. HIDE DEF s
<1>4. /\ Len(s) \in Nat \ {0} /\ t \in Seq(Packets) /\ Len(t) = Len(s) - 1
      /\ \A i \in 1 .. Len(t) : t[i] = s[i + 1]
  BY <1>3
<1>. HIDE DEF t
<1>5. \A i \in 1 .. Len(t) : i + 1 \in 1 .. Len(s)
  BY <1>4
<1>. QED BY <1>2, <1>4, <1>5 DEF s, t

\* The line of channel c after a packet was read from it: y is the last one now.
LEMMA LineRead ==
  ASSUME IInv, NEW c \in Chans, NEW p \in Packets, Read(c, p), NEW x \in Marks, Last(c, x),
         NEW y \in Marks, y = (IF IsData(p) THEN p ELSE x)
  PROVE  Lined(Line(c, y)', Len(sock'[c]) + 1, faults')
<1>0. FpgaTypes /\ SockTypes /\ faults \in Nat /\ faults' = faults
  BY DEF IInv, Bounded, Read
<1>1. sock[c] # <<>> /\ sock' = [sock EXCEPT ![c] = Tail(@)] /\ p = sock[c][1]
  BY DEF Read
<1>. DEFINE n == Len(sock[c])
            m == Len(sock'[c])
            f == Line(c, x)
            g == Line(c, y)'
            a == Ahead(c)
<1>2. /\ n \in Nat \ {0} /\ m = n - 1 /\ sock'[c] \in Seq(Packets)
      /\ \A i \in 1 .. m : i + 1 \in 1 .. n /\ sock'[c][i] = sock[c][i + 1]
  BY <1>0, <1>1, SocketTail
<1>3. a \in Marks /\ sock[c] \in Seq(Packets)
  BY <1>0, AheadIsMark DEF SockTypes
<1>4. Ahead(c)' = a
  BY DEF Read, fpgaVars, Ahead
<1>5. g = LineOf(sock'[c], a, y) /\ f = LineOf(sock[c], a, x) /\ Lined(f, n + 1, faults)
  BY <1>4 DEF Line, Last
<1>. HIDE DEF a, f, g
<1>6. f[0] = x /\ f[n + 1] = a /\ \A i \in 1 .. n : f[i] = sock[c][i]
  BY <1>3, <1>5, LineOfAt
<1>7. g[0] = y /\ g[m + 1] = a /\ \A i \in 1 .. m : g[i] = sock'[c][i]
  <2>. DEFINE s == sock'[c]
  <2>1. s \in Seq(Packets) /\ a \in Marks /\ g = LineOf(s, a, y) /\ m = Len(s)
    BY <1>2, <1>3, <1>5
  <2>. HIDE DEF s, m
  <2>2. /\ LineOf(s, a, y)[0] = y /\ LineOf(s, a, y)[Len(s) + 1] = a
        /\ \A i \in 1 .. Len(s) : LineOf(s, a, y)[i] = s[i]
    BY <2>1, LineOfAt
  <2>. QED BY <2>1, <2>2 DEF s
<1>. HIDE DEF n, m
<1>8. \A i \in 1 .. n : g[i] = f[i + 1]
  <2>1. ASSUME NEW i \in 1 .. n PROVE g[i] = f[i + 1]
    <3>1. CASE i = n
      <4>1. i = m + 1 /\ i + 1 = n + 1
        BY <3>1, <1>2
      <4>. QED BY <4>1, <1>6, <1>7
    <3>2. CASE i # n
      <4>1. i \in 1 .. m
        BY <3>2, <1>2
      <4>. QED BY <4>1, <1>2, <1>6, <1>7
    <3>. QED BY <3>1, <3>2
  <2>. QED BY <2>1
<1>9. f[1] = p /\ 1 \in 1 .. n
  BY <1>1, <1>2, <1>6
<1>10. n + 1 \in Nat \ {0} /\ (n + 1) - 1 = m + 1 /\ (n + 1) - 1 = n
  BY <1>2
<1>11. CASE IsData(p)
  <2>1. \A i \in 0 .. n : g[i] = f[i + 1]
    <3>1. g[0] = f[0 + 1]
      BY <1>7, <1>9, <1>11
    <3>2. \A i \in 0 .. n : i = 0 \/ i \in 1 .. n
      BY <1>2
    <3>. QED BY <3>1, <3>2, <1>8
  <2>. DEFINE e == n + 1
  <2>2. e \in Nat \ {0} /\ e - 1 = n /\ Lined(f, e, faults) /\ e - 1 = m + 1
    BY <1>5, <1>10 DEF n
  <2>. HIDE DEF e
  <2>3. Lined(g, e - 1, faults)
    BY <2>1, <2>2, <1>0, LineTail
  <2>. QED BY <2>2, <2>3, <1>0 DEF g, m
<1>12. CASE ~IsData(p)
  <2>. DEFINE e == n + 1
  <2>1. e \in Nat \ {0} /\ e - 1 = n /\ Lined(f, e, faults) /\ e - 1 = m + 1
    BY <1>5, <1>10 DEF n
  <2>2. g[0] = f[0] /\ ~IsData(f[1])
    BY <1>6, <1>7, <1>9, <1>12
  <2>. HIDE DEF e
  <2>3. Lined(g, e - 1, faults)
    BY <2>1, <2>2, <1>0, <1>8, LineSkip
  <2>. QED BY <2>1, <2>3, <1>0 DEF g, m
<1>. QED BY <1>11, <1>12

\* A data packet that was read is the last one; another does not change it.
LEMMA LastTaken ==
  ASSUME IInv, NEW c \in Chans, NEW p \in Packets, Read(c, p), NEW x \in Marks, Last(c, x)
  PROVE  IF IsData(p) THEN p \in Marks /\ Last(c, p)' ELSE Last(c, x)'
<1>0. FpgaTypes /\ SockTypes /\ SockDated /\ packet_count \in [Chans -> Nat]
  BY DEF IInv, Bounded
<1>1. /\ sock[c] # <<>> /\ p = sock[c][1] /\ pos' = pos
      /\ packet_count' = IF IsData(p) THEN [packet_count EXCEPT ![c] = next_count(p)]
                         ELSE packet_count
  BY DEF Read, fpgaVars, IsData
<1>2. p \in Marks
  BY DEF Packets, Marks
<1>3. x.pos < pos[c] /\ next_count(x) = packet_count[c] /\ IsData(x)
  BY DEF Last
<1>4. CASE IsData(p)
  <2>1. Lined(Line(c, p)', Len(sock'[c]) + 1, faults')
    BY <1>2, <1>4, LineRead
  <2>2. p.pos < pos[c]
    <3>1. sock[c] \in Seq(Packets) /\ Len(sock[c]) \in Nat \ {0}
      BY <1>0, <1>1 DEF SockTypes
    <3>2. 1 \in 1 .. Len(sock[c])
      BY <3>1
    <3>3. Placed(c, p)
      BY <3>2, <1>0, <1>1, <1>4 DEF SockDated, IsData
    <3>. QED BY <3>3 DEF Placed, Sent
  <2>3. packet_count'[c] = next_count(p)
    BY <1>0, <1>1, <1>4
  <2>. QED BY <2>1, <2>2, <2>3, <1>1, <1>2, <1>4 DEF Last, next_count
<1>5. CASE ~IsData(p)
  <2>1. Lined(Line(c, x)', Len(sock'[c]) + 1, faults')
    BY <1>5, LineRead
  <2>2. packet_count'[c] = packet_count[c]
    BY <1>1, <1>5
  <2>. QED BY <2>1, <2>2, <1>1, <1>3, <1>5 DEF Last, next_count
<1>. QED BY <1>4, <1>5

\* Another channel was read.
LEMMA LastOther ==
  ASSUME IInv, NEW c \in Chans, NEW p \in Packets, Read(c, p), NEW d \in Chans, d # c,
         NEW x \in Marks, Last(d, x)
  PROVE  Last(d, x)'
<1>1. sock'[d] = sock[d] /\ packet_count'[d] = packet_count[d]
  BY DEF Read, IInv, SockTypes, Bounded
<1>2. UNCHANGED fpgaVars /\ faults' = faults
  BY DEF Read
<1>. QED BY <1>1, <1>2, LastSame

-----------------------------------------------------------------------------
(* The set and the last packets.                                           *)

\* Data in the set is the last that was read of its channel.
Tells(x, b) == HeldData(b) => x.pos = b.pos /\ x.len = b.len /\ x.burst = b.burst
LastRead == \A c \in Chans : \E x \in Marks : Last(c, x) /\ Tells(x, Work.ch[c])

\* What happens to the info in which the set is, by a step of the host: it stays,
\* or it is a fresh one because the set was delivered to its end.
Carries == Work'.ch = Work.ch /\ Work'.todo = Work.todo
Renews == Work.todo = {} /\ Fresh(Work')

LEMMA CopyWork ==
  ASSUME IInv, Copy
  PROVE  Settled /\ dropped' = dropped /\ (Carries \/ Renews)
<1>1. Settled /\ dropped' = dropped /\ call.st = "copy"
  BY DEF Copy, Settled, sockVars
<1>. DEFINE i == infos[Slot(0)]
<1>2. PICK n \in Nat, u \in Infos :
        /\ u.left = i.left - n
        /\ u.left > 0 => u.ch = i.ch /\ u.todo = i.todo
        /\ i.left > 0 <=> n > 0
        /\ n = 0 => call'.st = "idle"
        /\ \/ /\ call'.st \in {"idle", "copy"} /\ infos'[Slot(0)'] = u
              /\ infos'[Slot(1)'] = infos[Slot(1)]
              /\ call'.st = "copy" => u.left > 0
           \/ /\ call'.st = "get" /\ infos'[Slot(0)'] = infos[Slot(1)]
              /\ u.left = 0
  BY Copies
<1>3. u.left \in Nat /\ i.left \in Nat
  BY Slots DEF Infos, IInv, HostTypes
<1>4. i.left > 0 => Complete(i) /\ Fresh(infos[Slot(1)])
  BY <1>1 DEF IInv, Ring
<1>5. Work = IF i.left > 0 THEN i ELSE infos[Slot(1)]
  BY <1>1 DEF Work
<1>6. CASE n = 0
  <2>1. u.left = 0 /\ ~(i.left > 0)
    BY <1>2, <1>3, <1>6
  <2>2. Work' = infos[Slot(1)]
    BY <2>1, <1>2, <1>6 DEF Work
  <2>. QED BY <2>1, <2>2, <1>1, <1>5 DEF Carries
<1>7. CASE n > 0 /\ u.left > 0
  <2>1. Work' = u /\ Work = i
    BY <1>2, <1>5, <1>7 DEF Work
  <2>. QED BY <2>1, <1>1, <1>2, <1>7 DEF Carries
<1>8. CASE n > 0 /\ u.left = 0
  <2>1. Work' = infos[Slot(1)] /\ Work = i
    BY <1>2, <1>5, <1>8 DEF Work
  <2>. QED BY <2>1, <1>1, <1>2, <1>4, <1>8 DEF Renews, Complete
<1>. QED BY <1>2, <1>3, <1>6, <1>7, <1>8

\* The steps of the host, seen from the set.
LEMMA HostKinds ==
  ASSUME IInv, [Next]_vars
  PROVE  \/ DeviceStep /\ FpgaTypes' /\ sock' \in [Chans -> Seq(Packets)] /\ Work' = Work
         \/ \E c \in Chans, p \in Packets : GetPacket /\ Read(c, p)
         \/ \E c \in Chans : GetTimeout /\ Misses(c)
         \/ /\ Settled /\ dropped' = dropped /\ (Carries \/ Renews)
            /\ Aligned \/ Copy \/ \E n \in Wants, one \in BOOLEAN : RecvBegin(n, one)
<1>1. CASE DeviceStep /\ FpgaTypes' /\ sock' \in [Chans -> Seq(Packets)]
  <2>1. infos' = infos /\ call' = call /\ idx' = idx
    BY <1>1 DEF DeviceStep, hostVars
  <2>2. Slot(0)' = Slot(0) /\ Slot(1)' = Slot(1)
    BY <2>1, Slots DEF IInv, HostTypes
  <2>. QED BY <2>1, <2>2, <1>1 DEF Work
<1>2. ASSUME NEW n \in Wants, NEW one \in BOOLEAN, RecvBegin(n, one)
      PROVE  Settled /\ dropped' = dropped /\ Carries
  BY <1>2, Begins DEF Carries
<1>3. CASE GetPacket
  BY <1>3, Reads
<1>4. CASE GetTimeout
  BY <1>4, Times
<1>5. CASE Aligned
  BY <1>5, Completes DEF Carries, Same
<1>6. CASE Copy
  BY <1>6, CopyWork
<1>. QED BY <1>1, <1>2, <1>3, <1>4, <1>5, <1>6, StepKinds

LEMMA InitLast == Init => LastRead
<1>. SUFFICES ASSUME Init, NEW c \in Chans
              PROVE  \E x \in Marks : Last(c, x) /\ Tells(x, Work.ch[c])
  BY DEF LastRead
<1>. DEFINE x == [kind |-> "data", pos |-> -1, time |-> 0, len |-> SPP, count |-> SeqMod - 1,
                  eob |-> FALSE, burst |-> 0]
            f == Line(c, x)
<1>0. IInv /\ FpgaTypes /\ SockTypes
  BY InitIInv DEF IInv
<1>1. /\ running[c] = TRUE /\ pos[c] = 0 /\ pkt_count[c] = 0 /\ burst = 0 /\ faults = 0
      /\ sock[c] = <<>> /\ packet_count[c] = 0
  BY DEF Init
<1>2. SPP \in Nat /\ SeqMod \in Nat \ {0} /\ SeqMod - 1 \in Nat
  BY SizesAssumption
<1>3. x \in Marks /\ IsData(x)
  BY <1>2 DEF Marks, IsData, Kinds
<1>4. (SeqMod - 1 + 1) % SeqMod = 0
  <2>1. (SeqMod * 1 + 0) % SeqMod = 0
    BY <1>2, Remainder
  <2>. QED BY <2>1, <1>2
<1>5. x.pos < pos[c] /\ next_count(x) = packet_count[c]
  BY <1>1, <1>4 DEF next_count
<1>6. Lined(f, Len(sock[c]) + 1, faults)
  <2>. DEFINE a == Ahead(c)
  <2>1. a \in Marks /\ IsData(a) /\ a.pos = 0 /\ a.burst = 0 /\ a.count = 0
    BY <1>0, <1>1, AheadIsMark
  <2>2. sock[c] \in Seq(Packets) /\ Len(sock[c]) = 0
    BY <1>0, <1>1 DEF SockTypes
  <2>. DEFINE s == sock[c]
  <2>3. s \in Seq(Packets) /\ Len(s) = 0 /\ f = LineOf(s, a, x)
    BY <2>2 DEF Line
  <2>4. x.pos = -1 /\ x.burst = 0 /\ x.count = SeqMod - 1 /\ x.len = SPP
    OBVIOUS
  <2>. HIDE DEF a, s, x, f
  <2>5. f[0] = x /\ f[1] = a
    <3>1. s \in Seq(Packets)
      BY <2>3
    <3>2. a \in Marks /\ x \in Marks
      BY <2>1, <1>3
    <3>3. LineOf(s, a, x)[0] = x /\ LineOf(s, a, x)[Len(s) + 1] = a
      BY <3>1, <3>2, LineOfAt
    <3>4. Len(s) + 1 = 1
      BY <2>3
    <3>. QED BY <3>3, <3>4, <2>3
  <2>6. \A i \in 0 .. 1 : i = 0 \/ i = 1
    OBVIOUS
  <2>7. \A i \in 0 .. 1 : f[i] \in Marks
    BY <2>1, <2>5, <2>6, <1>3
  <2>8. \A i, j \in 0 .. 1 : i < j => i = 0 /\ j = 1
    OBVIOUS
  <2>9. Sorted(f, 1)
    BY <2>1, <2>4, <2>5, <2>8 DEF Sorted
  <2>10. a.pos - x.pos = 1 /\ (x.count + 1) % SeqMod = 0
    <3>1. a.pos - x.pos = 1
      BY <2>1, <2>4
    <3>. QED BY <3>1, <2>4, <1>4
  <2>11. Chained(f, 1, 0)
    BY <2>1, <2>5, <2>8, <2>10 DEF Chained
  <2>12. Len(sock[c]) + 1 = 1 /\ faults = 0
    BY <2>2, <1>1
  <2>. QED BY <2>7, <2>9, <2>11, <2>12 DEF Lined
<1>7. ~HeldData(Work.ch[c])
  <2>1. Slot(0) \in 0 .. 3 /\ Slot(1) \in 0 .. 3
    BY <1>0, Slots DEF IInv, HostTypes
  <2>2. infos = [k \in 0 .. 3 |-> EmptyInfo]
    BY DEF Init
  <2>3. Work = EmptyInfo
    BY <2>1, <2>2 DEF Work
  <2>4. ~EmptyInfo.ch[c].held
    BY EmptyInfoType DEF Fresh
  <2>. QED BY <2>3, <2>4 DEF HeldData
<1>. HIDE DEF x
<1>. QED BY <1>3, <1>5, <1>6, <1>7 DEF Last, Tells

LEMMA NextLast == IInv /\ LastRead /\ [Next]_vars => LastRead'
<1>. SUFFICES ASSUME IInv, LastRead, [Next]_vars, NEW d \in Chans
              PROVE  \E y \in Marks : Last(d, y)' /\ Tells(y, Work'.ch[d])
  BY DEF LastRead
<1>1. PICK x \in Marks : Last(d, x) /\ Tells(x, Work.ch[d])
  BY DEF LastRead
<1>2. CASE DeviceStep /\ FpgaTypes' /\ sock' \in [Chans -> Seq(Packets)] /\ Work' = Work
  <2>1. Last(d, x)'
    BY <1>1, <1>2, BoundedStep, LastStays
  <2>. QED BY <2>1, <1>1, <1>2
<1>3. ASSUME NEW c \in Chans, NEW p \in Packets, Read(c, p)
      PROVE  \E y \in Marks : Last(d, y)' /\ Tells(y, Work'.ch[d])
  <2>1. CASE d # c
    <3>1. Last(d, x)'
      BY <2>1, <1>1, <1>3, LastOther
    <3>2. Work'.ch[d] = Work.ch[d]
      BY <2>1, <1>3 DEF Read, Gives, Puts
    <3>. QED BY <3>1, <3>2, <1>1
  <2>2. CASE d = c /\ IsData(p)
    <3>1. p \in Marks /\ Last(d, p)'
      BY <2>2, <1>1, <1>3, LastTaken
    <3>2. p.pos = Work'.ch[d].pos /\ p.len = Work'.ch[d].len /\ p.burst = Work'.ch[d].burst
      BY <2>2, <1>3 DEF Read, Puts, IsData
    <3>. QED BY <3>1, <3>2 DEF Tells
  <2>3. CASE d = c /\ ~IsData(p)
    <3>1. Last(d, x)'
      BY <2>3, <1>1, <1>3, LastTaken
    <3>2. ~HeldData(Work'.ch[d])
      BY <2>3, <1>3 DEF Read, Puts, Gives, IsData, HeldData
    <3>. QED BY <3>1, <3>2 DEF Tells
  <2>. QED BY <2>1, <2>2, <2>3
<1>4. ASSUME Settled PROVE Last(d, x)'
  BY <1>1, <1>4, LastSame DEF Settled
<1>5. ASSUME NEW c \in Chans, Misses(c)
      PROVE  \E y \in Marks : Last(d, y)' /\ Tells(y, Work'.ch[d])
  <2>1. Last(d, x)'
    BY <1>4, <1>5 DEF Misses
  <2>2. Work'.ch[d] = Work.ch[d] \/ ~HeldData(Work'.ch[d])
    BY <1>5 DEF Misses, Gives, HeldData
  <2>. QED BY <2>1, <2>2, <1>1 DEF Tells
<1>6. CASE Settled /\ (Carries \/ Renews)
  <2>1. Work'.ch[d] = Work.ch[d] \/ ~HeldData(Work'.ch[d])
    BY <1>6 DEF Carries, Renews, Fresh, HeldData
  <2>. QED BY <2>1, <1>1, <1>4, <1>6 DEF Tells
<1>. QED BY <1>2, <1>3, <1>5, <1>6, HostKinds

-----------------------------------------------------------------------------
(* The bursts.                                                             *)

\* Channel c has, in its socket or in the set, data of place r and burst b.
Has(c, r, b) ==
  \/ \E i \in 1 .. Len(sock[c]) :
       IsData(sock[c][i]) /\ sock[c][i].pos = r /\ sock[c][i].burst = b
  \/ HeldData(Work.ch[c]) /\ Work.ch[c].pos = r /\ Work.ch[c].burst = b

\* Earlier bursts are before later ones, on whatever channels.
InOrder ==
  /\ \A c \in Chans : \A r, b \in Nat : Has(c, r, b) =>
       b <= burst /\ (b < burst => \A d \in Chans : r < pos[d])
  /\ \A c, d \in Chans : \A r, s, a, b \in Nat :
       Has(c, r, a) /\ Has(d, s, b) /\ a < b => r < s

\* The host does not add data.
LEMMA HostHas ==
  ASSUME IInv, NEW d \in Chans, NEW r, NEW b, Has(d, r, b)',
         \/ \E c \in Chans, p \in Packets : Read(c, p)
         \/ \E c \in Chans : Misses(c)
         \/ Settled /\ (Carries \/ Renews)
  PROVE  Has(d, r, b)
<1>0. SockTypes
  BY DEF IInv
<1>1. \/ \E i \in 1 .. Len(sock'[d]) :
           IsData(sock'[d][i]) /\ sock'[d][i].pos = r /\ sock'[d][i].burst = b
      \/ HeldData(Work'.ch[d]) /\ Work'.ch[d].pos = r /\ Work'.ch[d].burst = b
  BY DEF Has, IsData, HeldData
<1>2. ASSUME NEW c \in Chans, NEW p \in Packets, Read(c, p) PROVE Has(d, r, b)
  <2>1. /\ Len(sock[c]) \in Nat \ {0} /\ Len(sock'[c]) = Len(sock[c]) - 1
        /\ \A i \in 1 .. Len(sock'[c]) : i + 1 \in 1 .. Len(sock[c]) /\ sock'[c][i] = sock[c][i + 1]
        /\ \A e \in Chans : e # c => sock'[e] = sock[e]
    BY <1>0, <1>2, SocketTail DEF Read
  <2>2. CASE d # c
    <3>1. Work'.ch[d] = Work.ch[d] /\ sock'[d] = sock[d]
      BY <2>1, <2>2, <1>2 DEF Read, Gives, Puts
    <3>. QED BY <3>1, <1>1 DEF Has
  <2>3. CASE d = c /\ HeldData(Work'.ch[d]) /\ Work'.ch[d].pos = r /\ Work'.ch[d].burst = b
    <3>1. IsData(p) /\ p.pos = r /\ p.burst = b /\ p = sock[d][1]
      BY <2>3, <1>2 DEF Read, Gives, Puts, HeldData, IsData
    <3>2. 1 \in 1 .. Len(sock[d])
      BY <2>1, <2>3
    <3>. QED BY <3>1, <3>2 DEF Has
  <2>4. CASE d = c /\ \E i \in 1 .. Len(sock'[d]) :
               IsData(sock'[d][i]) /\ sock'[d][i].pos = r /\ sock'[d][i].burst = b
    <3>1. PICK i \in 1 .. Len(sock'[d]) :
               IsData(sock'[d][i]) /\ sock'[d][i].pos = r /\ sock'[d][i].burst = b
      BY <2>4
    <3>2. i + 1 \in 1 .. Len(sock[d]) /\ sock'[d][i] = sock[d][i + 1]
      BY <3>1, <2>1, <2>4
    <3>. QED BY <3>1, <3>2 DEF Has
  <2>. QED BY <2>2, <2>3, <2>4, <1>1
<1>3. CASE sock' = sock /\ (Work'.ch[d] = Work.ch[d] \/ ~HeldData(Work'.ch[d]))
  BY <1>1, <1>3 DEF Has
<1>4. ASSUME NEW c \in Chans, Misses(c) PROVE Has(d, r, b)
  BY <1>3, <1>4 DEF Misses, Settled, Gives, HeldData
<1>5. CASE Settled /\ (Carries \/ Renews)
  BY <1>3, <1>5 DEF Settled, Carries, Renews, Fresh, HeldData
<1>. QED BY <1>2, <1>4, <1>5

\* The device adds data of the present place and burst.
LEMMA DeviceHas ==
  ASSUME IInv, DeviceStep, Work' = Work, NEW d \in Chans, NEW r, NEW b, Has(d, r, b)'
  PROVE  Has(d, r, b) \/ (r = pos[d] /\ b = burst /\ pos[d] < pos'[d] /\ running[d])
<1>1. \/ \E i \in 1 .. Len(sock'[d]) :
           IsData(sock'[d][i]) /\ sock'[d][i].pos = r /\ sock'[d][i].burst = b
      \/ HeldData(Work.ch[d]) /\ Work.ch[d].pos = r /\ Work.ch[d].burst = b
  BY DEF Has, IsData, HeldData
<1>2. Grows(d) /\ Len(sock[d]) \in Nat /\ Len(sock'[d]) \in Nat
  BY DEF DeviceStep, Grows, IInv, SockTypes
<1>3. CASE HeldData(Work.ch[d]) /\ Work.ch[d].pos = r /\ Work.ch[d].burst = b
  BY <1>3 DEF Has
<1>4. ASSUME NEW i \in 1 .. Len(sock'[d]), IsData(sock'[d][i]), sock'[d][i].pos = r,
             sock'[d][i].burst = b
      PROVE  Has(d, r, b) \/ (r = pos[d] /\ b = burst /\ pos[d] < pos'[d] /\ running[d])
  <2>1. CASE i <= Len(sock[d])
    <3>1. i \in 1 .. Len(sock[d]) /\ sock'[d][i] = sock[d][i]
      BY <2>1, <1>2 DEF Grows
    <3>. QED BY <3>1, <1>4 DEF Has
  <2>2. CASE i > Len(sock[d])
    <3>1. i \in Len(sock[d]) + 1 .. Len(sock'[d])
      BY <2>2, <1>2
    <3>. QED BY <3>1, <1>2, <1>4 DEF Grows, IsData
  <2>. QED BY <2>1, <2>2, <1>2
<1>. QED BY <1>1, <1>3, <1>4

\* Data that a channel has was sent.
LEMMA HasPlaced ==
  ASSUME IInv, NEW c \in Chans, NEW r, NEW b, Has(c, r, b)
  PROVE  r \in Nat /\ b \in Nat /\ r < pos[c]
<1>1. CASE \E i \in 1 .. Len(sock[c]) :
             IsData(sock[c][i]) /\ sock[c][i].pos = r /\ sock[c][i].burst = b
  <2>1. PICK i \in 1 .. Len(sock[c]) :
             IsData(sock[c][i]) /\ sock[c][i].pos = r /\ sock[c][i].burst = b
    BY <1>1
  <2>2. sock[c] \in Seq(Packets)
    BY DEF IInv, SockTypes
  <2>3. sock[c][i] \in Packets
    BY <2>2
  <2>4. Placed(c, sock[c][i])
    BY <2>1 DEF IInv, SockDated, IsData
  <2>. QED BY <2>1, <2>3, <2>4 DEF Packets, Placed, Sent
<1>2. CASE HeldData(Work.ch[c]) /\ Work.ch[c].pos = r /\ Work.ch[c].burst = b
  <2>1. PICK k \in 0 .. 3 : Work = infos[k]
    BY Slots DEF Work, IInv, HostTypes
  <2>2. Work \in Infos /\ Placed(c, Work.ch[c])
    BY <2>1, <1>2 DEF IInv, HostTypes, InfosDated, InfoDated
  <2>3. Work.ch[c] \in Buffers
    BY <2>2 DEF Infos
  <2>. QED BY <2>2, <2>3, <1>2 DEF Buffers, Placed, Sent
<1>. QED BY <1>1, <1>2 DEF Has

LEMMA InitOrder == Init => InOrder
<1>. SUFFICES ASSUME Init PROVE InOrder
  OBVIOUS
<1>1. \A c \in Chans : sock[c] = <<>>
  BY DEF Init
<1>2. \A c \in Chans : ~HeldData(Work.ch[c])
  <2>1. Slot(0) \in 0 .. 3 /\ Slot(1) \in 0 .. 3
    BY InitIInv, Slots DEF IInv, HostTypes
  <2>2. infos = [k \in 0 .. 3 |-> EmptyInfo]
    BY DEF Init
  <2>3. Work = EmptyInfo
    BY <2>1, <2>2 DEF Work
  <2>. QED BY <2>3, EmptyInfoType DEF Fresh, HeldData
<1>3. \A c \in Chans : Len(sock[c]) = 0
  BY <1>1
<1>4. \A c \in Chans : \A r, b \in Nat : ~Has(c, r, b)
  BY <1>2, <1>3 DEF Has
<1>. QED BY <1>4 DEF InOrder

LEMMA NextOrder == IInv /\ InOrder /\ [Next]_vars => InOrder'
<1>. SUFFICES ASSUME IInv, InOrder, [Next]_vars PROVE InOrder'
  OBVIOUS
<1>1. CASE DeviceStep /\ FpgaTypes' /\ sock' \in [Chans -> Seq(Packets)] /\ Work' = Work
  <2>0. /\ burst \in Nat /\ burst' \in Nat
        /\ \A c \in Chans : pos[c] \in Nat /\ pos'[c] \in Nat
    BY <1>1, BoundAssumption DEF IInv, FpgaTypes
  <2>1. /\ \A c \in Chans : pos[c] <= pos'[c]
        /\ burst <= burst'
        /\ burst' # burst => \A c, d \in Chans : pos[c] < pos'[d]
    <3>1. \A c \in Chans : Stays(c) \/ Moves(c) \/ Stops(c) \/ Starts(c)
      BY <1>1 DEF DeviceStep
    <3>2. \A c \in Chans : pos[c] <= pos'[c]
      BY <3>1, <2>0 DEF Stays, Moves, Stops, Starts
    <3>3. burst' # burst => \A c \in Chans : Starts(c)
      BY <3>1 DEF Stays, Moves, Stops
    <3>4. burst <= burst'
      BY <3>1, <2>0, ChansNat DEF Stays, Moves, Stops, Starts
    <3>. QED BY <3>2, <3>3, <3>4 DEF Starts
  <2>2. \A c \in Chans : \A r, b \in Nat : Has(c, r, b)' =>
          Has(c, r, b) \/ (r = pos[c] /\ b = burst /\ pos[c] < pos'[c] /\ running[c])
    BY <1>1, DeviceHas
  <2>3. \A c \in Chans : \A r, b \in Nat : Has(c, r, b) => r < pos[c]
    BY HasPlaced
  <2>4. ASSUME NEW c \in Chans, NEW r \in Nat, NEW b \in Nat, Has(c, r, b)'
        PROVE  b <= burst' /\ (b < burst' => \A d \in Chans : r < pos'[d])
    <3>1. CASE Has(c, r, b)
      <4>1. b <= burst /\ (b < burst => \A d \in Chans : r < pos[d]) /\ r < pos[c]
        BY <3>1, <2>3 DEF InOrder
      <4>. QED BY <4>1, <2>0, <2>1
    <3>2. CASE r = pos[c] /\ b = burst
      BY <3>2, <2>0, <2>1
    <3>. QED BY <3>1, <3>2, <2>2, <2>4
  <2>5. ASSUME NEW c \in Chans, NEW d \in Chans, NEW r \in Nat, NEW s \in Nat, NEW a \in Nat,
               NEW b \in Nat, Has(c, r, a)', Has(d, s, b)', a < b
        PROVE  r < s
    <3>1. b <= burst
      BY <2>2, <2>5, <2>0 DEF InOrder
    <3>2. Has(c, r, a)
      BY <3>1, <2>2, <2>5, <2>0
    <3>3. CASE Has(d, s, b)
      BY <3>2, <3>3, <2>5 DEF InOrder
    <3>4. CASE s = pos[d] /\ b = burst
      BY <3>2, <3>4, <2>5 DEF InOrder
    <3>. QED BY <3>3, <3>4, <2>2, <2>5
  <2>. QED BY <2>4, <2>5 DEF InOrder
<1>2. CASE \/ \E c \in Chans, p \in Packets : Read(c, p)
           \/ \E c \in Chans : Misses(c)
           \/ Settled /\ (Carries \/ Renews)
  <2>1. \A c \in Chans : \A r, b \in Nat : Has(c, r, b)' => Has(c, r, b)
    BY <1>2, HostHas
  <2>2. burst' = burst /\ pos' = pos
    BY <1>2 DEF Read, Misses, Settled, fpgaVars
  <2>. QED BY <2>1, <2>2 DEF InOrder
<1>. QED BY <1>1, <1>2, HostKinds

-----------------------------------------------------------------------------
(* What is delivered follows what was delivered.                           *)

\* An error other than a timeout is to be reported.
Pending ==
  \/ call.st = "copy" /\ infos[Slot(0)].meta.err \notin {"none", "timeout"}
  \/ call.st = "idle" /\ queued \notin {"none", "timeout"}

\* Channel d has no more data of burst b.
Over(d, b) == (\A r \in Nat : ~Has(d, r, b)) /\ (running[d] => burst # b)

\* After place q of burst b, channel c has the next place in the set, or has not
\* read on.
Step(c, q, b) ==
  IF HeldData(Work.ch[c])
  THEN Work.ch[c].pos = q + 1 /\ Work.ch[c].burst = b /\ c \notin Work.todo
  ELSE \E x \in Marks : Last(c, x) /\ x.pos = q /\ x.burst = b

\* While no error is to be reported, the samples expected are those the set goes
\* on with; or they are those of the next place on all channels, unless the burst
\* is over on one of them.
Tracking ==
  ~Ambiguous /\ ~Pending /\ expect[0].sample # None =>
    /\ expect[0].burst \in Nat /\ expect[0].burst <= burst
    /\ \A c \in Chans : expect[c].burst = expect[0].burst
    /\ \/ /\ Work.offset > 0
          /\ \A c \in Chans : /\ expect[c].sample = Work.ch[c].pos * SPP + Work.offset
                              /\ expect[c].burst = Work.ch[c].burst
       \/ /\ Work.offset = 0
          /\ \/ \E d \in Chans : Over(d, expect[0].burst)
             \/ \E q \in Int : \A c \in Chans :
                  expect[c].sample = (q + 1) * SPP /\ Step(c, q, expect[0].burst)

\* The channels are expected to go on, or not, together.
NoneTogether == expect[0].sample = None => \A c \in Chans : expect[c].sample = None

\* The set is being collected or delivered.
LEMMA WorkState ==
  ASSUME IInv
  PROVE  /\ Work \in Infos /\ InfoDated(Work) /\ Work.offset \in Nat
         /\ Collecting(Work) \/ (Complete(Work) /\ call.st # "get" /\ Work = infos[Slot(0)])
         /\ call.st = "get" => Collecting(Work) /\ Work.offset = 0
         /\ infos[Slot(0)].left > 0 /\ call.st # "get" => Complete(Work) /\ Work = infos[Slot(0)]
<1>1. idx \in 0 .. 3 /\ infos \in [0 .. 3 -> Infos] /\ Ring
  BY DEF IInv, HostTypes
<1>2. PICK k \in 0 .. 3 : Work = infos[k]
  BY <1>1, Slots DEF Work
<1>3. Work \in Infos /\ InfoDated(Work)
  BY <1>1, <1>2 DEF IInv, InfosDated
<1>4. Collecting(Work) \/ (Complete(Work) /\ call.st # "get" /\ Work = infos[Slot(0)])
  BY <1>1 DEF Ring, Work
<1>5. call.st = "get" => Collecting(Work) /\ Work.offset = 0
  BY <1>1 DEF Ring, Work, Collecting
<1>6. infos[Slot(0)].left > 0 /\ call.st # "get" => Complete(Work) /\ Work = infos[Slot(0)]
  BY <1>1 DEF Ring, Work
<1>. QED BY <1>3, <1>4, <1>5, <1>6 DEF Infos

\* A complete set is of one place and burst.
LEMMA OneBurst ==
  ASSUME IInv, InOrder, ~Ambiguous, Complete(Work), NEW c \in Chans, NEW d \in Chans
  PROVE  Work.ch[c].pos = Work.ch[d].pos /\ Work.ch[c].burst = Work.ch[d].burst
<1>1. /\ HeldData(Work.ch[c]) /\ HeldData(Work.ch[d])
      /\ Work.ch[c].time = Work.ch[d].time
  BY DEF Complete
<1>2. Placed(c, Work.ch[c]) /\ Placed(d, Work.ch[d]) /\ FpgaTypes
  BY <1>1, WorkState DEF InfoDated, IInv
<1>3. Work.ch[c].pos = Work.ch[d].pos
  BY <1>1, <1>2, TimeToPlace
<1>4. /\ Has(c, Work.ch[c].pos, Work.ch[c].burst)
      /\ Has(d, Work.ch[d].pos, Work.ch[d].burst)
  BY <1>1 DEF Has
<1>5. /\ Work.ch[c].pos \in Nat /\ Work.ch[c].burst \in Nat
      /\ Work.ch[d].pos \in Nat /\ Work.ch[d].burst \in Nat
  BY <1>4, HasPlaced
<1>6. ~(Work.ch[c].burst < Work.ch[d].burst) /\ ~(Work.ch[d].burst < Work.ch[c].burst)
  BY <1>3, <1>4, <1>5 DEF InOrder
<1>. QED BY <1>3, <1>5, <1>6

\* A burst that is over stays over.
LEMMA OverStays ==
  ASSUME IInv, [Next]_vars, NEW d \in Chans, NEW b \in Nat, b <= burst, Over(d, b)
  PROVE  Over(d, b)'
<1>1. CASE DeviceStep /\ FpgaTypes' /\ sock' \in [Chans -> Seq(Packets)] /\ Work' = Work
  <2>1. \A r \in Nat : ~Has(d, r, b)'
    BY <1>1, DeviceHas DEF Over
  <2>2. Stays(d) \/ Moves(d) \/ Stops(d) \/ Starts(d)
    BY <1>1 DEF DeviceStep
  <2>3. burst \in Nat /\ burst' \in Nat
    BY <1>1 DEF IInv, FpgaTypes
  <2>4. running'[d] => burst' # b
    <3>1. CASE Stays(d)
      BY <3>1, Zenon DEF Stays, Over
    <3>2. CASE Moves(d) \/ Stops(d)
      BY <3>2, Zenon DEF Moves, Stops, Over
    <3>3. CASE Starts(d)
      <4>1. burst' = burst + 1
        BY <3>3 DEF Starts
      <4>. QED BY <4>1, <2>3
    <3>. QED BY <3>1, <3>2, <3>3, <2>2
  <2>. QED BY <2>1, <2>4 DEF Over
<1>2. CASE \/ \E c \in Chans, p \in Packets : Read(c, p)
           \/ \E c \in Chans : Misses(c)
           \/ Settled /\ (Carries \/ Renews)
  <2>1. \A r \in Nat : Has(d, r, b)' => Has(d, r, b)
    BY <1>2, HostHas
  <2>2. burst' = burst /\ running' = running
    BY <1>2 DEF Read, Misses, Settled, fpgaVars
  <2>. QED BY <2>1, <2>2 DEF Over
<1>. QED BY <1>1, <1>2, HostKinds

\* A packet in sequence is the next one of its channel, or begins a new burst.
LEMMA InSequence ==
  ASSUME IInv, NEW c \in Chans, NEW p \in Packets, Read(c, p), IsData(p), in_sequence(c, p),
         NEW x \in Marks, Last(c, x)
  PROVE  (p.burst = x.burst /\ p.pos = x.pos + 1) \/ (p.burst > x.burst /\ Over(c, x.burst)')
<1>0. FpgaTypes /\ SockTypes /\ SeqMod \in Nat \ {0} /\ faults \in 0 .. MaxFaults
      /\ MaxFaults \in 0 .. SeqMod - 1
  BY SizesAssumption, BoundAssumption DEF IInv, Bounded
<1>1. sock[c] # <<>> /\ p = sock[c][1] /\ sock' = [sock EXCEPT ![c] = Tail(@)]
  BY DEF Read
<1>. DEFINE s == sock[c]
            n == Len(s)
            a == Ahead(c)
            f == Line(c, x)
<1>2. /\ n \in Nat \ {0} /\ s \in Seq(Packets) /\ Len(sock'[c]) = n - 1
      /\ \A i \in 1 .. Len(sock'[c]) : i + 1 \in 1 .. n /\ sock'[c][i] = s[i + 1]
  BY <1>0, <1>1, SocketTail DEF SockTypes
<1>3. a \in Marks /\ a.burst = burst
  BY <1>0, AheadIsMark
<1>4. f = LineOf(s, a, x) /\ Lined(f, n + 1, faults) /\ next_count(x) = packet_count[c]
  BY DEF Line, Last
<1>. HIDE DEF s, n, a, f
<1>5. f[0] = x /\ f[n + 1] = a /\ \A i \in 1 .. n : f[i] = s[i]
  <2>1. /\ LineOf(s, a, x)[0] = x /\ LineOf(s, a, x)[Len(s) + 1] = a
        /\ \A i \in 1 .. Len(s) : LineOf(s, a, x)[i] = s[i]
    BY <1>2, <1>3, LineOfAt
  <2>. QED BY <2>1, <1>4 DEF n
<1>6. f[1] = p /\ 0 \in 0 .. n + 1 /\ 1 \in 0 .. n + 1 /\ 1 \in 1 .. n
  BY <1>1, <1>2, <1>5 DEF s
<1>7. /\ x.pos \in Int /\ x.burst \in Nat /\ x.count \in Nat /\ IsData(x)
      /\ p.pos \in Int /\ p.burst \in Nat
  BY DEF Marks, Packets, Last
<1>8. x.burst <= p.burst /\ x.pos < p.pos
  BY <1>4, <1>5, <1>6, <1>7 DEF Lined, Sorted
<1>9. CASE p.burst = x.burst
  <2>. DEFINE d == p.pos - x.pos
  <2>1. \A h \in 0 .. n + 1 : ~(0 < h /\ h < 1)
    OBVIOUS
  <2>2. d <= 1 + faults /\ p.count = (x.count + d) % SeqMod
    BY <2>1, <1>4, <1>5, <1>6, <1>7, <1>9 DEF Lined, Chained
  <2>3. p.count = (x.count + 1) % SeqMod
    BY <1>4 DEF in_sequence, next_count
  <2>4. d \in Nat \ {0} /\ d <= SeqMod
    BY <2>2, <1>0, <1>7, <1>8
  <2>. HIDE DEF d
  <2>5. d = 1
    BY <2>2, <2>3, <2>4, <1>0, <1>7, CountFollows
  <2>. QED BY <2>5, <1>7, <1>9 DEF d
<1>10. CASE p.burst # x.burst
  <2>1. p.burst > x.burst
    BY <1>7, <1>8, <1>10
  <2>2. \A j \in 2 .. n + 1 : j \in 0 .. n + 1 /\ p.burst <= f[j].burst /\ f[j].burst \in Nat
    <3>1. \A j \in 2 .. n + 1 : j \in 0 .. n + 1 /\ 1 < j
      BY <1>2
    <3>2. \A j \in 0 .. n + 1 : f[j].burst \in Nat
      BY <1>4 DEF Lined, Marks
    <3>. QED BY <3>1, <3>2, <1>4, <1>6 DEF Lined, Sorted
  <2>3. ASSUME NEW r \in Nat, Has(c, r, x.burst)' PROVE FALSE
    <3>1. \/ \E i \in 1 .. Len(sock'[c]) : sock'[c][i].burst = x.burst
          \/ HeldData(Work'.ch[c]) /\ Work'.ch[c].burst = x.burst
      BY <2>3 DEF Has, HeldData, IsData
    <3>2. Work'.ch[c].burst = p.burst
      BY DEF Read, Puts, IsData
    <3>3. PICK i \in 1 .. Len(sock'[c]) : sock'[c][i].burst = x.burst
      BY <3>1, <3>2, <1>10
    <3>4. i + 1 \in 1 .. n /\ i + 1 \in 2 .. n + 1 /\ sock'[c][i] = f[i + 1]
      BY <1>2, <1>5
    <3>. QED BY <3>3, <3>4, <2>1, <2>2, <1>7
  <2>4. burst' = burst /\ p.burst <= burst /\ burst \in Nat
    <3>1. n + 1 \in 2 .. n + 1
      BY <1>2
    <3>. QED BY <3>1, <2>2, <1>0, <1>3, <1>5 DEF Read, fpgaVars, FpgaTypes
  <2>5. Over(c, x.burst)'
    BY <2>1, <2>3, <2>4, <1>7 DEF Over
  <2>. QED BY <2>1, <2>5
<1>. QED BY <1>9, <1>10

\* After a packet that was cut short the burst is over.
LEMMA CutShort ==
  ASSUME IInv, NEW c \in Chans, NEW x \in Marks, Last(c, x), x.len # SPP
  PROVE  /\ \A i \in 1 .. Len(sock[c]) : IsData(sock[c][i]) => sock[c][i].burst # x.burst
         /\ running[c] => burst # x.burst
<1>0. FpgaTypes /\ SockTypes
  BY DEF IInv
<1>. DEFINE s == sock[c]
            n == Len(s)
            a == Ahead(c)
            f == Line(c, x)
<1>1. s \in Seq(Packets) /\ n \in Nat
  BY <1>0 DEF SockTypes
<1>2. a \in Marks /\ a.burst = burst /\ (IsData(a) <=> running[c])
  BY <1>0, AheadIsMark
<1>3. f = LineOf(s, a, x) /\ Sorted(f, n + 1) /\ IsData(x)
  BY DEF Line, Last, Lined
<1>. HIDE DEF s, a, f
<1>4. f[0] = x /\ f[n + 1] = a /\ \A i \in 1 .. n : f[i] = s[i]
  BY <1>1, <1>2, <1>3, LineOfAt
<1>. HIDE DEF n
<1>5. \A j \in 1 .. n + 1 : IsData(f[j]) => f[j].burst # x.burst
  <2>1. \A j \in 1 .. n + 1 : j \in 0 .. n + 1 /\ 0 \in 0 .. n + 1 /\ 0 < j
    BY <1>1
  <2>. QED BY <2>1, <1>3, <1>4 DEF Sorted
<1>6. n + 1 \in 1 .. n + 1 /\ \A i \in 1 .. n : i \in 1 .. n + 1
  BY <1>1
<1>7. \A i \in 1 .. n : IsData(s[i]) => s[i].burst # x.burst
  BY <1>4, <1>5, <1>6
<1>8. running[c] => burst # x.burst
  BY <1>2, <1>4, <1>5, <1>6
<1>. QED BY <1>7, <1>8 DEF s, n

\* A packet in sequence takes its channel to the next place, or its burst is over.
LEMMA ReadTracks ==
  ASSUME IInv, NEW c \in Chans, NEW p \in Packets, Read(c, p), IsData(p), in_sequence(c, p),
         NEW q \in Int, NEW b \in Nat, \A d \in Chans : Step(d, q, b)
  PROVE  Over(c, b)' \/ \A d \in Chans : Step(d, q, b)'
<1>1. /\ c \in Work.todo /\ Aligns(Work, Work', c, p) /\ Puts(Work, Work', c, p)
      /\ call.st = "get" /\ UNCHANGED fpgaVars
  BY DEF Read, IsData
<1>2. ~HeldData(Work.ch[c])
  BY <1>1 DEF Step
<1>3. PICK x \in Marks : Last(c, x) /\ x.pos = q /\ x.burst = b
  BY <1>2 DEF Step
<1>4. CASE p.burst > x.burst /\ Over(c, x.burst)'
  BY <1>3, <1>4
<1>5. CASE p.burst = x.burst /\ p.pos = x.pos + 1
  <2>1. p.burst = b /\ p.pos = q + 1
    BY <1>3, <1>5
  <2>2. Collecting(Work) /\ InfoDated(Work) /\ Work \in Infos
    BY <1>1, WorkState
  <2>3. Placed(c, p)
    <3>1. sock[c] \in Seq(Packets) /\ sock[c] # <<>> /\ p = sock[c][1]
      BY DEF IInv, SockTypes, Read
    <3>2. 1 \in 1 .. Len(sock[c])
      BY <3>1
    <3>. QED BY <3>1, <3>2 DEF IInv, SockDated, IsData
  <2>4. ASSUME NEW d \in Chans, HeldData(Work.ch[d])
        PROVE  p.time = Work.time /\ Work.valid /\ d \notin Work.todo
    <3>1. Work.ch[d].pos = q + 1 /\ d \notin Work.todo
      BY <2>4 DEF Step
    <3>2. Placed(d, Work.ch[d]) /\ Work.ch[d].time = Work.time /\ Work.valid
      BY <3>1, <2>2, <2>4 DEF InfoDated, Collecting
    <3>3. p.time = Work.ch[d].time
      BY <3>1, <3>2, <2>1, <2>3 DEF Placed, Sent
    <3>. QED BY <3>1, <3>2, <3>3
  <2>5. p.time \in Int /\ Work.time \in Int
    BY <2>2 DEF Packets, Infos
  <2>6. /\ c \notin Work'.todo
        /\ \A d \in Chans : d # c /\ HeldData(Work.ch[d]) => d \notin Work'.todo
    <3>1. CASE \E d \in Chans : HeldData(Work.ch[d])
      <4>1. p.time = Work.time /\ Work.valid
        BY <3>1, <2>4
      <4>2. Work'.todo = Work.todo \ {c}
        BY <4>1, <2>5, <1>1 DEF Aligns, Newest, Equal, Older
      <4>. QED BY <4>2, <2>4
    <3>2. CASE ~\E d \in Chans : HeldData(Work.ch[d])
      <4>1. ~Work.valid
        BY <3>2, <2>2 DEF Collecting
      <4>2. Work'.todo = Chans \ {c}
        BY <4>1, <1>1 DEF Aligns, Newest, Equal, Older
      <4>. QED BY <4>2, <3>2
    <3>. QED BY <3>1, <3>2
  <2>7. Step(c, q, b)'
    <3>1. HeldData(Work'.ch[c]) /\ Work'.ch[c].pos = q + 1 /\ Work'.ch[c].burst = b
      BY <2>1, <1>1 DEF Puts, HeldData, IsData
    <3>. QED BY <3>1, <2>6 DEF Step, HeldData
  <2>8. ASSUME NEW d \in Chans, d # c PROVE Step(d, q, b)'
    <3>1. Work'.ch[d] = Work.ch[d]
      BY <2>8, <1>1 DEF Puts
    <3>2. CASE HeldData(Work.ch[d])
      <4>1. Work.ch[d].pos = q + 1 /\ Work.ch[d].burst = b
        BY <3>2 DEF Step
      <4>. QED BY <4>1, <3>1, <3>2, <2>6, <2>8 DEF Step, HeldData
    <3>3. CASE ~HeldData(Work.ch[d])
      <4>1. PICK y \in Marks : Last(d, y) /\ y.pos = q /\ y.burst = b
        BY <3>3 DEF Step
      <4>2. Last(d, y)'
        BY <4>1, <2>8, LastOther
      <4>3. ~HeldData(Work'.ch[d])
        BY <3>1, <3>3
      <4>. QED BY <4>1, <4>2, <4>3 DEF Step, HeldData
    <3>. QED BY <3>2, <3>3
  <2>. QED BY <2>7, <2>8
<1>. QED BY <1>3, <1>4, <1>5, InSequence

\* A channel that is not touched stays where it is.
LEMMA StepStays ==
  ASSUME NEW d \in Chans, NEW q \in Int, NEW b \in Nat, Step(d, q, b),
         \A x \in Marks : Last(d, x) => Last(d, x)',
         \/ Work'.ch[d] = Work.ch[d]
         \/ ~HeldData(Work.ch[d]) /\ ~HeldData(Work'.ch[d]),
         Work'.todo = Work.todo
  PROVE  Step(d, q, b)'
<1>1. CASE HeldData(Work.ch[d])
  <2>1. Work'.ch[d] = Work.ch[d] /\ HeldData(Work'.ch[d])
    BY <1>1
  <2>2. Work.ch[d].pos = q + 1 /\ Work.ch[d].burst = b /\ d \notin Work.todo
    BY <1>1 DEF Step
  <2>. QED BY <2>1, <2>2 DEF Step, HeldData
<1>2. CASE ~HeldData(Work.ch[d])
  <2>1. ~HeldData(Work'.ch[d])
    BY <1>2
  <2>2. PICK x \in Marks : Last(d, x) /\ x.pos = q /\ x.burst = b
    BY <1>2 DEF Step
  <2>3. Last(d, x)'
    BY <2>2
  <2>. QED BY <2>1, <2>2, <2>3 DEF Step, HeldData
<1>. QED BY <1>1, <1>2

\* What is expected does not change, and no channel moves on.
LEMMA TrackStays ==
  ASSUME IInv, Tracking, [Next]_vars, ~Ambiguous' => ~Ambiguous, ~Pending' => ~Pending,
         expect' = expect, Work'.offset = Work.offset, Work'.todo = Work.todo,
         burst' \in Nat, burst <= burst',
         \A d \in Chans : \A x \in Marks : Last(d, x) => Last(d, x)',
         \/ Work'.ch = Work.ch
         \/ /\ Work.offset = 0
            /\ \E c \in Work.todo : Gives(Work, Work', c)
  PROVE  Tracking'
<1>. SUFFICES ASSUME ~Ambiguous', ~Pending', expect[0].sample # None
              PROVE  /\ expect[0].burst \in Nat /\ expect[0].burst <= burst'
                     /\ \A c \in Chans : expect[c].burst = expect[0].burst
                     /\ \/ /\ Work.offset > 0
                           /\ \A c \in Chans :
                                /\ expect[c].sample = Work'.ch[c].pos * SPP + Work.offset
                                /\ expect[c].burst = Work'.ch[c].burst
                        \/ /\ Work.offset = 0
                           /\ \/ \E d \in Chans : Over(d, expect[0].burst)'
                              \/ \E q \in Int : \A c \in Chans :
                                   expect[c].sample = (q + 1) * SPP
                                   /\ Step(c, q, expect[0].burst)'
  BY DEF Tracking
<1>0. PICK b \in Nat : b = expect[0].burst
  BY DEF Tracking
<1>1. /\ b <= burst
      /\ \A c \in Chans : expect[c].burst = b
      /\ \/ /\ Work.offset > 0
            /\ \A c \in Chans : /\ expect[c].sample = Work.ch[c].pos * SPP + Work.offset
                                /\ expect[c].burst = Work.ch[c].burst
         \/ /\ Work.offset = 0
            /\ \/ \E d \in Chans : Over(d, b)
               \/ \E q \in Int : \A c \in Chans :
                    expect[c].sample = (q + 1) * SPP /\ Step(c, q, b)
  BY <1>0 DEF Tracking
<1>2. burst \in Nat /\ b <= burst'
  BY <1>1 DEF IInv, FpgaTypes
<1>3. CASE /\ Work.offset > 0
           /\ \A c \in Chans : /\ expect[c].sample = Work.ch[c].pos * SPP + Work.offset
                               /\ expect[c].burst = Work.ch[c].burst
  <2>1. Work'.ch = Work.ch
    BY <1>3
  <2>. QED BY <2>1, <1>0, <1>1, <1>2, <1>3
<1>4. ASSUME Work.offset = 0, NEW d \in Chans, Over(d, b) PROVE Over(d, b)'
  BY <1>1, <1>4, OverStays
<1>5. ASSUME Work.offset = 0, NEW q \in Int,
             \A c \in Chans : expect[c].sample = (q + 1) * SPP /\ Step(c, q, b)
      PROVE  \A c \in Chans : Step(c, q, b)'
  <2>. SUFFICES ASSUME NEW d \in Chans PROVE Step(d, q, b)'
    OBVIOUS
  <2>1. Step(d, q, b)
    BY <1>1, <1>5
  <2>2. \/ Work'.ch[d] = Work.ch[d]
        \/ ~HeldData(Work.ch[d]) /\ ~HeldData(Work'.ch[d])
    <3>1. CASE Work'.ch = Work.ch
      BY <3>1
    <3>2. ASSUME NEW c \in Work.todo, Gives(Work, Work', c)
          PROVE  \/ Work'.ch[d] = Work.ch[d]
                 \/ ~HeldData(Work.ch[d]) /\ ~HeldData(Work'.ch[d])
      <4>1. CASE d # c
        BY <3>2, <4>1 DEF Gives
      <4>2. CASE d = c
        BY <3>2, <4>2, <2>1 DEF Gives, Step, HeldData
      <4>. QED BY <4>1, <4>2
    <3>. QED BY <3>1, <3>2
  <2>. QED BY <2>1, <2>2, StepStays
<1>. QED BY <1>0, <1>1, <1>2, <1>3, <1>4, <1>5

\* No samples of the set were delivered, unless it goes on.
LEMMA NextOffset ==
  ASSUME IInv', call'.st = "get" \/ infos'[Slot(0)'].left = 0
  PROVE  Work'.offset = 0
<1>1. CASE call'.st = "get"
  BY <1>1 DEF IInv, Ring, Work, Collecting
<1>2. CASE call'.st # "get" /\ infos'[Slot(0)'].left = 0
  BY <1>2 DEF IInv, Ring, Work, Collecting
<1>. QED BY <1>1, <1>2

\* A step that changes neither the channels nor what is expected.
LEMMA TrackSettled ==
  ASSUME IInv, Tracking, [Next]_vars, Settled, expect' = expect, ~Pending,
         Work'.offset = Work.offset, Work'.todo = Work.todo,
         \/ Work'.ch = Work.ch
         \/ /\ Work.offset = 0
            /\ \E c \in Work.todo : Gives(Work, Work', c)
  PROVE  Tracking'
<1>1. setAt' = setAt /\ burst' = burst /\ burst \in Nat
  BY DEF Settled, fpgaVars, IInv, FpgaTypes
<1>2. \A d \in Chans : \A x \in Marks : Last(d, x) => Last(d, x)'
  BY LastSame DEF Settled
<1>3. ~Ambiguous' => ~Ambiguous
  BY <1>1 DEF Ambiguous
<1>. QED BY <1>1, <1>2, <1>3, TrackStays

\* The device moves on.
LEMMA TrackDevice ==
  ASSUME IInv, Tracking, [Next]_vars, DeviceStep, FpgaTypes', Work' = Work,
         sock' \in [Chans -> Seq(Packets)]
  PROVE  Tracking'
<1>1. \A d \in Chans : \A x \in Marks : Last(d, x) => Last(d, x)'
  BY BoundedStep, LastStays
<1>2. ~Ambiguous' => ~Ambiguous
  <2>1. setAt' = setAt \/ setAt > MaxPos
    BY DEF DeviceStep
  <2>2. setAt \in Nat /\ MaxPos \in Nat
    BY BoundAssumption DEF IInv, FpgaTypes
  <2>. QED BY <2>1, <2>2 DEF Ambiguous
<1>3. /\ infos' = infos /\ call' = call /\ idx' = idx /\ queued' = queued /\ expect' = expect
  BY DEF DeviceStep, hostVars, histVars
<1>4. Slot(0)' = Slot(0)
  BY <1>3, Slots DEF IInv, HostTypes
<1>5. ~Pending' => ~Pending
  BY <1>3, <1>4 DEF Pending
<1>6. burst \in Nat /\ burst' \in Nat /\ burst <= burst'
  <2>1. burst \in Nat /\ burst' \in Nat
    BY DEF IInv, FpgaTypes
  <2>2. Stays(0) \/ Moves(0) \/ Stops(0) \/ Starts(0)
    BY ChansNat DEF DeviceStep
  <2>. QED BY <2>1, <2>2 DEF Stays, Moves, Stops, Starts
<1>. QED BY <1>1, <1>2, <1>3, <1>5, <1>6, TrackStays

\* A packet is read.
LEMMA TrackRead ==
  ASSUME IInv, IInv', Tracking, [Next]_vars, NEW c \in Chans, NEW p \in Packets, Read(c, p)
  PROVE  Tracking'
<1>. SUFFICES ASSUME ~Ambiguous', ~Pending', expect'[0].sample # None PROVE Tracking'
  BY DEF Tracking
<1>1. /\ call.st = "get" /\ expect' = expect /\ setAt' = setAt /\ burst' = burst
  BY DEF Read, fpgaVars
<1>2. call'.st = "get" /\ IsData(p) /\ in_sequence(c, p)
  BY DEF Read, Pending, IsData
<1>3. ~Ambiguous /\ ~Pending /\ expect[0].sample # None
  BY <1>1 DEF Ambiguous, Pending
<1>4. Work.offset = 0 /\ Work'.offset = 0
  BY <1>1, <1>2, WorkState, NextOffset
<1>5. PICK b \in Nat : b = expect[0].burst
  BY <1>3 DEF Tracking
<1>6. /\ b <= burst /\ \A d \in Chans : expect[d].burst = b
      /\ \/ \E d \in Chans : Over(d, b)
         \/ \E q \in Int : \A d \in Chans : expect[d].sample = (q + 1) * SPP /\ Step(d, q, b)
  BY <1>3, <1>4, <1>5 DEF Tracking
<1>7. \/ \E d \in Chans : Over(d, b)'
      \/ \E q \in Int : \A d \in Chans : expect[d].sample = (q + 1) * SPP /\ Step(d, q, b)'
  <2>1. ASSUME NEW d \in Chans, Over(d, b) PROVE Over(d, b)'
    BY <2>1, <1>6, OverStays
  <2>2. ASSUME NEW q \in Int, \A d \in Chans : expect[d].sample = (q + 1) * SPP /\ Step(d, q, b)
        PROVE  \/ \E d \in Chans : Over(d, b)'
               \/ \A d \in Chans : expect[d].sample = (q + 1) * SPP /\ Step(d, q, b)'
    <3>1. Over(c, b)' \/ \A d \in Chans : Step(d, q, b)'
      BY <2>2, <1>2, ReadTracks
    <3>. QED BY <3>1, <2>2
  <2>. QED BY <2>1, <2>2, <1>6
<1>. QED BY <1>1, <1>4, <1>5, <1>6, <1>7 DEF Tracking

\* Samples are delivered, or an error is reported or queued.
LEMMA TrackCopy ==
  ASSUME IInv, IInv', InOrder, LastRead, Tracking, [Next]_vars, Copy
  PROVE  Tracking' /\ (NoneTogether => NoneTogether')
<1>. DEFINE i == infos[Slot(0)]
<1>1. PICK n \in Nat, u \in Infos :
        /\ u.left = i.left - n /\ u.offset = i.offset + n
        /\ u.left > 0 => u.ch = i.ch /\ u.todo = i.todo
        /\ i.left > 0 <=> n > 0
        /\ i.left > 0 <=> i.meta.err = "none"
        /\ n > 0 => expect' = [c \in Chans |-> [sample |-> i.ch[c].pos * SPP + i.offset + n,
                                                burst  |-> i.ch[c].burst]]
        /\ n = 0 => /\ call'.st = "idle"
                    /\ \/ queued' = "none" /\ i.meta.err # "timeout"
                                           /\ expect' = NothingExpected
                       \/ queued' = "none" /\ i.meta.err = "timeout" /\ expect' = expect
                       \/ queued' = i.meta.err /\ expect' = expect
        /\ \/ /\ call'.st \in {"idle", "copy"} /\ infos'[Slot(0)'] = u
              /\ infos'[Slot(1)'] = infos[Slot(1)]
              /\ call'.st = "copy" => u.left > 0
           \/ /\ call'.st = "get" /\ infos'[Slot(0)'] = infos[Slot(1)]
              /\ u.left = 0
  BY Copies
<1>2. /\ call.st = "copy" /\ Settled /\ setAt' = setAt /\ burst' = burst /\ sock' = sock
      /\ running' = running
  BY DEF Copy, Settled, sockVars, fpgaVars
<1>3. /\ u.left \in Nat /\ i.left \in Nat /\ i \in Infos /\ i.offset \in Nat
      /\ burst \in Nat /\ SPP \in Nat \ {0}
  BY Slots, SizesAssumption DEF Infos, IInv, HostTypes, FpgaTypes
<1>4. Work = IF i.left > 0 THEN i ELSE infos[Slot(1)]
  BY <1>2 DEF Work
<1>5. ~Ambiguous' => ~Ambiguous
  BY <1>2 DEF Ambiguous
<1>6. CASE n = 0
  <2>1. u.left = 0 /\ ~(i.left > 0)
    BY <1>1, <1>3, <1>6
  <2>2. Work' = Work
    BY <2>1, <1>1, <1>4, <1>6 DEF Work
  <2>3. CASE expect' = NothingExpected
    BY <2>3, NothingThere DEF Tracking, NoneTogether
  <2>4. CASE expect' = expect /\ i.meta.err = "timeout"
    <3>1. ~Pending
      BY <2>4, <1>2 DEF Pending
    <3>2. Tracking'
      BY <3>1, <2>2, <2>4, <1>2, TrackSettled
    <3>. QED BY <3>2, <2>4 DEF NoneTogether
  <2>5. CASE expect' = expect /\ queued' = i.meta.err /\ i.meta.err # "timeout"
    <3>1. call'.st = "idle" /\ i.meta.err # "none"
      BY <2>1, <1>1, <1>6
    <3>2. Pending'
      BY <3>1, <2>5 DEF Pending
    <3>. QED BY <3>2, <2>5 DEF Tracking, NoneTogether
  <2>. QED BY <2>3, <2>4, <2>5, <1>1, <1>6
<1>7. CASE n > 0
  <2>1. Work = i /\ Complete(Work)
    BY <1>1, <1>2, <1>4, <1>7, WorkState
  <2>2. \A c \in Chans : /\ expect'[c].sample = i.ch[c].pos * SPP + i.offset + n
                         /\ expect'[c].burst = i.ch[c].burst
    BY <1>1, <1>7
  <2>3. \A c \in Chans : /\ HeldData(i.ch[c]) /\ Has(c, i.ch[c].pos, i.ch[c].burst)
                         /\ i.ch[c].pos \in Nat /\ i.ch[c].burst \in Nat
    <3>1. \A c \in Chans : HeldData(i.ch[c]) /\ Has(c, i.ch[c].pos, i.ch[c].burst)
      BY <2>1 DEF Complete, Has
    <3>. QED BY <3>1, HasPlaced
  <2>4. NoneTogether'
    <3>1. i.ch[0].pos * SPP \in Nat
      BY <2>3, <1>3, ChansNat
    <3>2. expect'[0].sample # None
      BY <3>1, <2>2, <1>3, ChansNat DEF None
    <3>. QED BY <3>2 DEF NoneTogether
  <2>5. Tracking'
    <3>. SUFFICES ASSUME ~Ambiguous' PROVE Tracking'
      BY DEF Tracking
    <3>1. \A c, d \in Chans : i.ch[c].pos = i.ch[d].pos /\ i.ch[c].burst = i.ch[d].burst
      BY <2>1, <1>5, OneBurst
    <3>2. PICK b \in Nat : b = i.ch[0].burst
      BY <2>3, ChansNat
    <3>3. b <= burst
      BY <3>2, <2>3, ChansNat DEF InOrder
    <3>4. \A c \in Chans : expect'[c].burst = b /\ i.ch[c].burst = b
      BY <3>1, <3>2, <2>2, ChansNat
    <3>5. expect'[0].burst = b
      BY <3>4, ChansNat
    <3>6. CASE u.left > 0
      <4>1. Work' = u /\ u.ch = i.ch
        BY <3>6, <1>1 DEF Work
      <4>2. u.offset > 0
        BY <1>1, <1>3, <1>7
      <4>3. \A c \in Chans : expect'[c].sample = u.ch[c].pos * SPP + u.offset
        <5>. SUFFICES ASSUME NEW c \in Chans
                      PROVE  expect'[c].sample = u.ch[c].pos * SPP + u.offset
          OBVIOUS
        <5>1. i.ch[c].pos * SPP \in Int
          BY <2>3, <1>3
        <5>. QED BY <5>1, <4>1, <2>2, <1>1, <1>3
      <4>. QED BY <4>1, <4>2, <4>3, <3>3, <3>4, <3>5, <1>2 DEF Tracking
    <3>7. CASE u.left = 0
      <4>1. Work' = infos[Slot(1)] /\ Fresh(infos[Slot(1)])
        BY <3>7, <1>1, <1>2, <1>7 DEF Work, IInv, Ring
      <4>2. Work'.offset = 0 /\ \A c \in Chans : ~HeldData(Work'.ch[c])
        BY <4>1 DEF Fresh, HeldData
      <4>3. PICK e \in Chans : i.left + i.offset = i.ch[e].len
        BY <2>1 DEF Complete
      <4>4. i.offset + n = i.ch[e].len
        BY <4>3, <3>7, <1>1, <1>3
      <4>5. CASE i.ch[e].len = SPP
        <5>1. PICK q \in Int : q = i.ch[0].pos
          BY <2>3, ChansNat
        <5>2. \A c \in Chans : expect'[c].sample = (q + 1) * SPP
          <6>. SUFFICES ASSUME NEW c \in Chans PROVE expect'[c].sample = (q + 1) * SPP
            OBVIOUS
          <6>1. i.ch[c].pos = q
            BY <5>1, <3>1, ChansNat
          <6>2. q * SPP \in Int /\ (q + 1) * SPP = q * SPP + SPP
            BY <1>3
          <6>3. expect'[c].sample = q * SPP + i.offset + n
            BY <6>1, <2>2
          <6>. QED BY <6>2, <6>3, <4>4, <4>5, <1>3
        <5>3. \A c \in Chans : Step(c, q, b)'
          <6>. SUFFICES ASSUME NEW c \in Chans PROVE Step(c, q, b)'
            OBVIOUS
          <6>1. PICK x \in Marks : Last(c, x) /\ Tells(x, Work.ch[c])
            BY DEF LastRead
          <6>2. x.pos = q /\ x.burst = b
            BY <6>1, <5>1, <3>1, <3>4, <2>1, <2>3, ChansNat DEF Tells
          <6>3. Last(c, x)'
            BY <6>1, <1>2, LastSame DEF Settled
          <6>. QED BY <6>2, <6>3, <4>2 DEF Step, HeldData
        <5>. QED BY <5>2, <5>3, <4>2, <3>3, <3>4, <3>5, <1>2 DEF Tracking
      <4>6. CASE i.ch[e].len # SPP
        <5>1. PICK x \in Marks : Last(e, x) /\ Tells(x, Work.ch[e])
          BY DEF LastRead
        <5>2. x.len # SPP /\ x.burst = b
          BY <5>1, <4>6, <3>4, <2>1, <2>3 DEF Tells
        <5>3. /\ \A k \in 1 .. Len(sock[e]) : IsData(sock[e][k]) => sock[e][k].burst # b
              /\ running[e] => burst # b
          BY <5>1, <5>2, CutShort
        <5>4. \A r \in Nat : ~Has(e, r, b)'
          BY <5>3, <4>2, <1>2 DEF Has, IsData, HeldData
        <5>5. Over(e, b)'
          BY <5>3, <5>4, <1>2 DEF Over
        <5>. QED BY <5>5, <4>2, <3>3, <3>4, <3>5, <1>2 DEF Tracking
      <4>. QED BY <4>5, <4>6
    <3>. QED BY <3>6, <3>7, <1>3
  <2>. QED BY <2>4, <2>5
<1>. QED BY <1>6, <1>7

LEMMA NextTracking ==
  IInv /\ IInv' /\ InOrder /\ LastRead /\ Tracking /\ NoneTogether /\ [Next]_vars
    => Tracking' /\ NoneTogether'
<1>. SUFFICES ASSUME IInv, IInv', InOrder, LastRead, Tracking, NoneTogether, [Next]_vars
              PROVE  Tracking' /\ NoneTogether'
  OBVIOUS
<1>1. CASE DeviceStep /\ FpgaTypes' /\ sock' \in [Chans -> Seq(Packets)] /\ Work' = Work
  <2>1. expect' = expect
    BY <1>1 DEF DeviceStep, histVars
  <2>. QED BY <2>1, <1>1, TrackDevice DEF NoneTogether
<1>2. ASSUME NEW c \in Chans, NEW p \in Packets, Read(c, p) PROVE Tracking' /\ NoneTogether'
  <2>1. expect' = expect
    BY <1>2 DEF Read
  <2>. QED BY <2>1, <1>2, TrackRead DEF NoneTogether
<1>3. ASSUME NEW c \in Chans, Misses(c) PROVE Tracking' /\ NoneTogether'
  <2>1. /\ call.st = "get" /\ expect' = expect /\ Settled /\ c \in Work.todo
        /\ Gives(Work, Work', c) /\ Work'.todo = Work.todo /\ infos'[Slot(0)'].left = 0
    BY <1>3 DEF Misses, Same
  <2>2. Work.offset = 0 /\ Work'.offset = 0
    BY <2>1, WorkState, NextOffset
  <2>3. ~Pending
    BY <2>1 DEF Pending
  <2>4. Tracking'
    BY <2>1, <2>2, <2>3, TrackSettled
  <2>. QED BY <2>1, <2>4 DEF NoneTogether
<1>4. CASE Aligned
  <2>1. /\ call.st = "get" /\ expect' = expect /\ Settled /\ Work'.ch = Work.ch
        /\ Work'.todo = Work.todo /\ Work'.offset = 0
    BY <1>4, Completes DEF Same
  <2>2. Work.offset = 0
    BY <2>1, WorkState
  <2>3. ~Pending
    BY <2>1 DEF Pending
  <2>4. Tracking'
    BY <2>1, <2>2, <2>3, TrackSettled
  <2>. QED BY <2>1, <2>4 DEF NoneTogether
<1>5. CASE Copy
  BY <1>5, TrackCopy
<1>6. ASSUME NEW n \in Wants, NEW one \in BOOLEAN, RecvBegin(n, one)
      PROVE  Tracking' /\ NoneTogether'
  <2>1. /\ call.st = "idle" /\ Settled /\ Work' = Work
        /\ \/ expect' = NothingExpected
           \/ queued \in {"none", "timeout"} /\ expect' = expect
    BY <1>6, Begins
  <2>2. CASE expect' = NothingExpected
    BY <2>2, NothingThere DEF Tracking, NoneTogether
  <2>3. CASE queued \in {"none", "timeout"} /\ expect' = expect
    <3>1. ~Pending
      BY <2>1, <2>3 DEF Pending
    <3>2. Tracking'
      BY <3>1, <2>1, <2>3, TrackSettled
    <3>. QED BY <3>2, <2>3 DEF NoneTogether
  <2>. QED BY <2>1, <2>2, <2>3
<1>. QED BY <1>1, <1>2, <1>3, <1>4, <1>5, <1>6, HostKinds

\* recv never skips samples silently: whatever the network loses, whenever the
\* stream overruns or is restarted and however the calls cut the packets, what
\* recv delivers goes on where it stopped, unless it has reported an error or the
\* stream was started anew.
THEOREM NoGapSilent == Spec => []NoSilentGap
<1>. DEFINE Inv == InOrder /\ LastRead /\ Tracking /\ NoneTogether
<1>1. Init => Inv
  <2>1. Init => Tracking /\ NoneTogether
    BY NothingThere DEF Init, Tracking, NoneTogether
  <2>. QED BY <2>1, InitOrder, InitLast
<1>2. IInv /\ IInv' /\ Inv /\ [Next]_vars => Inv'
  BY NextOrder, NextLast, NextTracking
<1>3. Spec => []Inv
  <2>. HIDE DEF Inv
  <2>. QED BY <1>1, <1>2, RecvInvariant, PTL DEF Spec
<1>4. IInv /\ Inv => NoSilentGap
  <2>. SUFFICES ASSUME IInv, InOrder, LastRead, Tracking, NoneTogether,
                       call.st = "copy", curr.left > 0, ~Ambiguous, NEW c \in Chans,
                       expect[c].sample # None, expect[c].burst = curr.ch[c].burst
                PROVE  expect[c].sample = curr.ch[c].pos * SPP + curr.offset
    BY DEF NoSilentGap
  <2>1. Work = curr /\ Complete(Work) /\ Work.offset \in Nat /\ Work \in Infos
    BY WorkState DEF curr
  <2>2. ~Pending
    BY <2>1 DEF Pending, Complete, curr
  <2>3. expect[0].sample # None
    BY DEF NoneTogether
  <2>4. /\ \A d \in Chans : expect[d].burst = expect[0].burst
        /\ \/ /\ Work.offset > 0
              /\ expect[c].sample = Work.ch[c].pos * SPP + Work.offset
           \/ /\ Work.offset = 0
              /\ \/ \E d \in Chans : Over(d, expect[0].burst)
                 \/ \E q \in Int : /\ expect[c].sample = (q + 1) * SPP
                                   /\ Step(c, q, expect[0].burst)
    BY <2>2, <2>3 DEF Tracking
  <2>5. ASSUME NEW d \in Chans, Over(d, expect[0].burst) PROVE FALSE
    <3>1. Work.ch[d].burst = expect[0].burst
      BY <2>1, <2>4, OneBurst
    <3>2. Has(d, Work.ch[d].pos, Work.ch[d].burst)
      BY <2>1 DEF Complete, Has
    <3>3. Work.ch[d].pos \in Nat
      BY <3>2, HasPlaced
    <3>. QED BY <3>1, <3>2, <3>3, <2>5 DEF Over
  <2>6. ASSUME NEW q \in Int, Work.offset = 0, expect[c].sample = (q + 1) * SPP,
               Step(c, q, expect[0].burst)
        PROVE  expect[c].sample = Work.ch[c].pos * SPP + Work.offset
    <3>1. Work.ch[c].pos = q + 1
      BY <2>1, <2>6 DEF Step, Complete
    <3>2. (q + 1) * SPP \in Int
      BY SizesAssumption
    <3>. QED BY <3>1, <3>2, <2>6
  <2>. QED BY <2>1, <2>4, <2>5, <2>6
<1>. QED BY <1>3, <1>4, RecvInvariant, PTL

-----------------------------------------------------------------------------
(* What the alignment throws away.                                         *)

\* Channel c still has data of place r.  Data of place r of some channel was
\* never there: the channel is past the place.
Here(c, r) == \E b \in Nat : Has(c, r, b)
Justified(r) == \E e \in Chans : r < pos[e] /\ <<e, r>> \notin arrived

\* The info that PACKET_TIMESTAMP_ERROR looks at, or will look at when the next
\* set is collected.
PastInfo == IF call.st = "get" THEN infos[Slot(3)] ELSE infos[Slot(0)]

\* While the clock was not set: a buffer that will be overwritten is older than
\* one that stays; all up to place D was delivered or thrown away, and behind it
\* nothing but what has no counterpart; no packet to come is older than the last
\* set that was delivered.
Waiting ==
  \A c \in Work.todo : HeldData(Work.ch[c]) =>
    \E e \in Chans \ Work.todo : HeldData(Work.ch[e]) /\ Work.ch[c].time < Work.ch[e].time
Behind(D) ==
  \A c \in Chans :
    /\ D < pos[c]
    /\ \A r \in Nat : Here(c, r) => r > D
    /\ \A r \in Nat : r > D /\ <<c, r>> \in arrived => Here(c, r) \/ Justified(r)
Past(D) ==
  call.st = "get" \/ infos[Slot(0)].left = 0 =>
    \A c \in Chans : PastInfo.ch[c].time <= 0 \/ PastInfo.ch[c].time <= D * SPP + Back + 1
Drops ==
  setAt > MaxPos =>
    /\ \A d \in dropped : d[2] \in Nat /\ Justified(d[2])
    /\ Waiting
    /\ \E D \in Int : Behind(D) /\ Past(D)

\* A packet that never came does not come later.
LEMMA JustifiedStays ==
  ASSUME IInv, [Next]_vars, NEW r \in Nat, Justified(r)
  PROVE  Justified(r)'
<1>1. PICK e \in Chans : r < pos[e] /\ <<e, r>> \notin arrived
  BY DEF Justified
<1>2. CASE DeviceStep /\ FpgaTypes'
  <2>1. pos[e] \in Nat /\ pos'[e] \in Nat
    BY <1>2, BoundAssumption DEF IInv, FpgaTypes
  <2>2. pos[e] <= pos'[e]
    <3>1. Stays(e) \/ Moves(e) \/ Stops(e) \/ Starts(e)
      BY <1>2 DEF DeviceStep
    <3>. QED BY <3>1, <2>1 DEF Stays, Moves, Stops, Starts
  <2>3. r < pos'[e]
    BY <2>1, <2>2, <1>1
  <2>4. r # pos[e]
    BY <2>1, <1>1
  <2>5. <<e, r>> \notin arrived'
    BY <2>4, <1>1, <1>2 DEF DeviceStep
  <2>. QED BY <2>3, <2>5 DEF Justified
<1>3. CASE pos' = pos /\ arrived' = arrived
  BY <1>1, <1>3 DEF Justified
<1>. QED BY <1>2, <1>3, HostKinds DEF Read, Misses, Settled, fpgaVars

\* Data in the set has the time of its place.
LEMMA HeldPlaced ==
  ASSUME IInv, NEW c \in Chans, HeldData(Work.ch[c])
  PROVE  /\ Work.ch[c].pos \in Nat /\ Work.ch[c].burst \in Nat /\ Work.ch[c].pos < pos[c]
         /\ Placed(c, Work.ch[c]) /\ Here(c, Work.ch[c].pos) /\ Work.ch[c].time \in Int
         /\ setAt > MaxPos => Work.ch[c].time = Work.ch[c].pos * SPP + Back + 1
<1>1. Has(c, Work.ch[c].pos, Work.ch[c].burst)
  BY DEF Has
<1>2. Work.ch[c].pos \in Nat /\ Work.ch[c].burst \in Nat /\ Work.ch[c].pos < pos[c]
  BY <1>1, HasPlaced
<1>3. Here(c, Work.ch[c].pos)
  BY <1>1, <1>2 DEF Here
<1>4. Work \in Infos /\ Placed(c, Work.ch[c])
  BY WorkState DEF InfoDated
<1>5. Work.ch[c] \in Buffers
  BY <1>4 DEF Infos
<1>6. pos[c] \in 0 .. MaxPos /\ setAt \in Int /\ MaxPos \in Nat
  BY BoundAssumption DEF IInv, FpgaTypes
<1>7. setAt > MaxPos => ~(Work.ch[c].pos >= setAt)
  BY <1>2, <1>6
<1>8. setAt > MaxPos => Work.ch[c].time = Work.ch[c].pos * SPP + Back + 1
  BY <1>4, <1>7 DEF Placed, Sent
<1>. QED BY <1>2, <1>3, <1>4, <1>5, <1>8 DEF Buffers

\* What is in the socket is behind what is in the set.
LEMMA SocketBehind ==
  ASSUME IInv, LastRead, NEW e \in Chans, HeldData(Work.ch[e]), NEW i \in 1 .. Len(sock[e]),
         IsData(sock[e][i])
  PROVE  Work.ch[e].pos < sock[e][i].pos
<1>1. PICK x \in Marks : Last(e, x) /\ Tells(x, Work.ch[e])
  BY DEF LastRead
<1>2. x.pos = Work.ch[e].pos /\ IsData(x) /\ Lined(Line(e, x), Len(sock[e]) + 1, faults)
  BY <1>1 DEF Last, Tells
<1>3. FpgaTypes /\ sock[e] \in Seq(Packets)
  BY DEF IInv, SockTypes
<1>4. Ahead(e) \in Marks
  BY <1>3, AheadIsMark
<1>. DEFINE s == sock[e]
            a == Ahead(e)
            f == LineOf(s, a, x)
<1>5. s \in Seq(Packets) /\ a \in Marks /\ i \in 1 .. Len(s)
  BY <1>3, <1>4
<1>6. Sorted(f, Len(s) + 1)
  BY <1>2 DEF Lined, Line
<1>. HIDE DEF s, a
<1>7. f[0] = x /\ f[i] = s[i] /\ Len(s) \in Nat
  BY <1>5, LineOfAt
<1>. HIDE DEF f
<1>8. 0 \in 0 .. Len(s) + 1 /\ i \in 0 .. Len(s) + 1 /\ 0 < i
  BY <1>5, <1>7
<1>9. IsData(f[0]) /\ IsData(f[i])
  BY <1>2, <1>7 DEF s
<1>10. f[0].pos < f[i].pos
  BY <1>6, <1>8, <1>9 DEF Sorted
<1>. QED BY <1>2, <1>7, <1>10 DEF s

\* A buffer that is overwritten has no counterpart.
LEMMA DropSound ==
  ASSUME IInv, LastRead, setAt > MaxPos, Waiting, NEW D \in Int, Behind(D),
         NEW c \in Chans, c \in Work.todo, HeldData(Work.ch[c])
  PROVE  Work.ch[c].pos \in Nat /\ Justified(Work.ch[c].pos)
<1>1. PICK e \in Chans \ Work.todo : HeldData(Work.ch[e]) /\ Work.ch[c].time < Work.ch[e].time
  BY DEF Waiting
<1>. DEFINE r == Work.ch[c].pos
            R == Work.ch[e].pos
<1>2. r \in Nat /\ Work.ch[c].time = r * SPP + Back + 1 /\ Here(c, r)
  BY HeldPlaced
<1>3. R \in Nat /\ R < pos[e] /\ Work.ch[e].time = R * SPP + Back + 1
  BY <1>1, HeldPlaced
<1>4. SPP \in Nat \ {0} /\ Back \in Nat /\ pos[e] \in Int
  BY SizesAssumption, BoundAssumption DEF IInv, FpgaTypes
<1>5. r * SPP + Back + 1 < R * SPP + Back + 1
  BY <1>1, <1>2, <1>3
<1>. HIDE DEF r, R
<1>6. r < R
  <2>1. r * SPP \in Int /\ R * SPP \in Int
    BY <1>2, <1>3, <1>4
  <2>2. r * SPP < R * SPP
    BY <2>1, <1>4, <1>5
  <2>3. ~(R < r)
    <3>1. R < r => R * SPP < r * SPP
      BY <1>2, <1>3, <1>4, GridOrder
    <3>. QED BY <3>1, <2>1, <2>2
  <2>. QED BY <2>1, <2>2, <2>3, <1>2, <1>3
<1>7. ~Here(e, r)
  <2>. SUFFICES ASSUME NEW b \in Nat, Has(e, r, b) PROVE FALSE
    BY DEF Here
  <2>1. CASE Work.ch[e].pos = r
    BY <2>1, <1>3, <1>6 DEF R
  <2>2. ASSUME NEW i \in 1 .. Len(sock[e]), IsData(sock[e][i]), sock[e][i].pos = r PROVE FALSE
    <3>1. R < r
      BY <2>2, <1>1, SocketBehind DEF R
    <3>. QED BY <3>1, <1>2, <1>3, <1>6
  <2>. QED BY <2>1, <2>2 DEF Has
<1>8. r > D
  BY <1>2 DEF Behind
<1>9. CASE <<e, r>> \in arrived
  <2>1. Here(e, r) \/ Justified(r)
    BY <1>2, <1>8, <1>9 DEF Behind
  <2>. QED BY <2>1, <1>2, <1>7 DEF r
<1>10. CASE <<e, r>> \notin arrived
  <2>1. r < pos[e]
    BY <1>2, <1>3, <1>4, <1>6
  <2>2. Justified(r)
    BY <2>1, <1>10 DEF Justified
  <2>. QED BY <2>2, <1>2 DEF r
<1>. QED BY <1>9, <1>10

\* What a read of channel c or a timeout on it leaves there.
LEMMA HereKept ==
  ASSUME IInv, NEW c \in Chans, Misses(c) \/ \E p \in Packets : Read(c, p),
         NEW d \in Chans, NEW r \in Nat
  PROVE  /\ Here(d, r)' => Here(d, r)
         /\ Here(d, r) => \/ Here(d, r)'
                          \/ d = c /\ HeldData(Work.ch[c]) /\ Work.ch[c].pos = r
<1>0. SockTypes
  BY DEF IInv
<1>1. Here(d, r)' => Here(d, r)
  <2>1. \A b \in Nat : Has(d, r, b)' => Has(d, r, b)
    BY HostHas
  <2>. QED BY <2>1 DEF Here
<1>2. ASSUME NEW b \in Nat, Has(d, r, b), ~(d = c /\ HeldData(Work.ch[c]) /\ Work.ch[c].pos = r)
      PROVE  Has(d, r, b)'
  <2>1. \/ \E i \in 1 .. Len(sock[d]) :
             IsData(sock[d][i]) /\ sock[d][i].pos = r /\ sock[d][i].burst = b
        \/ d # c /\ HeldData(Work.ch[d]) /\ Work.ch[d].pos = r /\ Work.ch[d].burst = b
    BY <1>2 DEF Has
  <2>2. CASE Misses(c)
    <3>1. sock' = sock /\ (d # c => Work'.ch[d] = Work.ch[d])
      BY <2>2 DEF Misses, Settled, Gives
    <3>. QED BY <3>1, <2>1 DEF Has
  <2>3. ASSUME NEW p \in Packets, Read(c, p) PROVE Has(d, r, b)'
    <3>1. /\ Len(sock[c]) \in Nat \ {0} /\ Len(sock'[c]) = Len(sock[c]) - 1
          /\ \A i \in 1 .. Len(sock'[c]) : i + 1 \in 1 .. Len(sock[c]) /\ sock'[c][i] = sock[c][i + 1]
          /\ \A e \in Chans : e # c => sock'[e] = sock[e]
      BY <1>0, <2>3, SocketTail DEF Read
    <3>2. CASE d # c
      <4>1. Work'.ch[d] = Work.ch[d] /\ sock'[d] = sock[d]
        BY <3>1, <3>2, <2>3 DEF Read, Gives, Puts
      <4>. QED BY <4>1, <2>1 DEF Has
    <3>3. CASE d = c
      <4>1. PICK i \in 1 .. Len(sock[c]) :
              IsData(sock[c][i]) /\ sock[c][i].pos = r /\ sock[c][i].burst = b
        BY <3>3, <2>1
      <4>2. CASE i = 1
        <5>1. p = sock[c][1] /\ IsData(p)
          BY <4>1, <4>2, <2>3 DEF Read
        <5>2. HeldData(Work'.ch[c]) /\ Work'.ch[c].pos = r /\ Work'.ch[c].burst = b
          BY <5>1, <4>1, <4>2, <2>3 DEF Read, Puts, HeldData, IsData
        <5>. QED BY <5>2, <3>3 DEF Has
      <4>3. CASE i # 1
        <5>1. i - 1 \in 1 .. Len(sock'[c]) /\ (i - 1) + 1 = i
          BY <4>3, <3>1
        <5>2. sock'[c][i - 1] = sock[c][i]
          BY <5>1, <3>1
        <5>3. IsData(sock'[c][i - 1]) /\ sock'[c][i - 1].pos = r /\ sock'[c][i - 1].burst = b
          BY <5>2, <4>1
        <5>. QED BY <5>1, <5>3, <3>3 DEF Has
      <4>. QED BY <4>2, <4>3
    <3>. QED BY <3>2, <3>3
  <2>. QED BY <2>2, <2>3
<1>. QED BY <1>1, <1>2 DEF Here

\* The next set begins behind the one before it: no PACKET_TIMESTAMP_ERROR.
LEMMA NotOlder ==
  ASSUME IInv, setAt > MaxPos, NEW D \in Int, Behind(D), Past(D), NEW c \in Chans,
         NEW p \in Packets, Read(c, p), p.kind = "data"
  PROVE  ~(infos[Slot(3)].ch[c].time > p.time)
<1>. DEFINE t == infos[Slot(3)].ch[c].time
            r == p.pos
<1>1. /\ call.st = "get" /\ sock[c] # <<>> /\ p = sock[c][1] /\ sock[c] \in Seq(Packets)
  BY DEF Read, IInv, SockTypes
<1>2. 1 \in 1 .. Len(sock[c])
  BY <1>1
<1>3. Has(c, r, p.burst)
  BY <1>1, <1>2 DEF Has, IsData
<1>4. r \in Nat /\ p.burst \in Nat /\ r < pos[c]
  BY <1>3, HasPlaced
<1>5. r > D
  BY <1>3, <1>4 DEF Behind, Here
<1>6. Placed(c, p)
  BY <1>1, <1>2 DEF IInv, SockDated
<1>7. pos[c] \in 0 .. MaxPos /\ setAt \in Int /\ MaxPos \in Nat
  BY BoundAssumption DEF IInv, FpgaTypes
<1>8. ~(r >= setAt)
  BY <1>4, <1>7
<1>9. p.time = r * SPP + Back + 1
  BY <1>6, <1>8 DEF Placed, Sent
<1>10. t <= 0 \/ t <= D * SPP + Back + 1
  BY <1>1 DEF Past, PastInfo
<1>11. t \in Int
  <2>1. infos[Slot(3)] \in Infos
    BY Slots DEF IInv, HostTypes
  <2>2. infos[Slot(3)].ch[c] \in Buffers
    BY <2>1 DEF Infos
  <2>. QED BY <2>2 DEF Buffers
<1>12. SPP \in Nat \ {0} /\ Back \in Nat
  BY SizesAssumption
<1>. HIDE DEF t, r
<1>13. r * SPP \in Nat /\ D * SPP \in Int /\ D * SPP <= r * SPP
  BY <1>4, <1>5, <1>12
<1>14. ~(t > p.time)
  BY <1>9, <1>10, <1>11, <1>12, <1>13
<1>. QED BY <1>14 DEF t

\* Reading a packet keeps the older buffers waiting for a newer one.
LEMMA WaitingRead ==
  ASSUME IInv, setAt > MaxPos, Waiting, NEW D \in Int, Behind(D), Past(D), NEW c \in Chans,
         NEW p \in Packets, Read(c, p)
  PROVE  Waiting'
<1>1. /\ c \in Work.todo /\ call.st = "get" /\ Work \in Infos /\ Work' \in Infos
      /\ \A d \in Chans : d # c => Work'.ch[d] = Work.ch[d]
  BY WorkState DEF Read, Puts, Gives
<1>2. Collecting(Work) /\ Work.todo \subseteq Chans
  BY <1>1, WorkState DEF Infos
<1>3. ASSUME NEW d \in Chans, HeldData(Work.ch[d])
      PROVE  Work.valid /\ Work.ch[d].time <= Work.time /\ Work.ch[d].time \in Int
  <2>0. Work.time \in Int /\ \A e \in Chans : Work.ch[e].time \in Int
    BY <1>1 DEF Infos, Buffers
  <2>1. CASE d \in Work.todo
    <3>1. PICK e \in Chans \ Work.todo : HeldData(Work.ch[e]) /\ Work.ch[d].time < Work.ch[e].time
      BY <2>1, <1>3 DEF Waiting
    <3>2. Work.ch[e].time = Work.time /\ Work.valid
      BY <3>1, <1>2 DEF Collecting
    <3>. QED BY <3>1, <3>2, <2>0
  <2>2. CASE d \notin Work.todo
    <3>1. Work.ch[d].time = Work.time /\ Work.valid
      BY <2>2, <1>2 DEF Collecting
    <3>. QED BY <3>1, <2>0
  <2>. QED BY <2>1, <2>2
<1>4. CASE p.kind # "data"
  <2>1. Work'.todo = Work.todo /\ ~HeldData(Work'.ch[c])
    BY <1>4 DEF Read, Same, Puts, Gives, HeldData
  <2>2. ASSUME NEW d \in Work'.todo, HeldData(Work'.ch[d])
        PROVE  \E e \in Chans \ Work'.todo :
                 HeldData(Work'.ch[e]) /\ Work'.ch[d].time < Work'.ch[e].time
    <3>1. d \in Work.todo /\ d \in Chans /\ d # c /\ HeldData(Work.ch[d])
          /\ Work'.ch[d] = Work.ch[d]
      BY <2>1, <2>2, <1>1, <1>2
    <3>2. PICK e \in Chans \ Work.todo : HeldData(Work.ch[e]) /\ Work.ch[d].time < Work.ch[e].time
      BY <3>1 DEF Waiting
    <3>3. e # c /\ Work'.ch[e] = Work.ch[e]
      BY <3>2, <1>1
    <3>. QED BY <3>1, <3>2, <3>3, <2>1
  <2>. QED BY <2>2 DEF Waiting, HeldData
<1>5. CASE p.kind = "data"
  <2>1. /\ HeldData(Work'.ch[c]) /\ Work'.ch[c].time = p.time /\ Aligns(Work, Work', c, p)
    BY <1>5 DEF Read, Puts, HeldData
  <2>2. ~(infos[Slot(3)].ch[c].time > p.time)
    BY <1>5, NotOlder
  <2>3. p.time \in Int /\ Work.time \in Int
    BY <1>1 DEF Packets, Infos
  <2>4. \/ Work'.todo = Chans \ {c} /\ (~Work.valid \/ p.time > Work.time)
        \/ Work'.todo = Work.todo \ {c} /\ p.time = Work.time
        \/ Work'.todo = Work.todo /\ Work.valid /\ p.time < Work.time
    BY <2>1, <2>2 DEF Aligns, Newest, Equal, Older, Same
  <2>5. ASSUME NEW d \in Work'.todo, HeldData(Work'.ch[d])
        PROVE  \E e \in Chans \ Work'.todo :
                 HeldData(Work'.ch[e]) /\ Work'.ch[d].time < Work'.ch[e].time
    <3>0. d \in Chans
      BY <2>4, <2>5, <1>2
    <3>1. CASE Work'.todo = Chans \ {c} /\ (~Work.valid \/ p.time > Work.time)
      <4>1. d # c /\ Work'.ch[d] = Work.ch[d] /\ c \in Chans \ Work'.todo
        BY <3>0, <3>1, <2>5, <1>1
      <4>2. Work.valid /\ Work.ch[d].time <= Work.time /\ Work.ch[d].time \in Int
        BY <4>1, <3>0, <2>5, <1>3
      <4>3. Work'.ch[d].time < Work'.ch[c].time
        BY <4>1, <4>2, <3>1, <2>1, <2>3
      <4>. QED BY <4>1, <4>3, <2>1
    <3>2. CASE Work'.todo = Work.todo \ {c}
      <4>1. d # c /\ Work'.ch[d] = Work.ch[d] /\ d \in Work.todo
        BY <3>0, <3>2, <2>5, <1>1
      <4>2. PICK e \in Chans \ Work.todo : HeldData(Work.ch[e]) /\ Work.ch[d].time < Work.ch[e].time
        BY <4>1, <2>5 DEF Waiting
      <4>3. e # c /\ Work'.ch[e] = Work.ch[e]
        BY <4>2, <1>1
      <4>. QED BY <4>1, <4>2, <4>3, <3>2
    <3>3. CASE Work'.todo = Work.todo /\ Work.valid /\ p.time < Work.time
      <4>1. CASE d # c
        <5>1. Work'.ch[d] = Work.ch[d] /\ d \in Work.todo
          BY <4>1, <3>0, <3>3, <2>5, <1>1
        <5>2. PICK e \in Chans \ Work.todo : HeldData(Work.ch[e]) /\ Work.ch[d].time < Work.ch[e].time
          BY <5>1, <2>5 DEF Waiting
        <5>3. e # c /\ Work'.ch[e] = Work.ch[e]
          BY <5>2, <1>1
        <5>. QED BY <5>1, <5>2, <5>3, <3>3
      <4>2. CASE d = c
        <5>1. PICK e \in Chans \ Work.todo : HeldData(Work.ch[e]) /\ Work.ch[e].time = Work.time
          BY <3>3, <1>2 DEF Collecting
        <5>2. e # c /\ Work'.ch[e] = Work.ch[e]
          BY <5>1, <1>1
        <5>. QED BY <5>1, <5>2, <4>2, <3>3, <2>1
      <4>. QED BY <4>1, <4>2
    <3>. QED BY <3>1, <3>2, <3>3, <2>4
  <2>. QED BY <2>5 DEF Waiting, HeldData
<1>. QED BY <1>4, <1>5

\* A read of channel c or a timeout on it.
LEMMA DropsRead ==
  ASSUME IInv, LastRead, Drops, [Next]_vars, NEW c \in Chans,
         Misses(c) \/ \E p \in Packets : Read(c, p)
  PROVE  Drops'
<1>1. /\ UNCHANGED fpgaVars /\ arrived' = arrived /\ c \in Work.todo /\ call.st = "get"
      /\ dropped' = dropped \cup (IF HeldData(Work.ch[c]) THEN {<<c, Work.ch[c].pos>>} ELSE {})
  BY DEF Read, Misses, Settled
<1>. SUFFICES ASSUME setAt' > MaxPos
              PROVE  /\ \A d \in dropped' : d[2] \in Nat /\ Justified(d[2])'
                     /\ Waiting'
                     /\ \E D \in Int : Behind(D)' /\ Past(D)'
  BY DEF Drops
<1>2. setAt > MaxPos /\ pos' = pos
  BY <1>1 DEF fpgaVars
<1>3. (\A d \in dropped : d[2] \in Nat /\ Justified(d[2])) /\ Waiting
  BY <1>2 DEF Drops
<1>4. PICK D \in Int : Behind(D) /\ Past(D)
  BY <1>2 DEF Drops
<1>5. HeldData(Work.ch[c]) => Work.ch[c].pos \in Nat /\ Justified(Work.ch[c].pos)
  BY <1>1, <1>2, <1>3, <1>4, DropSound
<1>6. \A d \in dropped' : d[2] \in Nat /\ Justified(d[2])'
  <2>. SUFFICES ASSUME NEW d \in dropped' PROVE d[2] \in Nat /\ Justified(d[2])'
    OBVIOUS
  <2>1. d[2] \in Nat /\ Justified(d[2])
    BY <1>1, <1>3, <1>5
  <2>2. PICK r \in Nat : r = d[2]
    BY <2>1
  <2>3. Justified(r)'
    BY <2>1, <2>2, JustifiedStays
  <2>4. PICK e \in Chans : r < pos'[e] /\ <<e, r>> \notin arrived'
    BY <2>3 DEF Justified
  <2>. QED BY <2>1, <2>2, <2>4 DEF Justified
<1>7. Waiting'
  <2>1. CASE Misses(c)
    <3>1. /\ Work'.todo = Work.todo /\ ~HeldData(Work'.ch[c])
          /\ \A d \in Chans : d # c => Work'.ch[d] = Work.ch[d]
      BY <2>1 DEF Misses, Same, Gives, HeldData
    <3>2. ASSUME NEW d \in Work'.todo, HeldData(Work'.ch[d])
          PROVE  \E e \in Chans \ Work'.todo :
                   HeldData(Work'.ch[e]) /\ Work'.ch[d].time < Work'.ch[e].time
      <4>0. Work.todo \subseteq Chans
        BY WorkState DEF Infos
      <4>1. d \in Work.todo /\ d # c /\ Work'.ch[d] = Work.ch[d]
        BY <3>1, <3>2, <4>0
      <4>2. PICK e \in Chans \ Work.todo : HeldData(Work.ch[e]) /\ Work.ch[d].time < Work.ch[e].time
        BY <4>1, <3>2, <1>3 DEF Waiting
      <4>3. e # c /\ Work'.ch[e] = Work.ch[e]
        BY <4>2, <3>1, <1>1
      <4>. QED BY <4>1, <4>2, <4>3, <3>1
    <3>. QED BY <3>2 DEF Waiting, HeldData
  <2>2. ASSUME NEW p \in Packets, Read(c, p) PROVE Waiting'
    BY <2>2, <1>2, <1>3, <1>4, WaitingRead
  <2>. QED BY <2>1, <2>2
<1>8. Behind(D)'
  <2>1. \A d \in Chans : \A r \in Nat :
          /\ Here(d, r)' => Here(d, r)
          /\ Here(d, r) => Here(d, r)' \/ Justified(r)
    BY <1>5, HereKept
  <2>2. \A r \in Nat : Justified(r) => Justified(r)'
    BY JustifiedStays
  <2>. QED BY <2>1, <2>2, <1>1, <1>2, <1>4 DEF Behind
<1>9. Past(D)'
  <2>1. CASE call'.st = "get"
    <3>1. infos'[Slot(3)'] = infos[Slot(3)]
      BY <2>1 DEF Read, Misses
    <3>. QED BY <2>1, <3>1, <1>1, <1>4 DEF Past, PastInfo
  <2>2. CASE call'.st = "copy" /\ infos'[Slot(0)'].ch = infos[Slot(1)].ch
    <3>1. Fresh(infos[Slot(1)])
      BY <1>1 DEF IInv, Ring
    <3>2. \A d \in Chans : infos'[Slot(0)'].ch[d].time <= 0
      BY <3>1, <2>2 DEF Fresh
    <3>. QED BY <3>2, <2>2 DEF Past, PastInfo
  <2>3. \/ call'.st = "get"
        \/ call'.st = "copy" /\ infos'[Slot(0)'].ch = infos[Slot(1)].ch
    BY DEF Read, Misses
  <2>. QED BY <2>1, <2>2, <2>3
<1>. QED BY <1>6, <1>7, <1>8, <1>9

\* Nothing was read or sent, and the set is the same.
LEMMA DropsCarried ==
  ASSUME IInv, Settled, Carries, dropped' = dropped, setAt > MaxPos, Drops, NEW D \in Int,
         Behind(D), Past(D)'
  PROVE  Drops'
<1>1. pos' = pos /\ arrived' = arrived /\ sock' = sock /\ Work'.ch = Work.ch /\ Work'.todo = Work.todo
  BY DEF Settled, fpgaVars, Carries
<1>2. \A r : Justified(r)' <=> Justified(r)
  BY <1>1 DEF Justified
<1>3. \A d, r, b : Has(d, r, b)' <=> Has(d, r, b)
  BY <1>1 DEF Has, HeldData, IsData
<1>4. \A d, r : Here(d, r)' <=> Here(d, r)
  BY <1>3 DEF Here
<1>5. Behind(D)'
  BY <1>1, <1>2, <1>4 DEF Behind
<1>6. Waiting'
  BY <1>1 DEF Drops, Waiting, HeldData
<1>. QED BY <1>2, <1>5, <1>6 DEF Drops

\* A set was delivered to its end.
LEMMA DropsRenewed ==
  ASSUME IInv, LastRead, Settled, Complete(Work), Fresh(Work'), dropped' = dropped,
         setAt > MaxPos, Drops,
         \A c \in Chans : PastInfo'.ch[c].time = Work.ch[c].time
  PROVE  Drops'
<1>1. pos' = pos /\ arrived' = arrived /\ sock' = sock
  BY DEF Settled, fpgaVars
<1>2. \A r : Justified(r)' <=> Justified(r)
  BY <1>1 DEF Justified
<1>3. PICK D \in Int : Behind(D)
  BY DEF Drops
<1>4. PICK E \in Int : E = Work.ch[0].pos
  BY HeldPlaced, ChansNat DEF Complete
<1>5. ASSUME NEW c \in Chans
      PROVE  /\ Work.ch[c].pos = E /\ E < pos[c] /\ HeldData(Work.ch[c]) /\ Here(c, E)
             /\ Work.ch[c].time = E * SPP + Back + 1 /\ E \in Nat
  <2>1. ~Ambiguous
    BY SizesAssumption, BoundAssumption DEF Ambiguous, IInv, FpgaTypes
  <2>2. HeldData(Work.ch[c]) /\ HeldData(Work.ch[0]) /\ Work.ch[c].time = Work.ch[0].time
    BY ChansNat DEF Complete
  <2>3. Placed(c, Work.ch[c]) /\ Placed(0, Work.ch[0]) /\ FpgaTypes
    BY <2>2, ChansNat, HeldPlaced DEF IInv
  <2>4. Work.ch[c].pos = E
    BY <2>1, <2>2, <2>3, <1>4, ChansNat, TimeToPlace
  <2>5. /\ Work.ch[c].pos \in Nat /\ Work.ch[c].pos < pos[c] /\ Here(c, Work.ch[c].pos)
        /\ Work.ch[c].time = Work.ch[c].pos * SPP + Back + 1
    BY <2>2, HeldPlaced
  <2>. QED BY <2>2, <2>4, <2>5
<1>6. D < E /\ E \in Nat
  BY <1>3, <1>5, ChansNat DEF Behind
<1>7. ASSUME NEW c \in Chans, NEW r \in Nat
      PROVE  Here(c, r)' <=> Here(c, r) /\ r # E
  <2>1. ~HeldData(Work'.ch[c])
    BY DEF Fresh, HeldData
  <2>2. ASSUME NEW i \in 1 .. Len(sock[c]), IsData(sock[c][i]), sock[c][i].pos = r PROVE r # E
    <3>1. E < r
      BY <2>2, <1>5, SocketBehind
    <3>. QED BY <3>1
  <2>3. \A b : Has(c, r, b)' <=> Has(c, r, b) /\ r # E
    BY <2>1, <2>2, <1>1, <1>5 DEF Has
  <2>. QED BY <2>3 DEF Here
<1>8. ASSUME NEW c \in Chans, NEW r \in Nat, Here(c, r)' PROVE r > E
  <2>1. PICK b \in Nat : Has(c, r, b)'
    BY <1>8 DEF Here
  <2>2. ~HeldData(Work'.ch[c])
    BY DEF Fresh, HeldData
  <2>3. PICK i \in 1 .. Len(sock[c]) : IsData(sock[c][i]) /\ sock[c][i].pos = r
    BY <2>1, <2>2, <1>1 DEF Has
  <2>4. E < r
    BY <2>3, <1>5, SocketBehind
  <2>. QED BY <2>4, <1>6
<1>9. Behind(E)'
  <2>1. ASSUME NEW c \in Chans, NEW r \in Nat, r > E, <<c, r>> \in arrived'
        PROVE  Here(c, r)' \/ Justified(r)'
    <3>1. r > D /\ r # E
      BY <2>1, <1>6
    <3>2. Here(c, r) \/ Justified(r)
      BY <3>1, <2>1, <1>1, <1>3 DEF Behind
    <3>. QED BY <3>1, <3>2, <1>2, <1>7
  <2>. QED BY <2>1, <1>1, <1>5, <1>8 DEF Behind
<1>10. Waiting'
  BY DEF Waiting, Fresh, HeldData
<1>11. Past(E)'
  <2>1. \A c \in Chans : PastInfo'.ch[c].time = E * SPP + Back + 1
    BY <1>5
  <2>2. E * SPP + Back + 1 <= E * SPP + Back + 1
    BY <1>6, SizesAssumption
  <2>. QED BY <2>1, <2>2 DEF Past
<1>. QED BY <1>2, <1>9, <1>10, <1>11 DEF Drops

LEMMA DropsCopy ==
  ASSUME IInv, LastRead, Drops, Copy
  PROVE  Drops'
<1>. SUFFICES ASSUME setAt' > MaxPos PROVE Drops'
  BY DEF Drops
<1>1. Settled /\ dropped' = dropped /\ call.st = "copy"
  BY DEF Copy, Settled, sockVars
<1>2. setAt > MaxPos
  BY <1>1 DEF Settled, fpgaVars
<1>3. PICK D \in Int : Behind(D) /\ Past(D)
  BY <1>2 DEF Drops
<1>. DEFINE i == infos[Slot(0)]
<1>4. PICK n \in Nat, u \in Infos :
        /\ u.left = i.left - n
        /\ \A c \in Chans : u.ch[c].time = i.ch[c].time
        /\ u.left > 0 => u.ch = i.ch /\ u.todo = i.todo
        /\ i.left > 0 <=> n > 0
        /\ n = 0 => call'.st = "idle"
        /\ \/ /\ call'.st \in {"idle", "copy"} /\ infos'[Slot(0)'] = u
              /\ infos'[Slot(1)'] = infos[Slot(1)]
              /\ call'.st = "copy" => u.left > 0
           \/ /\ call'.st = "get" /\ infos'[Slot(0)'] = infos[Slot(1)]
              /\ infos'[Slot(3)'] = u /\ u.left = 0
  BY Copies
<1>5. u.left \in Nat /\ i.left \in Nat
  BY Slots DEF Infos, IInv, HostTypes
<1>6. i.left > 0 => Complete(i) /\ Fresh(infos[Slot(1)])
  BY <1>1 DEF IInv, Ring
<1>7. Work = IF i.left > 0 THEN i ELSE infos[Slot(1)]
  BY <1>1 DEF Work
<1>8. CASE n = 0
  <2>1. u.left = 0 /\ ~(i.left > 0) /\ i.left = 0
    BY <1>4, <1>5, <1>8
  <2>2. Work' = infos[Slot(1)]
    BY <2>1, <1>4, <1>8 DEF Work
  <2>3. Carries
    BY <2>1, <2>2, <1>7 DEF Carries
  <2>4. PastInfo' = u /\ PastInfo = i
    BY <1>1, <1>4, <1>8 DEF PastInfo
  <2>5. Past(D)'
    BY <2>1, <2>4, <1>3, <1>4 DEF Past
  <2>. QED BY <2>3, <2>5, <1>1, <1>2, <1>3, DropsCarried
<1>9. CASE n > 0 /\ u.left > 0
  <2>1. Work' = u /\ Work = i
    BY <1>4, <1>7, <1>9 DEF Work
  <2>2. Carries
    BY <2>1, <1>4, <1>9 DEF Carries
  <2>3. call'.st # "get" /\ infos'[Slot(0)'].left # 0
    BY <1>4, <1>5, <1>9
  <2>4. Past(D)'
    BY <2>3 DEF Past
  <2>. QED BY <2>2, <2>4, <1>1, <1>2, <1>3, DropsCarried
<1>10. CASE n > 0 /\ u.left = 0
  <2>1. Work' = infos[Slot(1)] /\ Work = i
    BY <1>4, <1>7, <1>10 DEF Work
  <2>2. Complete(Work) /\ Fresh(Work')
    BY <2>1, <1>4, <1>6, <1>10
  <2>3. PastInfo' = u
    BY <1>4, <1>10 DEF PastInfo
  <2>4. \A c \in Chans : PastInfo'.ch[c].time = Work.ch[c].time
    BY <2>1, <2>3, <1>4
  <2>. QED BY <2>2, <2>4, <1>1, <1>2, DropsRenewed
<1>. QED BY <1>4, <1>5, <1>8, <1>9, <1>10

LEMMA DropsDevice ==
  ASSUME IInv, Drops, [Next]_vars, DeviceStep, FpgaTypes', Work' = Work
  PROVE  Drops'
<1>. SUFFICES ASSUME setAt' > MaxPos PROVE Drops'
  BY DEF Drops
<1>0. setAt \in Int /\ setAt' \in Int /\ MaxPos \in Nat
  BY BoundAssumption DEF IInv, FpgaTypes
<1>1. setAt > MaxPos /\ dropped' = dropped /\ infos' = infos /\ idx' = idx /\ call' = call
  BY <1>0 DEF DeviceStep, histVars, hostVars
<1>2. PICK D \in Int : Behind(D) /\ Past(D)
  BY <1>1 DEF Drops
<1>3. Past(D)'
  <2>1. Slot(0)' = Slot(0) /\ Slot(3)' = Slot(3)
    BY <1>1, Slots DEF IInv, HostTypes
  <2>. QED BY <2>1, <1>1, <1>2 DEF Past, PastInfo
<1>4. Waiting'
  BY <1>1 DEF Drops, Waiting, HeldData
<1>5. \A r \in Nat : Justified(r) => Justified(r)'
  BY JustifiedStays
<1>6. \A d \in dropped' : d[2] \in Nat /\ Justified(d[2])'
  <2>. SUFFICES ASSUME NEW d \in dropped PROVE d[2] \in Nat /\ Justified(d[2])'
    BY <1>1
  <2>1. PICK r \in Nat : r = d[2] /\ Justified(r)
    BY <1>1 DEF Drops
  <2>2. PICK e \in Chans : r < pos'[e] /\ <<e, r>> \notin arrived'
    BY <2>1, <1>5 DEF Justified
  <2>. QED BY <2>1, <2>2 DEF Justified
<1>7. ASSUME NEW c \in Chans
      PROVE  /\ pos[c] \in Nat /\ pos'[c] \in Nat /\ pos[c] <= pos'[c] /\ D < pos[c]
             /\ Grows(c) /\ Len(sock[c]) \in Nat /\ Len(sock'[c]) \in Nat
  <2>1. pos[c] \in Nat /\ pos'[c] \in Nat
    BY BoundAssumption DEF IInv, FpgaTypes
  <2>2. Grows(c) /\ (Stays(c) \/ Moves(c) \/ Stops(c) \/ Starts(c))
    BY DEF DeviceStep
  <2>3. pos[c] <= pos'[c]
    BY <2>1, <2>2 DEF Stays, Moves, Stops, Starts
  <2>4. sock[c] \in Seq(Packets) /\ sock'[c] \in Seq(Packets)
    BY <2>2 DEF IInv, SockTypes, Grows
  <2>5. Len(sock[c]) \in Nat /\ Len(sock'[c]) \in Nat
    BY <2>4
  <2>. QED BY <2>1, <2>2, <2>3, <2>5, <1>2 DEF Behind
<1>8. ASSUME NEW c \in Chans, NEW r \in Nat, Here(c, r) PROVE Here(c, r)'
  <2>1. PICK b \in Nat : Has(c, r, b)
    BY <1>8 DEF Here
  <2>2. Has(c, r, b)'
    <3>1. ASSUME NEW i \in 1 .. Len(sock[c]) PROVE i \in 1 .. Len(sock'[c]) /\ sock'[c][i] = sock[c][i]
      BY <1>7 DEF Grows
    <3>. QED BY <3>1, <2>1 DEF Has
  <2>. QED BY <2>2 DEF Here
<1>9. ASSUME NEW c \in Chans, NEW r \in Nat, Here(c, r)' PROVE r > D
  <2>1. PICK b \in Nat : Has(c, r, b)'
    BY <1>9 DEF Here
  <2>2. Has(c, r, b) \/ r = pos[c]
    BY <2>1, DeviceHas
  <2>. QED BY <2>2, <1>2, <1>7 DEF Behind, Here
<1>10. ASSUME NEW c \in Chans, NEW r \in Nat, r > D, <<c, r>> \in arrived'
       PROVE  Here(c, r)' \/ Justified(r)'
  <2>1. CASE <<c, r>> \in arrived
    <3>1. Here(c, r) \/ Justified(r)
      BY <2>1, <1>2, <1>10 DEF Behind
    <3>. QED BY <3>1, <1>5, <1>8
  <2>2. CASE /\ r = pos[c] /\ Len(sock[c]) < Len(sock'[c])
             /\ sock'[c][Len(sock[c]) + 1].kind = "data"
    <3>. DEFINE i == Len(sock[c]) + 1
    <3>1. i \in 1 .. Len(sock'[c]) /\ i \in Len(sock[c]) + 1 .. Len(sock'[c])
      BY <2>2, <1>7
    <3>2. IsData(sock'[c][i]) /\ sock'[c][i].pos = r /\ sock'[c][i].burst = burst
      BY <3>1, <2>2, <1>7 DEF Grows, IsData
    <3>3. Here(c, r)'
      <4>1. PICK b \in Nat : b = burst
        BY DEF IInv, FpgaTypes
      <4>2. sock'[c][i].burst = b
        BY <4>1, <3>2
      <4>3. Has(c, r, b)'
        BY <3>1, <3>2, <4>2 DEF Has
      <4>. QED BY <4>3 DEF Here
    <3>. QED BY <3>3
  <2>. QED BY <2>1, <2>2, <1>10 DEF DeviceStep
<1>11. Behind(D)'
  <2>1. \A c \in Chans : D < pos'[c]
    BY <1>7
  <2>. QED BY <2>1, <1>9, <1>10 DEF Behind
<1>. QED BY <1>3, <1>4, <1>6, <1>11 DEF Drops

\* The set and the sockets at the start.
LEMMA InitWork ==
  ASSUME Init, NEW c \in Chans
  PROVE  /\ Work.todo = Chans /\ ~HeldData(Work.ch[c]) /\ sock[c] \in Seq(Packets) /\ Len(sock[c]) = 0
         /\ infos[Slot(0)].ch[c].time = 0 /\ infos[Slot(0)].left = 0
<1>1. IInv
  BY InitIInv
<1>2. Slot(0) \in 0 .. 3 /\ Slot(1) \in 0 .. 3
  BY <1>1, Slots DEF IInv, HostTypes
<1>3. infos = [k \in 0 .. 3 |-> EmptyInfo]
  BY DEF Init
<1>4. Work = EmptyInfo /\ infos[Slot(0)] = EmptyInfo
  BY <1>2, <1>3 DEF Work
<1>5. sock[c] \in Seq(Packets) /\ sock[c] = <<>>
  BY <1>1 DEF Init, IInv, SockTypes
<1>6. Len(sock[c]) = 0
  BY <1>5
<1>. QED BY <1>4, <1>5, <1>6, EmptyInfoType DEF Fresh, HeldData

LEMMA InitDrops == Init => Drops
<1>. SUFFICES ASSUME Init PROVE Drops
  OBVIOUS
<1>1. \A c \in Chans : \A r, b : ~Has(c, r, b)
  BY InitWork DEF Has
<1>2. Waiting
  <2>1. Work.todo = Chans
    BY InitWork, ChansNat
  <2>2. \A c \in Chans : ~HeldData(Work.ch[c])
    BY InitWork
  <2>. QED BY <2>1, <2>2 DEF Waiting
<1>3. Behind(-1)
  <2>1. arrived = {} /\ \A c \in Chans : -1 < pos[c]
    BY DEF Init
  <2>. QED BY <2>1, <1>1 DEF Behind, Here
<1>4. Past(-1)
  <2>1. call.st = "idle"
    BY DEF Init, Idle
  <2>2. PastInfo = infos[Slot(0)]
    BY <2>1 DEF PastInfo
  <2>3. \A c \in Chans : PastInfo.ch[c].time <= 0
    BY <2>2, InitWork
  <2>. QED BY <2>3 DEF Past
<1>5. dropped = {} /\ -1 \in Int
  BY DEF Init
<1>. QED BY <1>2, <1>3, <1>4, <1>5 DEF Drops

LEMMA NextDrops == IInv /\ LastRead /\ Drops /\ [Next]_vars => Drops'
<1>. SUFFICES ASSUME IInv, LastRead, Drops, [Next]_vars PROVE Drops'
  OBVIOUS
<1>1. CASE DeviceStep /\ FpgaTypes' /\ Work' = Work
  BY <1>1, DropsDevice
<1>2. ASSUME NEW c \in Chans, NEW p \in Packets, Read(c, p) PROVE Drops'
  BY <1>2, DropsRead
<1>3. ASSUME NEW c \in Chans, Misses(c) PROVE Drops'
  BY <1>3, DropsRead
<1>4. CASE Copy
  BY <1>4, DropsCopy
<1>5. CASE Aligned
  <2>. SUFFICES ASSUME setAt' > MaxPos PROVE Drops'
    BY DEF Drops
  <2>1. /\ Settled /\ dropped' = dropped /\ Carries /\ call'.st = "copy"
        /\ infos'[Slot(0)'].left > 0 /\ infos'[Slot(0)'].left \in Nat
    BY <1>5, Completes DEF Carries, Same, Infos
  <2>2. setAt > MaxPos
    BY <2>1 DEF Settled, fpgaVars
  <2>3. PICK D \in Int : Behind(D)
    BY <2>2 DEF Drops
  <2>4. call'.st # "get" /\ infos'[Slot(0)'].left # 0
    BY <2>1
  <2>5. Past(D)'
    BY <2>4 DEF Past
  <2>. QED BY <2>1, <2>2, <2>3, <2>5, DropsCarried
<1>6. ASSUME NEW n \in Wants, NEW one \in BOOLEAN, RecvBegin(n, one) PROVE Drops'
  <2>. SUFFICES ASSUME setAt' > MaxPos PROVE Drops'
    BY DEF Drops
  <2>1. /\ Settled /\ dropped' = dropped /\ Work' = Work /\ call.st = "idle"
        /\ \/ call'.st = "idle" /\ infos'[Slot(0)'] = infos[Slot(0)]
           \/ /\ call'.st = "copy" /\ infos'[Slot(0)'] = infos[Slot(0)]
              /\ infos[Slot(0)].left > 0
           \/ /\ call'.st = "get" /\ infos'[Slot(3)'] = infos[Slot(0)]
              /\ infos[Slot(0)].left = 0
    BY <1>6, Begins
  <2>2. setAt > MaxPos /\ Carries
    BY <2>1 DEF Settled, fpgaVars, Carries
  <2>3. PICK D \in Int : Behind(D) /\ Past(D)
    BY <2>2 DEF Drops
  <2>4. Past(D)'
    <3>1. PastInfo = infos[Slot(0)] /\ PastInfo' = infos[Slot(0)]
      BY <2>1 DEF PastInfo
    <3>2. (call'.st = "get" \/ infos'[Slot(0)'].left = 0) => infos[Slot(0)].left = 0
      BY <2>1
    <3>. QED BY <3>1, <3>2, <2>3 DEF Past
  <2>. QED BY <2>1, <2>2, <2>3, <2>4, DropsCarried
<1>. QED BY <1>1, <1>2, <1>3, <1>4, <1>5, <1>6, HostKinds

-----------------------------------------------------------------------------
(* The clock alone.                                                        *)

\* Nothing went wrong but that the clock was set: the channels are in step, and
\* no packet is thrown away.
Perfect == faults = 0 \/ (faults = 1 /\ setAt <= MaxPos)
InPlace(c, n) ==
  LET h == IF HeldData(Work.ch[c]) THEN n + 1 ELSE n
  IN /\ HeldData(Work.ch[c]) => Work.ch[c].pos = n
     /\ HeldData(Work.ch[c]) <=> c \notin Work.todo
     /\ pos[c] = h + Len(sock[c])
     /\ \A i \in 1 .. Len(sock[c]) : IsData(sock[c][i]) /\ sock[c][i].pos = h + i - 1
InStep ==
  /\ setAt <= MaxPos => faults >= 1
  /\ Perfect => dropped = {} /\ \E n \in Nat : \A c \in Chans : InPlace(c, n)

LEMMA InitStep == Init => InStep
<1>. SUFFICES ASSUME Init PROVE InStep
  OBVIOUS
<1>1. setAt = MaxPos + 1 /\ dropped = {} /\ \A c \in Chans : pos[c] = 0
  BY DEF Init
<1>2. ~(setAt <= MaxPos)
  BY <1>1, BoundAssumption
<1>3. ASSUME NEW c \in Chans PROVE InPlace(c, 0)
  <2>1. Work.todo = Chans /\ ~HeldData(Work.ch[c]) /\ Len(sock[c]) = 0
    BY InitWork
  <2>2. pos[c] = 0 + Len(sock[c]) /\ \A i \in 1 .. Len(sock[c]) : FALSE
    BY <2>1, <1>1
  <2>. QED BY <2>1, <2>2 DEF InPlace
<1>. QED BY <1>1, <1>2, <1>3 DEF InStep

LEMMA StepDevice ==
  ASSUME IInv, InStep, DeviceStep, FpgaTypes', Bounded', Work' = Work
  PROVE  InStep'
<1>0. faults \in Nat /\ faults' \in Nat /\ setAt \in Int /\ setAt' \in Int /\ MaxPos \in Nat
  BY BoundAssumption DEF IInv, Bounded, FpgaTypes
<1>1. /\ faults' >= faults /\ dropped' = dropped
      /\ setAt' = setAt \/ (setAt > MaxPos /\ faults' > faults /\ \A c \in Chans :
                              sock'[c] = sock[c] /\ Stays(c))
      /\ faults' = faults => \A c \in Chans :
           (sock'[c] = sock[c] /\ Stays(c)) \/ (Moves(c) /\ Arrives(c))
  BY DEF DeviceStep, histVars
<1>2. setAt' <= MaxPos => faults' >= 1
  BY <1>0, <1>1 DEF InStep
<1>3. ASSUME Perfect'
      PROVE  /\ Perfect
             /\ \A c \in Chans : (sock'[c] = sock[c] /\ Stays(c)) \/ (Moves(c) /\ Arrives(c))
  BY <1>0, <1>1, <1>3 DEF Perfect, InStep
<1>4. ASSUME Perfect' PROVE \E n \in Nat : \A c \in Chans : InPlace(c, n)'
  <2>1. PICK n \in Nat : \A c \in Chans : InPlace(c, n)
    BY <1>3, <1>4 DEF InStep
  <2>2. ASSUME NEW c \in Chans PROVE InPlace(c, n)'
    <3>. DEFINE k == IF HeldData(Work.ch[c]) THEN n + 1 ELSE n
    <3>1. PICK h \in Nat : h = k
      OBVIOUS
    <3>2. /\ HeldData(Work.ch[c]) => Work.ch[c].pos = n
          /\ HeldData(Work.ch[c]) <=> c \notin Work.todo
          /\ pos[c] = h + Len(sock[c])
          /\ \A i \in 1 .. Len(sock[c]) : IsData(sock[c][i]) /\ sock[c][i].pos = h + i - 1
      BY <2>1, <3>1 DEF InPlace
    <3>3. Grows(c) /\ Len(sock[c]) \in Nat
      BY DEF DeviceStep, IInv, SockTypes
    <3>4. /\ pos'[c] = h + Len(sock'[c])
          /\ \A i \in 1 .. Len(sock'[c]) : IsData(sock'[c][i]) /\ sock'[c][i].pos = h + i - 1
      <4>1. CASE sock'[c] = sock[c] /\ Stays(c)
        BY <4>1, <3>2 DEF Stays
      <4>2. CASE Moves(c) /\ Arrives(c)
        <5>1. pos'[c] = pos[c] + 1 /\ Len(sock'[c]) = Len(sock[c]) + 1
          BY <4>2 DEF Moves, Arrives
        <5>2. pos'[c] = h + Len(sock'[c])
          BY <5>1, <3>2, <3>3
        <5>3. ASSUME NEW i \in 1 .. Len(sock'[c]), i # Len(sock[c]) + 1
              PROVE  IsData(sock'[c][i]) /\ sock'[c][i].pos = h + i - 1
          <6>1. i \in 1 .. Len(sock[c])
            BY <5>1, <5>3, <3>3
          <6>. QED BY <6>1, <3>2, <3>3 DEF Grows
        <5>4. ASSUME NEW i \in Nat, i = Len(sock[c]) + 1
              PROVE  IsData(sock'[c][i]) /\ sock'[c][i].pos = h + i - 1
          <6>1. i \in Len(sock[c]) + 1 .. Len(sock'[c])
            BY <5>1, <5>4, <3>3
          <6>2. IsData(sock'[c][i])
            BY <5>4, <4>2 DEF Arrives, IsData
          <6>3. sock'[c][i].pos = pos[c]
            BY <6>1, <6>2, <3>3 DEF Grows, IsData
          <6>. QED BY <6>2, <6>3, <5>4, <3>2, <3>3
        <5>5. \A i \in 1 .. Len(sock'[c]) : i \in Nat
          BY <5>1, <3>3
        <5>6. \A i \in 1 .. Len(sock'[c]) : IsData(sock'[c][i]) /\ sock'[c][i].pos = h + i - 1
          BY <5>3, <5>4, <5>5
        <5>. QED BY <5>2, <5>6
      <4>. QED BY <4>1, <4>2, <1>3, <1>4
    <3>. QED BY <3>1, <3>2, <3>4 DEF InPlace, HeldData
  <2>. QED BY <2>2
<1>5. Perfect' => dropped' = {}
  BY <1>1, <1>3 DEF InStep
<1>. QED BY <1>2, <1>4, <1>5 DEF InStep

LEMMA StepRead ==
  ASSUME IInv, InStep, NEW c \in Chans, NEW p \in Packets, Read(c, p)
  PROVE  InStep'
<1>1. /\ UNCHANGED fpgaVars /\ faults' = faults /\ c \in Work.todo /\ call.st = "get"
      /\ sock[c] # <<>> /\ p = sock[c][1] /\ sock' = [sock EXCEPT ![c] = Tail(@)]
      /\ dropped' = dropped \cup (IF HeldData(Work.ch[c]) THEN {<<c, Work.ch[c].pos>>} ELSE {})
      /\ \A d \in Chans : d # c => Work'.ch[d] = Work.ch[d]
  BY DEF Read, Puts, Gives
<1>2. setAt' = setAt /\ pos' = pos /\ (Perfect' <=> Perfect)
  BY <1>1 DEF fpgaVars, Perfect
<1>. SUFFICES ASSUME Perfect PROVE dropped' = {} /\ \E n \in Nat : \A d \in Chans : InPlace(d, n)'
  BY <1>1, <1>2 DEF InStep
<1>3. PICK n \in Nat : \A d \in Chans : InPlace(d, n)
  BY DEF InStep
<1>4. /\ Len(sock[c]) \in Nat \ {0} /\ Len(sock'[c]) = Len(sock[c]) - 1
      /\ \A i \in 1 .. Len(sock'[c]) : i + 1 \in 1 .. Len(sock[c]) /\ sock'[c][i] = sock[c][i + 1]
      /\ \A d \in Chans : d # c => sock'[d] = sock[d]
  BY <1>1, SocketTail DEF IInv, SockTypes
<1>5. /\ ~HeldData(Work.ch[c]) /\ pos[c] = n + Len(sock[c])
      /\ \A i \in 1 .. Len(sock[c]) : IsData(sock[c][i]) /\ sock[c][i].pos = n + i - 1
  BY <1>1, <1>3 DEF InPlace
<1>6. dropped' = {}
  BY <1>1, <1>5 DEF InStep
<1>7. IsData(p) /\ p.pos = n /\ 1 \in 1 .. Len(sock[c])
  <2>1. 1 \in 1 .. Len(sock[c])
    BY <1>4
  <2>2. IsData(p) /\ p.pos = n + 1 - 1
    BY <2>1, <1>1, <1>5
  <2>. QED BY <2>1, <2>2
<1>8. Placed(c, p)
  BY <1>1, <1>7 DEF IInv, SockDated, IsData
<1>9. Collecting(Work) /\ Work \in Infos
  BY <1>1, WorkState
<1>10. ASSUME NEW d \in Chans, d \notin Work.todo PROVE Work.time = p.time
  <2>1. HeldData(Work.ch[d]) /\ Work.ch[d].pos = n /\ Work.ch[d].time = Work.time
    BY <1>3, <1>9, <1>10 DEF InPlace, Collecting
  <2>2. Placed(d, Work.ch[d])
    BY <2>1, HeldPlaced
  <2>. QED BY <2>1, <2>2, <1>7, <1>8 DEF Placed, Sent
<1>11. Work.valid => Work.time = p.time
  BY <1>9, <1>10 DEF Collecting
<1>12. ~Work.valid => Work.todo = Chans
  BY <1>9 DEF Collecting
<1>13. /\ HeldData(Work'.ch[c]) /\ Work'.ch[c].pos = n /\ Aligns(Work, Work', c, p)
  BY <1>7 DEF Read, Puts, HeldData, IsData
<1>14. p.time \in Int /\ Work.time \in Int /\ Work.todo \subseteq Chans
  BY <1>9 DEF Packets, Infos
<1>15. Work'.todo = Work.todo \ {c}
  <2>1. CASE Work.valid
    <3>1. ~(p.time > Work.time) /\ ~(p.time < Work.time) /\ ~(p.time # Work.time)
      BY <2>1, <1>11, <1>14
    <3>. QED BY <3>1, <2>1, <1>13 DEF Aligns, Newest, Equal, Older
  <2>2. CASE ~Work.valid
    BY <2>2, <1>12, <1>13 DEF Aligns, Newest, Equal, Older
  <2>. QED BY <2>1, <2>2
<1>16. InPlace(c, n)'
  <2>1. pos'[c] = n + 1 + Len(sock'[c])
    BY <1>2, <1>4, <1>5
  <2>2. ASSUME NEW i \in 1 .. Len(sock'[c])
        PROVE  IsData(sock'[c][i]) /\ sock'[c][i].pos = n + 1 + i - 1
    <3>1. i + 1 \in 1 .. Len(sock[c]) /\ sock'[c][i] = sock[c][i + 1] /\ i \in Int
      BY <1>4
    <3>2. IsData(sock'[c][i]) /\ sock'[c][i].pos = n + (i + 1) - 1
      BY <3>1, <1>5
    <3>. QED BY <3>1, <3>2
  <2>3. c \notin Work'.todo
    BY <1>15
  <2>. QED BY <2>1, <2>2, <2>3, <1>13 DEF InPlace
<1>17. ASSUME NEW d \in Chans, d # c PROVE InPlace(d, n)'
  <2>1. /\ Work'.ch[d] = Work.ch[d] /\ sock'[d] = sock[d] /\ pos'[d] = pos[d]
        /\ (d \in Work'.todo <=> d \in Work.todo)
    BY <1>1, <1>2, <1>4, <1>15, <1>17
  <2>2. InPlace(d, n)
    BY <1>3
  <2>. QED BY <2>1, <2>2 DEF InPlace
<1>. QED BY <1>6, <1>16, <1>17

LEMMA NextStep == IInv /\ IInv' /\ InStep /\ [Next]_vars => InStep'
<1>. SUFFICES ASSUME IInv, IInv', InStep, [Next]_vars PROVE InStep'
  OBVIOUS
<1>1. CASE DeviceStep /\ FpgaTypes' /\ Work' = Work
  <2>1. Bounded'
    BY DEF IInv
  <2>. QED BY <2>1, <1>1, StepDevice
<1>2. ASSUME NEW c \in Chans, NEW p \in Packets, Read(c, p) PROVE InStep'
  BY <1>2, StepRead
<1>3. ASSUME Settled, NEW n \in Nat, NEW m \in Nat,
             \A d \in Chans : InPlace(d, n),
             \A d \in Chans :
               \/ /\ m = n /\ (d \in Work'.todo <=> d \in Work.todo)
                  /\ \/ Work'.ch[d] = Work.ch[d]
                     \/ ~HeldData(Work'.ch[d]) /\ ~HeldData(Work.ch[d])
               \/ m = n + 1 /\ d \notin Work.todo /\ d \in Work'.todo /\ ~HeldData(Work'.ch[d])
      PROVE  \A d \in Chans : InPlace(d, m)'
  <2>. SUFFICES ASSUME NEW d \in Chans PROVE InPlace(d, m)'
    OBVIOUS
  <2>1. pos' = pos /\ sock' = sock
    BY <1>3 DEF Settled, fpgaVars
  <2>2. InPlace(d, n)
    BY <1>3
  <2>3. CASE /\ m = n /\ (d \in Work'.todo <=> d \in Work.todo)
             /\ \/ Work'.ch[d] = Work.ch[d]
                \/ ~HeldData(Work'.ch[d]) /\ ~HeldData(Work.ch[d])
    BY <2>1, <2>2, <2>3 DEF InPlace
  <2>4. CASE m = n + 1 /\ d \notin Work.todo /\ d \in Work'.todo /\ ~HeldData(Work'.ch[d])
    BY <2>1, <2>2, <2>4 DEF InPlace
  <2>. QED BY <2>3, <2>4, <1>3
<1>4. ASSUME Settled PROVE setAt' = setAt /\ faults' = faults /\ (Perfect' <=> Perfect)
  BY <1>4 DEF Settled, fpgaVars, Perfect
<1>5. ASSUME NEW c \in Chans, Misses(c) PROVE InStep'
  <2>1. /\ Settled /\ c \in Work.todo /\ Work'.todo = Work.todo /\ ~HeldData(Work'.ch[c])
        /\ \A d \in Chans : d # c => Work'.ch[d] = Work.ch[d]
        /\ dropped' = dropped \cup (IF HeldData(Work.ch[c]) THEN {<<c, Work.ch[c].pos>>} ELSE {})
    BY <1>5 DEF Misses, Same, Gives, HeldData
  <2>. SUFFICES ASSUME Perfect
                PROVE  dropped' = {} /\ \E n \in Nat : \A d \in Chans : InPlace(d, n)'
    BY <2>1, <1>4 DEF InStep
  <2>2. PICK n \in Nat : \A d \in Chans : InPlace(d, n)
    BY DEF InStep
  <2>3. ~HeldData(Work.ch[c])
    BY <2>1, <2>2 DEF InPlace
  <2>4. dropped' = {}
    BY <2>1, <2>3 DEF InStep
  <2>5. \A d \in Chans : InPlace(d, n)'
    BY <2>1, <2>2, <2>3, <1>3
  <2>. QED BY <2>4, <2>5
<1>6. CASE Settled /\ dropped' = dropped /\ (Carries \/ Renews)
  <2>. SUFFICES ASSUME Perfect
                PROVE  dropped' = {} /\ \E n \in Nat : \A d \in Chans : InPlace(d, n)'
    BY <1>4, <1>6 DEF InStep
  <2>1. PICK n \in Nat : \A d \in Chans : InPlace(d, n)
    BY DEF InStep
  <2>2. dropped' = {}
    BY <1>6 DEF InStep
  <2>3. CASE Carries
    <3>1. \A d \in Chans : InPlace(d, n)'
      BY <2>1, <2>3, <1>3, <1>6 DEF Carries
    <3>. QED BY <3>1, <2>2
  <2>4. CASE Renews
    <3>1. n + 1 \in Nat
      OBVIOUS
    <3>2. \A d \in Chans : d \notin Work.todo /\ d \in Work'.todo /\ ~HeldData(Work'.ch[d])
      BY <2>4 DEF Renews, Fresh, HeldData
    <3>3. \A d \in Chans : InPlace(d, n + 1)'
      BY <3>1, <3>2, <2>1, <1>3, <1>6
    <3>. QED BY <3>1, <3>3, <2>2
  <2>. QED BY <2>3, <2>4, <1>6
<1>. QED BY <1>1, <1>2, <1>5, <1>6, HostKinds

\* The alignment throws a packet away only if a packet of another channel for the
\* same place never came: what is lost or cut short on one channel costs the
\* others its counterpart and nothing else, and setting the clock back alone
\* costs nothing.
THEOREM DropsJustified == Spec => []DropJustified
<1>. DEFINE Inv == LastRead /\ Drops /\ InStep
<1>1. Init => Inv
  BY InitLast, InitDrops, InitStep
<1>2. IInv /\ IInv' /\ Inv /\ [Next]_vars => Inv'
  BY NextLast, NextDrops, NextStep
<1>3. Spec => []Inv
  <2>. HIDE DEF Inv
  <2>. QED BY <1>1, <1>2, RecvInvariant, PTL DEF Spec
<1>4. IInv /\ Inv => DropJustified
  <2>. SUFFICES ASSUME IInv, Drops, InStep, NEW d \in dropped
                PROVE  \/ \E c \in Chans : <<c, d[2]>> \notin arrived
                       \/ setAt <= MaxPos /\ faults > 1
    BY DEF DropJustified
  <2>0. setAt \in Int /\ MaxPos \in Nat /\ faults \in Nat
    BY BoundAssumption DEF IInv, FpgaTypes, Bounded
  <2>1. CASE setAt > MaxPos
    BY <2>1 DEF Drops, Justified
  <2>2. CASE setAt <= MaxPos
    <3>1. faults >= 1 /\ ~Perfect
      BY <2>2 DEF InStep
    <3>. QED BY <3>1, <2>0, <2>2 DEF Perfect
  <2>. QED BY <2>0, <2>1, <2>2
<1>. QED BY <1>3, <1>4, RecvInvariant, PTL
=============================================================================
