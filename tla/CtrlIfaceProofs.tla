--------------------------- MODULE CtrlIfaceProofs ---------------------------
(***************************************************************************)
(* Proofs about CtrlIface for every number of attempts, set of firmware    *)
(* builds, number of calls and of losses.                                  *)
(***************************************************************************)
EXTENDS CtrlIface, TLAPS

-----------------------------------------------------------------------------
(* The inductive invariant.                                                *)

\* The last number used before the call in progress, or the last call, began.
Base == ctrl_seq_num - attempt

\* A number in flight tells the call in progress from earlier ones.
Numbered(r) ==
  /\ r.call <= calls
  /\ r.seq <= ctrl_seq_num
  /\ r.call = calls <=> r.seq > Base

\* The packets to the ZPU are in the order of their calls, the requests in the
\* order of their numbers.
Sorted(q) ==
  \A i, j \in 1 .. Len(q) : i < j =>
    /\ q[i].call <= q[j].call
    /\ q[i].kind # "dest" /\ q[j].kind # "dest" => q[i].seq < q[j].seq

\* No packet on its way to the ZPU can take a register or the framer back.  A
\* request of the call in progress was executed under its lower numbers only.
ToZpuOK(r) ==
  /\ r.call <= calls
  /\ reg <= r.call
  /\ framer <= r.call
  /\ r.kind # "dest" =>
       /\ Numbered(r)
       /\ r.call = calls => r.kind = op /\ execs < r.seq - Base

\* An answer to the call in progress proves that it was executed, and saw the
\* pokes that returned before.
ToHostOK(r) ==
  /\ Numbered(r)
  /\ r.proto = fw
  /\ r.kind = "poke" => r.call <= reg
  /\ r.call = calls => /\ r.kind \in {op, "id"}
                       /\ r.kind = op => execs >= 1
                       /\ r.kind = "peek" => r.val >= poked

QueueInv ==
  /\ Sorted(toZpu)
  /\ \A i \in 1 .. Len(toZpu) : ToZpuOK(toZpu[i])
  /\ \A i \in 1 .. Len(toHost) : ToHostOK(toHost[i])

CallInv ==
  /\ execs <= attempt
  /\ InCall => attempt >= 1
  /\ reg <= calls /\ framer <= calls /\ opened <= calls
  /\ poked <= reg
  /\ pc = "construct" => calls = 1 /\ op = "id"
  /\ pc = "new" => calls = 0
  /\ pc \in {"call", "xport"} => op # "id"
  /\ pc \in {"idle", "call", "xport"} => fw >= HostCompat

\* The framer was programmed by call c or a later one, or c's packet was lost.
Programmed(c) == framer >= c \/ c \in destsLost

\* Call c's packet for the framer is on its way, ahead of c's requests.
DestFirst(c) ==
  \E i \in 1 .. Len(toZpu) :
    /\ toZpu[i].kind = "dest" /\ toZpu[i].call = c
    /\ \A j \in 1 .. i - 1 : toZpu[j].call < c

XportInv ==
  pc = "xport" =>
    \/ Programmed(calls)
    \/ DestFirst(calls) /\ \A i \in 1 .. Len(toHost) : toHost[i].call < calls

IInv ==
  /\ TypeOK
  /\ QueueInv
  /\ CallInv
  /\ XportInv
  /\ ReturnedWasExecuted
  /\ ReadsOwnWrites
  /\ XportIsProgrammed
  /\ OnlySameBuildAnswers

-----------------------------------------------------------------------------
(* Types.                                                                  *)

\* What a call appends to the packets for the ZPU has their type.
LEMMA SendType ==
  ASSUME TypeOK, NEW o \in Ops, NEW c \in Nat,
         NEW before \in Seq(Requests \cup Dests), Send(o, c, before)
  PROVE  ctrl_seq_num' \in Nat /\ toZpu' \in Seq(Requests \cup Dests)
<1>1. [kind |-> o, proto |-> protocol_compat, seq |-> ctrl_seq_num + 1, call |-> c]
        \in Requests
  BY DEF TypeOK, Requests
<1>2. toZpu \o before \in Seq(Requests \cup Dests)
  BY DEF TypeOK
<1>. QED BY <1>1, <1>2 DEF Send, TypeOK

\* The beginning of a call keeps the types.
LEMMA StartCallType ==
  ASSUME TypeOK, NEW o \in Ops, NEW before \in Seq(Requests \cup Dests),
         StartCall(o, before), pc' \in {"construct", "call", "xport"}
  PROVE  TypeOK'
<1>1. calls + 1 \in Nat
  BY DEF TypeOK
<1>2. ctrl_seq_num' \in Nat /\ toZpu' \in Seq(Requests \cup Dests)
  BY <1>1, SendType DEF StartCall
<1>3. attempt' \in 0 .. Retries /\ op' \in Ops /\ calls' \in Nat /\ execs' \in Nat
  BY <1>1, RetriesAssumption DEF StartCall
<1>. QED BY <1>2, <1>3 DEF TypeOK, StartCall, devVars, retVars, lossVars

\* The variables start with values of their types.
LEMMA InitType == Init => TypeOK
BY CompatAssumption, BoundAssumption, RetriesAssumption DEF Init, TypeOK, Ops

\* Every step of host, firmware and network keeps the types.
LEMMA TypeStep == TypeOK /\ [Next]_vars => TypeOK'
<1>. SUFFICES ASSUME TypeOK, [Next]_vars
              PROVE  TypeOK'
  OBVIOUS
<1>. USE DEF hostVars, devVars, retVars, lossVars
<1>1. CASE Construct \/ GetReg("poke") \/ GetReg("peek")
  <2>1. <<>> \in Seq(Requests \cup Dests)
    OBVIOUS
  <2>. QED BY <1>1, <2>1, StartCallType DEF Construct, GetReg, Ops
<1>2. CASE MakeXport
  <2>1. [kind |-> "dest", call |-> calls + 1] \in Requests \cup Dests
    BY DEF TypeOK, Dests
  <2>2. <<[kind |-> "dest", call |-> calls + 1]>> \in Seq(Requests \cup Dests)
    BY <2>1
  <2>. QED BY <1>2, <2>2, StartCallType DEF MakeXport, Ops
<1>3. CASE Recv
  <2>1. Head(toHost) \in Replies /\ Tail(toHost) \in Seq(Replies)
    BY <1>3 DEF Recv, TypeOK
  <2>2. /\ pc' \in {"new", "construct", "idle", "call", "xport", "dead"}
        /\ protocol_compat' \in Nat
        /\ {poked', opened'} \subseteq Nat
    BY <1>3, <2>1 DEF Recv, Throw, TypeOK, Replies
  <2>3. got' \in [call : Nat, of : Nat, execs : Nat, op : Ops, val : Nat, since : Nat]
    <3>1. CASE Returns(Head(toHost))
      <4>1. /\ Head(toHost).call \in Nat /\ Head(toHost).val \in Nat
            /\ calls \in Nat /\ execs \in Nat /\ op \in Ops /\ poked \in Nat
        BY <2>1 DEF TypeOK, Replies
      <4>2. got' = [call |-> Head(toHost).call, of |-> calls, execs |-> execs, op |-> op,
                    val |-> Head(toHost).val, since |-> poked]
        BY <1>3, <3>1 DEF Recv
      <4>. QED BY <4>1, <4>2
    <3>2. CASE ~Returns(Head(toHost))
      BY <1>3, <3>2 DEF Recv, TypeOK
    <3>. QED BY <3>1, <3>2
  <2>. QED BY <1>3, <2>1, <2>2, <2>3 DEF Recv, TypeOK
<1>4. CASE Timeout
  <2>1. CASE attempt < Retries
    <3>1. Send(op, calls, <<>>) /\ attempt' = attempt + 1 /\ pc' = pc
      BY <1>4, <2>1 DEF Timeout
    <3>2. <<>> \in Seq(Requests \cup Dests)
      OBVIOUS
    <3>3. ctrl_seq_num' \in Nat /\ toZpu' \in Seq(Requests \cup Dests)
      BY <3>1, <3>2, SendType DEF TypeOK
    <3>. QED BY <1>4, <2>1, <3>1, <3>3, RetriesAssumption DEF Timeout, TypeOK
  <2>2. CASE ~(attempt < Retries)
    BY <1>4, <2>2 DEF Timeout, Throw, TypeOK
  <2>. QED BY <2>1, <2>2
<1>5. CASE LoseRequest
  <2>1. Head(toZpu) \in Requests \cup Dests /\ Tail(toZpu) \in Seq(Requests \cup Dests)
    BY <1>5 DEF LoseRequest, TypeOK
  <2>2. Head(toZpu).call \in Nat
    BY <2>1 DEF Requests, Dests
  <2>3. destsLost' \subseteq Nat /\ lost' \in 0 .. MaxLost
    <3>1. destsLost' = destsLost \/ destsLost' = destsLost \cup {Head(toZpu).call}
      BY <1>5 DEF LoseRequest
    <3>2. lost' \in 0 .. MaxLost
      BY <1>5, BoundAssumption DEF LoseRequest, TypeOK
    <3>. QED BY <2>2, <3>1, <3>2 DEF TypeOK
  <2>. QED BY <1>5, <2>1, <2>3 DEF LoseRequest, TypeOK
<1>6. CASE LoseReply
  <2>1. Tail(toHost) \in Seq(Replies)
    BY <1>6 DEF LoseReply, TypeOK
  <2>. QED BY <1>6, <2>1, BoundAssumption DEF LoseReply, TypeOK
<1>7. CASE HandleUdpDataPacket
  <2>1. Head(toZpu) \in Requests \cup Dests /\ Tail(toZpu) \in Seq(Requests \cup Dests)
    BY <1>7 DEF HandleUdpDataPacket, TypeOK
  <2>2. Head(toZpu).call \in Nat
    BY <2>1 DEF Requests, Dests
  <2>. QED BY <1>7, <2>1, <2>2 DEF HandleUdpDataPacket, TypeOK
<1>8. CASE HandleUdpCtrlPacket
  <2>1. Head(toZpu) \in Requests /\ Tail(toZpu) \in Seq(Requests \cup Dests)
    <3>1. Head(toZpu) \in Requests \cup Dests /\ Tail(toZpu) \in Seq(Requests \cup Dests)
      BY <1>8 DEF HandleUdpCtrlPacket, TypeOK
    <3>. QED BY <1>8, <3>1 DEF HandleUdpCtrlPacket, Dests
  <2>2. Handled(Head(toZpu)) \in Ops
    BY <2>1 DEF Handled, Requests, Ops
  <2>3. reg' \in Nat /\ execs' \in Nat
    <3>1. Head(toZpu).call \in Nat /\ reg \in Nat /\ execs \in Nat
      BY <2>1 DEF Requests, TypeOK
    <3>. QED BY <1>8, <3>1 DEF HandleUdpCtrlPacket
  <2>4. [kind |-> Handled(Head(toZpu)), proto |-> fw, seq |-> Head(toZpu).seq,
         call |-> Head(toZpu).call, val |-> reg'] \in Replies
    BY <2>1, <2>2, <2>3, CompatAssumption DEF Replies, Requests, TypeOK
  <2>5. toHost' \in Seq(Replies)
    BY <1>8, <2>4 DEF HandleUdpCtrlPacket, TypeOK
  <2>. QED BY <1>8, <2>1, <2>3, <2>5 DEF HandleUdpCtrlPacket, TypeOK
<1>9. CASE Done \/ UNCHANGED vars
  BY <1>9 DEF Done, vars, TypeOK
<1>. QED
  BY <1>1, <1>2, <1>3, <1>4, <1>5, <1>6, <1>7, <1>8, <1>9 DEF Next, Call, Firmware

-----------------------------------------------------------------------------
(* The queue to the ZPU.                                                   *)

\* The fields of a packet to the ZPU and of a reply.
LEMMA PacketTypes ==
  ASSUME TypeOK
  PROVE  /\ \A i \in 1 .. Len(toZpu) :
              /\ toZpu[i].call \in Nat
              /\ toZpu[i].kind # "dest" => toZpu[i].seq \in Nat
         /\ \A i \in 1 .. Len(toHost) :
              /\ toHost[i].call \in Nat
              /\ toHost[i].seq \in Nat
              /\ toHost[i].val \in Nat
<1>1. \A i \in 1 .. Len(toZpu) : toZpu[i] \in Requests \cup Dests
  BY DEF TypeOK
<1>2. \A i \in 1 .. Len(toHost) : toHost[i] \in Replies
  BY DEF TypeOK
<1>. QED BY <1>1, <1>2 DEF Requests, Dests, Replies

\* An attempt leaves the queue in place and adds the request at its end, behind
\* the packet for the framer that make_xport sends first.
LEMMA SendQueue ==
  ASSUME TypeOK, NEW o \in Ops, NEW c \in Nat,
         NEW before \in {<<>>, <<[kind |-> "dest", call |-> c]>>}, Send(o, c, before)
  PROVE  /\ Len(toZpu') \in Nat /\ Len(toZpu) < Len(toZpu')
         /\ \A i \in 1 .. Len(toZpu) : toZpu'[i] = toZpu[i]
         /\ \A i \in Len(toZpu) + 1 .. Len(toZpu') :
              /\ toZpu'[i].call = c
              /\ \/ toZpu'[i].kind = "dest" /\ i < Len(toZpu')
                 \/ toZpu'[i].seq = ctrl_seq_num + 1 /\ toZpu'[i].kind = o /\ i = Len(toZpu')
         /\ before # <<>> => toZpu'[Len(toZpu) + 1].kind = "dest"
<1>. DEFINE r == [kind |-> o, proto |-> protocol_compat, seq |-> ctrl_seq_num + 1, call |-> c]
            d == [kind |-> "dest", call |-> c]
<1>1. toZpu \in Seq(Requests \cup Dests) /\ r \in Requests /\ d \in Dests
  BY DEF TypeOK, Requests, Dests
<1>2. toZpu' = Append(toZpu \o before, r)
  BY DEF Send
<1>3. r.kind = o /\ r.seq = ctrl_seq_num + 1 /\ r.call = c /\ d.kind = "dest" /\ d.call = c
  OBVIOUS
<1>. HIDE DEF r, d
<1>4. CASE before = <<>>
  <2>1. toZpu' = Append(toZpu, r)
    BY <1>1, <1>2, <1>4
  <2>. QED BY <1>1, <1>3, <1>4, <2>1
<1>5. CASE before = <<d>>
  <2>1. /\ Len(toZpu') = Len(toZpu) + 2 /\ Len(toZpu) \in Nat
        /\ \A i \in 1 .. Len(toZpu) : toZpu'[i] = toZpu[i]
        /\ toZpu'[Len(toZpu) + 1] = d /\ toZpu'[Len(toZpu) + 2] = r
    BY <1>1, <1>2, <1>5
  <2>. QED BY <1>3, <2>1
<1>. QED BY <1>4, <1>5 DEF d

\* Packets of the call in progress, appended to a sorted queue, keep it sorted.
LEMMA SendSorted ==
  ASSUME TypeOK, TypeOK', QueueInv, NEW o \in Ops, NEW c \in Nat, calls <= c,
         NEW before \in {<<>>, <<[kind |-> "dest", call |-> c]>>}, Send(o, c, before)
  PROVE  Sorted(toZpu)'
<1>. SUFFICES ASSUME NEW i \in 1 .. Len(toZpu'), NEW j \in 1 .. Len(toZpu'), i < j
              PROVE  /\ toZpu'[i].call <= toZpu'[j].call
                     /\ toZpu'[i].kind # "dest" /\ toZpu'[j].kind # "dest"
                          => toZpu'[i].seq < toZpu'[j].seq
  BY DEF Sorted
<1>1. Len(toZpu) \in Nat /\ Len(toZpu') \in Nat /\ calls \in Nat /\ ctrl_seq_num \in Nat
  <2>1. toZpu \in Seq(Requests \cup Dests) /\ toZpu' \in Seq(Requests \cup Dests)
    BY DEF TypeOK
  <2>2. calls \in Nat /\ ctrl_seq_num \in Nat
    BY DEF TypeOK
  <2>. QED BY <2>1, <2>2
<1>5. \A k \in Len(toZpu) + 1 .. Len(toZpu') :
        /\ toZpu'[k].call = c
        /\ \/ toZpu'[k].kind = "dest" /\ k < Len(toZpu')
           \/ toZpu'[k].seq = ctrl_seq_num + 1 /\ toZpu'[k].kind = o /\ k = Len(toZpu')
  BY SendQueue
<1>2. CASE j \in 1 .. Len(toZpu)
  <2>1. i \in 1 .. Len(toZpu)
    BY <1>1, <1>2
  <2>. QED BY <1>2, <2>1, SendQueue DEF QueueInv, Sorted
<1>3. CASE i \in 1 .. Len(toZpu) /\ j \in Len(toZpu) + 1 .. Len(toZpu')
  <2>1. /\ toZpu'[i] = toZpu[i]
        /\ toZpu'[j].call = c
        /\ toZpu'[j].kind # "dest" => toZpu'[j].seq = ctrl_seq_num + 1
    <3>1. toZpu'[i] = toZpu[i]
      BY <1>3, SendQueue
    <3>. QED BY <1>1, <1>3, <1>5, <3>1
  <2>2. /\ toZpu[i].call <= calls
        /\ toZpu[i].kind # "dest" => toZpu[i].seq <= ctrl_seq_num
    BY <1>3 DEF QueueInv, ToZpuOK, Numbered
  <2>3. /\ toZpu[i].call \in Nat
        /\ toZpu[i].kind # "dest" => toZpu[i].seq \in Nat
    BY <1>3, PacketTypes
  <2>. QED BY <1>1, <2>1, <2>2, <2>3
<1>4. CASE i \in Len(toZpu) + 1 .. Len(toZpu') /\ j \in Len(toZpu) + 1 .. Len(toZpu')
  BY <1>1, <1>4, <1>5
<1>. QED BY <1>1, <1>2, <1>3, <1>4

\* Taking the head off keeps the queue sorted, and the rest behind the head.
LEMMA TailSorted ==
  ASSUME TypeOK, Sorted(toZpu), toZpu # <<>>
  PROVE  /\ Sorted(Tail(toZpu))
         /\ \A i \in 1 .. Len(Tail(toZpu)) :
              /\ i + 1 \in 1 .. Len(toZpu)
              /\ Tail(toZpu)[i] = toZpu[i + 1]
              /\ Head(toZpu).call <= toZpu[i + 1].call
              /\ Head(toZpu).kind # "dest" /\ toZpu[i + 1].kind # "dest"
                   => Head(toZpu).seq < toZpu[i + 1].seq
<1>1. /\ Len(toZpu) \in Nat /\ Len(toZpu) >= 1
      /\ Len(Tail(toZpu)) = Len(toZpu) - 1
      /\ Head(toZpu) = toZpu[1]
      /\ \A i \in 1 .. Len(Tail(toZpu)) :
           i + 1 \in 1 .. Len(toZpu) /\ Tail(toZpu)[i] = toZpu[i + 1]
  <2>1. toZpu \in Seq(Requests \cup Dests)
    BY DEF TypeOK
  <2>. QED BY <2>1
<1>2. ASSUME NEW i \in 1 .. Len(Tail(toZpu))
      PROVE  /\ Head(toZpu).call <= toZpu[i + 1].call
             /\ Head(toZpu).kind # "dest" /\ toZpu[i + 1].kind # "dest"
                  => Head(toZpu).seq < toZpu[i + 1].seq
  <2>1. 1 \in 1 .. Len(toZpu) /\ i + 1 \in 1 .. Len(toZpu) /\ 1 < i + 1
    BY <1>1
  <2>. QED BY <1>1, <2>1 DEF Sorted
<1>3. ASSUME NEW i \in 1 .. Len(Tail(toZpu)), NEW j \in 1 .. Len(Tail(toZpu)), i < j
      PROVE  /\ Tail(toZpu)[i].call <= Tail(toZpu)[j].call
             /\ Tail(toZpu)[i].kind # "dest" /\ Tail(toZpu)[j].kind # "dest"
                  => Tail(toZpu)[i].seq < Tail(toZpu)[j].seq
  <2>1. i + 1 \in 1 .. Len(toZpu) /\ j + 1 \in 1 .. Len(toZpu) /\ i + 1 < j + 1
    BY <1>1, <1>3
  <2>. QED BY <1>1, <2>1 DEF Sorted
<1>. QED BY <1>1, <1>2, <1>3 DEF Sorted

-----------------------------------------------------------------------------
(* The steps of the host.                                                  *)

\* The numbers of the state.
LEMMA Numbers ==
  ASSUME TypeOK
  PROVE  /\ {ctrl_seq_num, attempt, reg, framer, calls, execs, poked, opened, fw}
              \subseteq Nat
         /\ Len(toZpu) \in Nat /\ Len(toHost) \in Nat
<1>1. toZpu \in Seq(Requests \cup Dests) /\ toHost \in Seq(Replies)
  BY DEF TypeOK
<1>2. ctrl_seq_num \in Nat /\ attempt \in Nat /\ fw \in Nat
  BY CompatAssumption, RetriesAssumption DEF TypeOK
<1>3. {reg, framer, calls, execs, poked, opened} \subseteq Nat
  BY DEF TypeOK
<1>. QED BY <1>1, <1>2, <1>3

\* A call begins: all that is in flight belongs to earlier calls.
LEMMA StartQueues ==
  ASSUME IInv, TypeOK', NEW o \in Ops,
         NEW before \in {<<>>, <<[kind |-> "dest", call |-> calls + 1]>>},
         StartCall(o, before)
  PROVE  QueueInv'
<1>. USE DEF IInv
<1>. /\ ctrl_seq_num \in Nat /\ attempt \in Nat /\ calls \in Nat /\ execs \in Nat
     /\ reg \in Nat /\ framer \in Nat /\ poked \in Nat /\ opened \in Nat /\ fw \in Nat
     /\ Len(toZpu) \in Nat /\ Len(toHost) \in Nat /\ Base \in Int
  BY Numbers DEF Base
<1>1. Send(o, calls + 1, before) /\ calls + 1 \in Nat /\ calls <= calls + 1
  BY DEF StartCall
<1>2. /\ calls' = calls + 1 /\ attempt' = 1 /\ execs' = 0 /\ op' = o
      /\ ctrl_seq_num' = ctrl_seq_num + 1 /\ Base' = ctrl_seq_num
      /\ UNCHANGED <<reg, framer, fw, toHost, poked>>
  BY DEF StartCall, Send, Base, devVars, retVars
<1>3. Sorted(toZpu)'
  BY <1>1, SendSorted
<1>4. ASSUME NEW i \in 1 .. Len(toZpu') PROVE ToZpuOK(toZpu[i])'
  <2>1. CASE i \in 1 .. Len(toZpu)
    <3>1. toZpu'[i] = toZpu[i]
      BY <1>1, <2>1, SendQueue
    <3>2. ToZpuOK(toZpu[i]) /\ toZpu[i].call \in Nat
          /\ (toZpu[i].kind # "dest" => toZpu[i].seq \in Nat)
      BY <2>1, PacketTypes DEF QueueInv
    <3>. QED BY <1>2, <3>1, <3>2 DEF ToZpuOK, Numbered
  <2>2. CASE i \in Len(toZpu) + 1 .. Len(toZpu')
    <3>1. /\ toZpu'[i].call = calls + 1
          /\ toZpu'[i].kind # "dest" =>
               toZpu'[i].kind = o /\ toZpu'[i].seq = ctrl_seq_num + 1
      <4>1. \A k \in Len(toZpu) + 1 .. Len(toZpu') :
              /\ toZpu'[k].call = calls + 1
              /\ \/ toZpu'[k].kind = "dest" /\ k < Len(toZpu')
                 \/ toZpu'[k].seq = ctrl_seq_num + 1 /\ toZpu'[k].kind = o /\ k = Len(toZpu')
        BY <1>1, SendQueue
      <4>. QED BY <2>2, <4>1
    <3>2. reg <= calls /\ framer <= calls
      BY DEF CallInv
    <3>. QED BY <1>2, <3>1, <3>2 DEF ToZpuOK, Numbered
  <2>. QED BY <2>1, <2>2
<1>5. ASSUME NEW i \in 1 .. Len(toHost') PROVE ToHostOK(toHost[i])'
  <2>1. /\ ToHostOK(toHost[i]) /\ toHost[i].call \in Nat /\ toHost[i].seq \in Nat
    BY <1>2, PacketTypes DEF QueueInv
  <2>. QED BY <1>2, <2>1 DEF ToHostOK, Numbered
<1>. QED BY <1>3, <1>4, <1>5 DEF QueueInv

\* A call begins with numbers above everything in flight.
LEMMA StartStep ==
  ASSUME IInv, TypeOK', Call
  PROVE  IInv'
<1>. USE DEF IInv
<1>. /\ ctrl_seq_num \in Nat /\ attempt \in Nat /\ calls \in Nat /\ execs \in Nat
     /\ reg \in Nat /\ framer \in Nat /\ poked \in Nat /\ opened \in Nat /\ fw \in Nat
     /\ Len(toZpu) \in Nat /\ Len(toHost) \in Nat /\ Base \in Int
  BY Numbers DEF Base
<1>1. CASE Construct
  <2>1. QueueInv'
    BY <1>1, StartQueues DEF Construct, Ops
  <2>2. CallInv' /\ XportInv'
    BY <1>1 DEF Construct, StartCall, CallInv, InCall, XportInv, devVars, retVars
  <2>. QED BY <1>1, <2>1, <2>2
           DEF Construct, StartCall, ReturnedWasExecuted, ReadsOwnWrites,
               XportIsProgrammed, OnlySameBuildAnswers, devVars, retVars, lossVars
<1>2. ASSUME NEW o \in {"poke", "peek"}, GetReg(o) PROVE IInv'
  <2>1. QueueInv'
    BY <1>2, StartQueues DEF GetReg, Ops
  <2>2. CallInv' /\ XportInv'
    BY <1>2 DEF GetReg, StartCall, CallInv, InCall, XportInv, devVars, retVars
  <2>. QED BY <1>2, <2>1, <2>2
           DEF GetReg, StartCall, ReturnedWasExecuted, ReadsOwnWrites,
               XportIsProgrammed, OnlySameBuildAnswers, devVars, retVars, lossVars
<1>3. CASE MakeXport
  <2>. DEFINE dest == <<[kind |-> "dest", call |-> calls + 1]>>
  <2>1. StartCall("peek", dest) /\ pc' = "xport" /\ pc = "idle"
    BY <1>3 DEF MakeXport
  <2>2. QueueInv'
    BY <2>1, StartQueues DEF Ops
  <2>3. CallInv'
    BY <2>1 DEF StartCall, CallInv, InCall, devVars, retVars
  <2>4. XportInv'
    <3>1. calls' = calls + 1 /\ UNCHANGED toHost
      BY <2>1 DEF StartCall
    <3>2. \A i \in 1 .. Len(toHost') : toHost'[i].call < calls'
      BY <3>1, PacketTypes DEF QueueInv, ToHostOK, Numbered
    <3>3. DestFirst(calls)'
      <4>1. Send("peek", calls + 1, dest) /\ dest # <<>> /\ calls + 1 \in Nat
        BY <2>1 DEF StartCall
      <4>2. /\ Len(toZpu) + 1 \in 1 .. Len(toZpu')
            /\ toZpu'[Len(toZpu) + 1].kind = "dest"
            /\ toZpu'[Len(toZpu) + 1].call = calls + 1
            /\ \A j \in 1 .. Len(toZpu) : toZpu'[j] = toZpu[j]
        BY <4>1, SendQueue DEF Ops
      <4>3. \A j \in 1 .. Len(toZpu) : toZpu[j].call < calls + 1
        BY PacketTypes DEF QueueInv, ToZpuOK
      <4>. QED BY <3>1, <4>2, <4>3 DEF DestFirst
    <3>. QED BY <3>2, <3>3 DEF XportInv
  <2>. QED BY <2>1, <2>2, <2>3, <2>4
           DEF StartCall, ReturnedWasExecuted, ReadsOwnWrites,
               XportIsProgrammed, OnlySameBuildAnswers, devVars, retVars, lossVars
<1>. QED BY <1>1, <1>2, <1>3 DEF Call

\* The next attempt of a call, or its end.
LEMMA TimeoutStep ==
  ASSUME IInv, TypeOK', Timeout
  PROVE  IInv'
<1>. USE DEF IInv
<1>. /\ ctrl_seq_num \in Nat /\ attempt \in Nat /\ calls \in Nat /\ execs \in Nat
     /\ reg \in Nat /\ framer \in Nat /\ poked \in Nat /\ opened \in Nat /\ fw \in Nat
     /\ Len(toZpu) \in Nat /\ Len(toHost) \in Nat /\ Base \in Int
  BY Numbers DEF Base
<1>1. /\ InCall /\ toHost = <<>>
      /\ UNCHANGED <<protocol_compat, op, fw, reg, framer, toHost, calls, execs, poked, opened,
                     got, destsLost, lost>>
  BY DEF Timeout, devVars, retVars, lossVars
<1>2. /\ ReturnedWasExecuted' /\ ReadsOwnWrites' /\ XportIsProgrammed'
      /\ OnlySameBuildAnswers'
  BY <1>1 DEF ReturnedWasExecuted, ReadsOwnWrites, XportIsProgrammed, OnlySameBuildAnswers
<1>3. CASE attempt < Retries
  <2>1. Send(op, calls, <<>>) /\ attempt' = attempt + 1 /\ pc' = pc
    BY <1>3 DEF Timeout
  <2>2. ctrl_seq_num' = ctrl_seq_num + 1 /\ Base' = Base
    BY <2>1 DEF Send, Base
  <2>3. op \in Ops /\ calls \in Nat /\ calls <= calls
    BY DEF TypeOK
  <2>4. /\ Len(toZpu') = Len(toZpu) + 1
        /\ \A i \in 1 .. Len(toZpu) : toZpu'[i] = toZpu[i]
        /\ toZpu'[Len(toZpu')].call = calls /\ toZpu'[Len(toZpu')].kind = op
        /\ toZpu'[Len(toZpu')].seq = ctrl_seq_num + 1
    <3>1. toZpu \in Seq(Requests \cup Dests)
      BY DEF TypeOK
    <3>2. toZpu' = Append(toZpu, [kind |-> op, proto |-> protocol_compat,
                                  seq |-> ctrl_seq_num + 1, call |-> calls])
      BY <2>1, <3>1 DEF Send
    <3>. QED BY <3>1, <3>2
  <2>5. Sorted(toZpu)'
    BY <2>1, <2>3, SendSorted
  <2>6. ASSUME NEW i \in 1 .. Len(toZpu') PROVE ToZpuOK(toZpu[i])'
    <3>1. CASE i \in 1 .. Len(toZpu)
      <4>1. ToZpuOK(toZpu[i]) /\ toZpu'[i] = toZpu[i] /\ toZpu[i].call \in Nat
            /\ (toZpu[i].kind # "dest" => toZpu[i].seq \in Nat)
        BY <2>4, <3>1, PacketTypes DEF QueueInv
      <4>. QED BY <1>1, <2>2, <4>1 DEF ToZpuOK, Numbered
    <3>2. CASE i = Len(toZpu')
      <4>1. reg <= calls /\ framer <= calls /\ execs <= attempt
        BY DEF CallInv
      <4>2. ctrl_seq_num + 1 > Base /\ execs < ctrl_seq_num + 1 - Base
        BY <4>1 DEF Base
      <4>. QED BY <1>1, <2>2, <2>4, <3>2, <4>1, <4>2 DEF ToZpuOK, Numbered
    <3>. QED BY <2>4, <3>1, <3>2
  <2>7. QueueInv'
    BY <1>1, <2>5, <2>6 DEF QueueInv
  <2>8. CallInv'
    BY <1>1, <2>1 DEF CallInv, InCall
  <2>9. XportInv'
    <3>1. DestFirst(calls) => DestFirst(calls)'
      BY <1>1, <2>4 DEF DestFirst
    <3>. QED BY <1>1, <2>1, <3>1 DEF XportInv, Programmed
  <2>. QED BY <1>2, <2>7, <2>8, <2>9
<1>4. CASE ~(attempt < Retries)
  <2>1. Throw /\ UNCHANGED <<attempt, ctrl_seq_num, toZpu>>
    BY <1>4 DEF Timeout
  <2>2. QueueInv'
    BY <1>1, <2>1 DEF QueueInv, Sorted, ToZpuOK, ToHostOK, Numbered, Base
  <2>3. CallInv' /\ XportInv'
    BY <1>1, <2>1 DEF CallInv, XportInv, Throw, InCall
  <2>. QED BY <1>2, <2>2, <2>3
<1>. QED BY <1>3, <1>4

\* A packet from the ZPU: the call returns, throws or skips it.
LEMMA RecvStep ==
  ASSUME IInv, TypeOK', Recv
  PROVE  IInv'
<1>. USE DEF IInv
<1>. /\ ctrl_seq_num \in Nat /\ attempt \in Nat /\ calls \in Nat /\ execs \in Nat
     /\ reg \in Nat /\ framer \in Nat /\ poked \in Nat /\ opened \in Nat /\ fw \in Nat
     /\ Len(toZpu) \in Nat /\ Len(toHost) \in Nat /\ Base \in Int
  BY Numbers DEF Base
<1>. DEFINE reply == Head(toHost)
<1>1. /\ InCall /\ toHost # <<>> /\ toHost' = Tail(toHost)
      /\ UNCHANGED <<ctrl_seq_num, op, attempt, fw, reg, framer, toZpu, calls, execs,
                     destsLost, lost>>
  BY DEF Recv, devVars, lossVars
<1>2. /\ \A i \in 1 .. Len(toHost') : i + 1 \in 1 .. Len(toHost) /\ toHost'[i] = toHost[i + 1]
      /\ 1 \in 1 .. Len(toHost) /\ reply = toHost[1]
  <2>1. toHost \in Seq(Replies)
    BY DEF TypeOK
  <2>. QED BY <1>1, <2>1
<1>3. /\ ToHostOK(reply) /\ reply.call \in Nat /\ reply.seq \in Nat /\ reply.val \in Nat
  BY <1>2, PacketTypes DEF QueueInv
<1>. HIDE DEF reply
<1>4. \A i \in 1 .. Len(toZpu') : ToZpuOK(toZpu[i])'
  BY <1>1 DEF QueueInv, ToZpuOK, Numbered, Base
<1>5. Sorted(toZpu)'
  BY <1>1 DEF QueueInv, Sorted
<1>6. CASE Returns(reply)
  <2>1. /\ pc' = "idle"
        /\ got' = [call |-> reply.call, of |-> calls, execs |-> execs, op |-> op,
                   val |-> reply.val, since |-> poked]
        /\ poked' = IF op = "poke" THEN calls ELSE poked
        /\ opened' = IF pc = "xport" THEN calls ELSE opened
    BY <1>6 DEF Recv, reply
  <2>2. reply.call = calls /\ execs >= 1 /\ reply.kind = op
    <3>1. reply.seq = ctrl_seq_num /\ reply.kind = op
      BY <1>6 DEF Returns, IsReply
    <3>2. ctrl_seq_num > Base
      BY <1>1 DEF CallInv, Base
    <3>. QED BY <1>3, <3>1, <3>2 DEF ToHostOK, Numbered
  <2>3. ASSUME NEW i \in 1 .. Len(toHost') PROVE ToHostOK(toHost[i])'
    <3>1. ToHostOK(toHost[i + 1])
      BY <1>2 DEF QueueInv
    <3>2. op = "poke" /\ toHost[i + 1].call = calls => toHost[i + 1].kind # "peek"
      BY <3>1 DEF ToHostOK
    <3>. QED BY <1>1, <1>2, <2>1, <3>1, <3>2 DEF ToHostOK, Numbered, Base
  <2>4. QueueInv'
    BY <1>4, <1>5, <2>3 DEF QueueInv
  <2>5. CallInv'
    <3>1. poked' <= reg
      BY <1>3, <2>1, <2>2 DEF CallInv, ToHostOK
    <3>2. fw >= HostCompat
      BY <1>1, <1>3, <1>6 DEF CallInv, InCall, Returns, Accepts, ToHostOK
    <3>. QED BY <1>1, <2>1, <3>1, <3>2 DEF CallInv, InCall
  <2>6. XportInv'
    BY <2>1 DEF XportInv
  <2>7. ReturnedWasExecuted'
    <3>1. execs <= Retries /\ 1 <= execs
      BY <2>2, RetriesAssumption DEF CallInv, TypeOK
    <3>. QED BY <2>1, <2>2, <3>1 DEF ReturnedWasExecuted
  <2>8. ReadsOwnWrites'
    BY <1>3, <2>1, <2>2 DEF ReadsOwnWrites, ToHostOK
  <2>9. XportIsProgrammed'
    <3>1. CASE pc = "xport"
      <4>1. Programmed(calls)
        BY <1>2, <1>3, <2>2, <3>1 DEF XportInv
      <4>. QED BY <1>1, <2>1, <3>1, <4>1 DEF XportIsProgrammed, Programmed
    <3>2. CASE pc # "xport"
      BY <1>1, <2>1, <3>2 DEF XportIsProgrammed
    <3>. QED BY <3>1, <3>2
  <2>10. OnlySameBuildAnswers'
    <3>1. ASSUME calls > 1 PROVE fw = HostCompat
      <4>1. op # "id" /\ fw >= HostCompat
        BY <1>1, <3>1 DEF CallInv, InCall
      <4>2. fw \in MinCompat .. HostCompat
        BY <1>3, <1>6, <4>1 DEF Returns, Accepts, ToHostOK
      <4>. QED BY <4>1, <4>2, CompatAssumption
    <3>. QED BY <1>1, <2>1, <3>1 DEF OnlySameBuildAnswers
  <2>. QED BY <2>4, <2>5, <2>6, <2>7, <2>8, <2>9, <2>10
<1>7. CASE ~Returns(reply)
  <2>1. UNCHANGED <<protocol_compat, poked, opened, got>> /\ (Throw \/ pc' = pc)
    BY <1>7 DEF Recv, retVars, reply
  <2>2. ASSUME NEW i \in 1 .. Len(toHost') PROVE ToHostOK(toHost[i])'
    BY <1>1, <1>2, <2>1 DEF QueueInv, ToHostOK, Numbered, Base
  <2>3. QueueInv'
    BY <1>4, <1>5, <2>2 DEF QueueInv
  <2>4. CallInv'
    BY <1>1, <2>1 DEF CallInv, InCall, Throw
  <2>5. XportInv'
    <3>1. DestFirst(calls) => DestFirst(calls)'
      BY <1>1 DEF DestFirst
    <3>. QED BY <1>1, <1>2, <2>1, <3>1 DEF XportInv, Programmed, Throw
  <2>. QED BY <1>1, <2>1, <2>3, <2>4, <2>5
           DEF ReturnedWasExecuted, ReadsOwnWrites, XportIsProgrammed, OnlySameBuildAnswers
<1>. QED BY <1>6, <1>7

-----------------------------------------------------------------------------
(* The steps of the network and of the firmware.                           *)

\* A packet leaves the queue to the ZPU.  If it was the one for the framer that
\* a call of make_xport waits for, that call is served or its packet is lost.
LEMMA DestLeaves ==
  ASSUME IInv, toZpu # <<>>, toZpu' = Tail(toZpu), DestFirst(calls), calls' = calls,
         Head(toZpu).kind # "dest" \/ Head(toZpu).call # calls
  PROVE  DestFirst(calls)' /\ Head(toZpu).call < calls
<1>1. PICK k \in 1 .. Len(toZpu) :
        /\ toZpu[k].kind = "dest" /\ toZpu[k].call = calls
        /\ \A j \in 1 .. k - 1 : toZpu[j].call < calls
  BY DEF DestFirst
<1>2. /\ Len(toZpu) \in Nat /\ Len(toZpu') = Len(toZpu) - 1
      /\ Head(toZpu) = toZpu[1]
      /\ \A j \in 1 .. Len(toZpu') : toZpu'[j] = toZpu[j + 1]
  <2>1. toZpu \in Seq(Requests \cup Dests)
    BY DEF IInv, TypeOK
  <2>. QED BY <2>1
<1>3. k # 1
  BY <1>1, <1>2
<1>4. k - 1 \in 1 .. Len(toZpu') /\ toZpu'[k - 1] = toZpu[k]
  <2>1. k - 1 \in 1 .. Len(toZpu') /\ (k - 1) + 1 = k
    BY <1>2, <1>3
  <2>. QED BY <1>2, <2>1
<1>5. \A j \in 1 .. k - 2 : toZpu'[j].call < calls
  <2>1. \A j \in 1 .. k - 2 : j + 1 \in 1 .. k - 1 /\ toZpu'[j] = toZpu[j + 1]
    BY <1>2
  <2>. QED BY <1>1, <2>1
<1>6. 1 \in 1 .. k - 1
  BY <1>3
<1>7. (k - 1) - 1 = k - 2
  OBVIOUS
<1>. QED BY <1>1, <1>2, <1>4, <1>5, <1>6, <1>7 DEF DestFirst

\* A packet to the ZPU is lost.
LEMMA LoseRequestStep ==
  ASSUME IInv, TypeOK', LoseRequest
  PROVE  IInv'
<1>. USE DEF IInv
<1>. /\ ctrl_seq_num \in Nat /\ attempt \in Nat /\ calls \in Nat /\ execs \in Nat
     /\ reg \in Nat /\ framer \in Nat /\ poked \in Nat /\ opened \in Nat /\ fw \in Nat
     /\ Len(toZpu) \in Nat /\ Len(toHost) \in Nat /\ Base \in Int
  BY Numbers DEF Base
<1>1. /\ toZpu # <<>> /\ toZpu' = Tail(toZpu)
      /\ destsLost' = IF Head(toZpu).kind = "dest" THEN destsLost \cup {Head(toZpu).call}
                                                   ELSE destsLost
      /\ UNCHANGED <<ctrl_seq_num, protocol_compat, pc, op, attempt, fw, reg, framer, toHost,
                     calls, execs, poked, opened, got>>
  BY DEF LoseRequest, hostVars, devVars, retVars
<1>2. QueueInv'
  <2>1. Sorted(toZpu)'
    BY <1>1, TailSorted DEF QueueInv, Sorted
  <2>2. \A i \in 1 .. Len(toZpu') : ToZpuOK(toZpu[i])'
    BY <1>1, TailSorted DEF QueueInv, ToZpuOK, Numbered, Base
  <2>3. \A i \in 1 .. Len(toHost') : ToHostOK(toHost[i])'
    BY <1>1 DEF QueueInv, ToHostOK, Numbered, Base
  <2>. QED BY <2>1, <2>2, <2>3 DEF QueueInv
<1>3. CallInv'
  BY <1>1 DEF CallInv, InCall
<1>4. XportInv'
  <2>. SUFFICES ASSUME pc = "xport", ~Programmed(calls)'
                PROVE  DestFirst(calls)' /\ \A i \in 1 .. Len(toHost') : toHost'[i].call < calls'
    BY <1>1 DEF XportInv
  <2>1. ~Programmed(calls) /\ (Head(toZpu).kind # "dest" \/ Head(toZpu).call # calls)
    BY <1>1 DEF Programmed
  <2>. QED BY <1>1, <2>1, DestLeaves DEF XportInv
<1>. QED BY <1>1, <1>2, <1>3, <1>4
         DEF ReturnedWasExecuted, ReadsOwnWrites, XportIsProgrammed, OnlySameBuildAnswers

\* A reply is lost.
LEMMA LoseReplyStep ==
  ASSUME IInv, TypeOK', LoseReply
  PROVE  IInv'
<1>. USE DEF IInv
<1>. /\ ctrl_seq_num \in Nat /\ attempt \in Nat /\ calls \in Nat /\ execs \in Nat
     /\ reg \in Nat /\ framer \in Nat /\ poked \in Nat /\ opened \in Nat /\ fw \in Nat
     /\ Len(toZpu) \in Nat /\ Len(toHost) \in Nat /\ Base \in Int
  BY Numbers DEF Base
<1>1. /\ toHost # <<>> /\ toHost' = Tail(toHost)
      /\ UNCHANGED <<ctrl_seq_num, protocol_compat, pc, op, attempt, fw, reg, framer, toZpu,
                     calls, execs, poked, opened, got, destsLost>>
  BY DEF LoseReply, hostVars, devVars, retVars
<1>2. \A i \in 1 .. Len(toHost') : i + 1 \in 1 .. Len(toHost) /\ toHost'[i] = toHost[i + 1]
  <2>1. toHost \in Seq(Replies)
    BY DEF TypeOK
  <2>. QED BY <1>1, <2>1
<1>3. QueueInv'
  <2>1. \A i \in 1 .. Len(toHost') : ToHostOK(toHost[i])'
    BY <1>1, <1>2 DEF QueueInv, ToHostOK, Numbered, Base
  <2>. QED BY <1>1, <2>1 DEF QueueInv, Sorted, ToZpuOK, Numbered, Base
<1>4. CallInv'
  BY <1>1 DEF CallInv, InCall
<1>5. XportInv'
  BY <1>1, <1>2 DEF XportInv, Programmed, DestFirst
<1>. QED BY <1>1, <1>3, <1>4, <1>5
         DEF ReturnedWasExecuted, ReadsOwnWrites, XportIsProgrammed, OnlySameBuildAnswers

\* The framer is programmed by the packets in the order of their calls.
LEMMA DataPacketStep ==
  ASSUME IInv, TypeOK', HandleUdpDataPacket
  PROVE  IInv'
<1>. USE DEF IInv
<1>. /\ ctrl_seq_num \in Nat /\ attempt \in Nat /\ calls \in Nat /\ execs \in Nat
     /\ reg \in Nat /\ framer \in Nat /\ poked \in Nat /\ opened \in Nat /\ fw \in Nat
     /\ Len(toZpu) \in Nat /\ Len(toHost) \in Nat /\ Base \in Int
  BY Numbers DEF Base
<1>1. /\ toZpu # <<>> /\ toZpu' = Tail(toZpu) /\ framer' = Head(toZpu).call
      /\ UNCHANGED <<ctrl_seq_num, protocol_compat, pc, op, attempt, fw, reg, toHost,
                     calls, execs, poked, opened, got, destsLost>>
  BY DEF HandleUdpDataPacket, hostVars, retVars, lossVars
<1>2. /\ framer <= Head(toZpu).call /\ Head(toZpu).call <= calls
      /\ Head(toZpu).call \in Nat
  <2>1. 1 \in 1 .. Len(toZpu) /\ Head(toZpu) = toZpu[1]
    <3>1. toZpu \in Seq(Requests \cup Dests)
      BY DEF TypeOK
    <3>. QED BY <1>1, <3>1
  <2>. QED BY <2>1, PacketTypes DEF QueueInv, ToZpuOK
<1>3. QueueInv'
  <2>1. Sorted(toZpu)'
    BY <1>1, TailSorted DEF QueueInv, Sorted
  <2>2. \A i \in 1 .. Len(toZpu') : ToZpuOK(toZpu[i])'
    BY <1>1, TailSorted DEF QueueInv, ToZpuOK, Numbered, Base
  <2>3. \A i \in 1 .. Len(toHost') : ToHostOK(toHost[i])'
    BY <1>1 DEF QueueInv, ToHostOK, Numbered, Base
  <2>. QED BY <2>1, <2>2, <2>3 DEF QueueInv
<1>4. CallInv'
  BY <1>1, <1>2 DEF CallInv, InCall
<1>5. XportInv'
  <2>. SUFFICES ASSUME pc = "xport", ~Programmed(calls)'
                PROVE  DestFirst(calls)' /\ \A i \in 1 .. Len(toHost') : toHost'[i].call < calls'
    BY <1>1 DEF XportInv
  <2>1. ~Programmed(calls) /\ Head(toZpu).call # calls
    BY <1>1, <1>2 DEF Programmed
  <2>. QED BY <1>1, <2>1, DestLeaves DEF XportInv
<1>6. XportIsProgrammed'
  BY <1>1, <1>2 DEF XportIsProgrammed
<1>. QED BY <1>1, <1>3, <1>4, <1>5, <1>6
         DEF ReturnedWasExecuted, ReadsOwnWrites, OnlySameBuildAnswers

\* A request is executed and answered: later requests of its call were executed
\* less often than their numbers allow, pokes follow each other in order.
LEMMA CtrlPacketStep ==
  ASSUME IInv, TypeOK', HandleUdpCtrlPacket
  PROVE  IInv'
<1>. USE DEF IInv
<1>. /\ ctrl_seq_num \in Nat /\ attempt \in Nat /\ calls \in Nat /\ execs \in Nat
     /\ reg \in Nat /\ framer \in Nat /\ poked \in Nat /\ opened \in Nat /\ fw \in Nat
     /\ Len(toZpu) \in Nat /\ Len(toHost) \in Nat /\ Base \in Int
  BY Numbers DEF Base
<1>. DEFINE request == Head(toZpu)
            kind == Handled(request)
            answer == [kind |-> kind, proto |-> fw, seq |-> request.seq,
                       call |-> request.call, val |-> reg']
<1>1. /\ toZpu # <<>> /\ toZpu' = Tail(toZpu) /\ request.kind # "dest"
      /\ reg' = IF kind = "poke" THEN request.call ELSE reg
      /\ execs' = IF kind = request.kind /\ request.call = calls THEN execs + 1 ELSE execs
      /\ toHost' = Append(toHost, answer)
      /\ UNCHANGED <<ctrl_seq_num, protocol_compat, pc, op, attempt, fw, framer,
                     calls, poked, opened, got, destsLost>>
  BY DEF HandleUdpCtrlPacket, hostVars, retVars, lossVars
<1>2. request.call \in Nat /\ request.seq \in Nat /\ ToZpuOK(request)
  <2>1. 1 \in 1 .. Len(toZpu) /\ request = toZpu[1]
    <3>1. toZpu \in Seq(Requests \cup Dests)
      BY DEF TypeOK
    <3>. QED BY <1>1, <3>1
  <2>. QED BY <1>1, <2>1, PacketTypes DEF QueueInv
<1>3. kind = request.kind \/ kind = "id"
  BY DEF Handled
<1>4. /\ Len(toHost') = Len(toHost) + 1
      /\ \A i \in 1 .. Len(toHost) : toHost'[i] = toHost[i]
      /\ toHost'[Len(toHost) + 1] = answer
  <2>1. toHost \in Seq(Replies)
    BY DEF TypeOK
  <2>. QED BY <1>1, <2>1
<1>5. /\ answer.kind = kind /\ answer.proto = fw /\ answer.seq = request.seq
      /\ answer.call = request.call /\ answer.val = reg'
  OBVIOUS
<1>. HIDE DEF request, kind, answer
<1>6. /\ reg <= reg' /\ reg' <= request.call /\ reg' \in Nat
      /\ execs <= execs' /\ execs' \in Nat
  BY <1>1, <1>2 DEF ToZpuOK
<1>7. request.call <= calls /\ (request.call = calls => request.kind = op)
      /\ (execs' # execs => execs' <= request.seq - Base /\ request.seq <= ctrl_seq_num)
  BY <1>1, <1>2 DEF ToZpuOK, Numbered
<1>8. Sorted(toZpu)'
  BY <1>1, TailSorted DEF QueueInv, Sorted
<1>9. ASSUME NEW i \in 1 .. Len(toZpu') PROVE ToZpuOK(toZpu[i])'
  <2>1. /\ i + 1 \in 1 .. Len(toZpu) /\ toZpu'[i] = toZpu[i + 1]
        /\ request.call <= toZpu[i + 1].call
        /\ toZpu[i + 1].kind # "dest" => request.seq < toZpu[i + 1].seq
    BY <1>1, TailSorted DEF QueueInv, request
  <2>2. /\ ToZpuOK(toZpu[i + 1]) /\ toZpu[i + 1].call \in Nat
        /\ toZpu[i + 1].kind # "dest" => toZpu[i + 1].seq \in Nat
    BY <2>1, PacketTypes DEF QueueInv
  <2>3. reg' <= toZpu[i + 1].call
    BY <1>2, <1>6, <2>1, <2>2
  <2>4. toZpu[i + 1].kind # "dest" /\ toZpu[i + 1].call = calls
          => execs' < toZpu[i + 1].seq - Base
    <3>1. CASE execs' = execs
      BY <2>2, <3>1 DEF ToZpuOK
    <3>2. CASE execs' # execs
      <4>1. execs' \in Nat /\ execs' <= request.seq - Base
        BY <1>6, <1>7, <3>2
      <4>. QED BY <1>2, <2>1, <2>2, <4>1
    <3>. QED BY <3>1, <3>2
  <2>. QED BY <1>1, <2>1, <2>2, <2>3, <2>4 DEF ToZpuOK, Numbered, Base
<1>10. ASSUME NEW i \in 1 .. Len(toHost') PROVE ToHostOK(toHost[i])'
  <2>1. CASE i \in 1 .. Len(toHost)
    <3>1. /\ ToHostOK(toHost[i]) /\ toHost[i].call \in Nat /\ toHost'[i] = toHost[i]
      BY <1>4, <2>1, PacketTypes DEF QueueInv
    <3>. QED BY <1>1, <1>6, <3>1 DEF ToHostOK, Numbered, Base
  <2>2. CASE i = Len(toHost) + 1
    <3>1. Numbered(request)
      BY <1>1, <1>2 DEF ToZpuOK
    <3>2. request.call = calls => /\ kind \in {op, "id"}
                                  /\ kind = op => execs' >= 1
      BY <1>1, <1>3, <1>7
    <3>3. kind = "peek" => reg' >= poked
      BY <1>6 DEF CallInv
    <3>4. kind = "poke" => request.call <= reg'
      BY <1>1, <1>2
    <3>. QED BY <1>1, <1>4, <1>5, <2>2, <3>1, <3>2, <3>3, <3>4 DEF ToHostOK, Numbered, Base
  <2>. QED BY <1>4, <2>1, <2>2
<1>11. QueueInv'
  BY <1>8, <1>9, <1>10 DEF QueueInv
<1>12. CallInv'
  BY <1>1, <1>2, <1>6, <1>7 DEF CallInv, InCall, Base
<1>13. XportInv'
  <2>. SUFFICES ASSUME pc = "xport", ~Programmed(calls)
                PROVE  DestFirst(calls)' /\ \A i \in 1 .. Len(toHost') : toHost'[i].call < calls'
    BY <1>1 DEF XportInv, Programmed
  <2>1. DestFirst(calls) /\ \A i \in 1 .. Len(toHost) : toHost[i].call < calls
    BY DEF XportInv
  <2>2. DestFirst(calls)' /\ request.call < calls
    BY <1>1, <2>1, DestLeaves DEF request
  <2>. QED BY <1>1, <1>4, <1>5, <2>1, <2>2
<1>. QED BY <1>1, <1>11, <1>12, <1>13
         DEF ReturnedWasExecuted, ReadsOwnWrites, XportIsProgrammed, OnlySameBuildAnswers

-----------------------------------------------------------------------------
(* The theorems.                                                           *)

\* Nothing is in flight at first.
LEMMA InitIInv == Init => IInv
<1>. SUFFICES ASSUME Init PROVE IInv
  OBVIOUS
<1>1. TypeOK
  BY InitType
<1>2. QueueInv /\ CallInv /\ XportInv
  BY DEF Init, QueueInv, Sorted, CallInv, InCall, XportInv
<1>. QED BY <1>1, <1>2 DEF Init, IInv, ReturnedWasExecuted, ReadsOwnWrites,
                           XportIsProgrammed, OnlySameBuildAnswers

\* One case per action of Next.
LEMMA NextIInv == IInv /\ [Next]_vars => IInv'
<1>. SUFFICES ASSUME IInv, [Next]_vars
              PROVE  IInv'
  OBVIOUS
<1>1. TypeOK'
  BY TypeStep DEF IInv
<1>2. CASE Done \/ UNCHANGED vars
  <2>1. /\ UNCHANGED <<ctrl_seq_num, protocol_compat, pc, op, attempt, fw, reg, framer, toZpu,
                       toHost, calls, execs, poked, opened, got, destsLost, lost>>
    BY <1>2 DEF Done, vars, hostVars, devVars, retVars, lossVars
  <2>2. QueueInv' /\ CallInv' /\ XportInv'
    BY <2>1 DEF IInv, QueueInv, Sorted, ToZpuOK, ToHostOK, Numbered, Base, CallInv, InCall,
                XportInv, Programmed, DestFirst
  <2>. QED BY <1>1, <2>1, <2>2 DEF IInv, ReturnedWasExecuted, ReadsOwnWrites,
                                   XportIsProgrammed, OnlySameBuildAnswers
<1>. QED
  BY <1>1, <1>2, StartStep, TimeoutStep, RecvStep, LoseRequestStep, LoseReplyStep,
     DataPacketStep, CtrlPacketStep DEF Next, Firmware

\* The inductive invariant of the control channel holds in every behaviour.
THEOREM CtrlInvariant == Spec => []IInv
<1>. QED BY InitIInv, NextIInv, PTL DEF Spec

\* Every variable of the control channel keeps its type.
THEOREM CtrlTypeCorrect == Spec => []TypeOK
<1>1. IInv => TypeOK
  BY DEF IInv
<1>. QED BY <1>1, CtrlInvariant, PTL

\* ctrl_send_and_recv returns the answer to its own call, which the firmware has
\* executed at least once and at most as often as there are attempts.
THEOREM AnswerIsOwn == Spec => []ReturnedWasExecuted
<1>1. IInv => ReturnedWasExecuted
  BY DEF IInv
<1>. QED BY <1>1, CtrlInvariant, PTL

\* A peek32 sees every poke32 that returned before it, whatever retries are
\* executed late.
THEOREM PeekSeesPokes == Spec => []ReadsOwnWrites
<1>1. IInv => ReadsOwnWrites
  BY DEF IInv
<1>. QED BY <1>1, CtrlInvariant, PTL

\* When make_xport returns, the framer has its destination or that packet was
\* lost.
THEOREM XportProgrammed == Spec => []XportIsProgrammed
<1>1. IInv => XportIsProgrammed
  BY DEF IInv
<1>. QED BY <1>1, CtrlInvariant, PTL

\* No call but the constructor's returns unless host and firmware have the same
\* compat number.
THEOREM SameBuild == Spec => []OnlySameBuildAnswers
<1>1. IInv => OnlySameBuildAnswers
  BY DEF IInv
<1>. QED BY <1>1, CtrlInvariant, PTL
=============================================================================
